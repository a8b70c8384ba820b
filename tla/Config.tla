------------------------------- MODULE Config -------------------------------
(***************************************************************************)
(* What New and NewWithConnection make of their Config: config.go, the     *)
(* credentials of client.go and the loading of an identity (identity.go).  *)
(*                                                                         *)
(* A Config is a record: fields, the string fields that are not blank;     *)
(* Identity, "nil" or not; timeout, seconds by phase; endpoint and         *)
(* override, as sequences of the tokens the code looks for; broken, the    *)
(* fields that name unusable files; paths, what CertPath and KeyPath name. *)
(* host is the host that the endpoint names.                               *)
(***************************************************************************)
EXTENDS Integers, SequencesExt, FiniteSets

DefaultTimeout == [evaluate |-> 5, endorse |-> 15, submit |-> 5, commitStatus |-> 60]

\* Mutant: zero means no timeout.
MutNoDefaults(c) == c
withDefaults(c) ==
  [c EXCEPT !.timeout =
     [ph \in DOMAIN DefaultTimeout |->
        IF c.timeout[ph] = 0 THEN DefaultTimeout[ph] ELSE c.timeout[ph]]]

Required(c, ownConn) ==
  {"ChannelName", "ChaincodeName"}
    \cup (IF ownConn THEN {"PeerEndpoint", "TLSCertPath"} ELSE {})
    \cup (IF c.Identity = "nil" THEN {"MSPID", "CertPath", "KeyPath"} ELSE {})

validate(c, ownConn) ==
  /\ Required(c, ownConn) \subseteq c.fields
  /\ ownConn => ("ClientTLSCertPath" \in c.fields <=> "ClientTLSKeyPath" \in c.fields)
  /\ \A ph \in DOMAIN c.timeout : c.timeout[ph] >= 0

\* withDefaultTimeout: whether a call under ctx ends by itself.
bounded(hasDeadline, d) == hasDeadline \/ d > 0

\* transportCredentials: the files of the transport can be used.
transportOK(c) ==
  {"TLSCertPath", "ClientTLSCertPath", "ClientTLSKeyPath"} \cap c.fields \cap c.broken = {}

\* The schemes that grpcTarget knows without "://".
shortSchemes == {"dns", "passthrough", "unix"}
hasScheme(e) ==
  \/ \E i \in 1..(Len(e) - 2) : SubSeq(e, i, i + 2) = <<":", "/", "/">>
  \/ \E s \in shortSchemes : IsPrefix(<<s, ":">>, e)
grpcTarget(e) == IF hasScheme(e) THEN e ELSE <<"dns", ":", "/", "/", "/">> \o e

After(e, t)  == SubSeq(e, SelectLastInSeq(e, LAMBDA x : x = t) + 1, Len(e))
Before(e, t) ==
  LET i == SelectLastInSeq(e, LAMBDA x : x = t)
  IN  IF i = 0 THEN e ELSE SubSeq(e, 1, i - 1)

\* Mutant: a scheme is left in the name.
MutSchemeKept(c) == IF c.override # <<>> THEN c.override ELSE Before(c.endpoint, ":")
serverNameFor(c) ==
  IF c.override # <<>> THEN c.override ELSE Before(After(c.endpoint, "/"), ":")

\* readPEMPath: the key pair that the one usable file at a path belongs to,
\* "none" when there is no such file or more than one.
usable(p) == IF p.dir THEN {f \in p.files : f.regular /\ ~f.hidden} ELSE p.files
readPEMPath(p) ==
  IF Cardinality(usable(p)) # 1 THEN "none" ELSE (CHOOSE f \in usable(p) : TRUE).pair

\* A key or a certificate is known by the pair it belongs to; "none" has no pair.
checkKeyMatchesCert(key, cert) == key = cert
IdentityFromPEM(cert, key) == cert # "none" /\ key # "none" /\ checkKeyMatchesCert(key, cert)

LoadIdentity(c) == IdentityFromPEM(readPEMPath(c.paths.cert), readPEMPath(c.paths.key))
=============================================================================
