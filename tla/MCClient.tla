------------------------------ MODULE MCClient ------------------------------
(***************************************************************************)
(* Configs for Client: one that works, with and without an identity of its *)
(* own, and ones that fail at each step of New. Those that fail late carry *)
(* the forms of endpoint and override.                                     *)
(***************************************************************************)
EXTENDS Client

File(pair) == [regular |-> TRUE, hidden |-> FALSE, pair |-> pair]
Hidden     == [regular |-> TRUE, hidden |-> TRUE, pair |-> "none"]
Only(f)    == [dir |-> FALSE, files |-> {f}]
Dir(fs)    == [dir |-> TRUE, files |-> fs]

Fields == {"PeerEndpoint", "TLSCertPath", "ChannelName", "ChaincodeName",
           "MSPID", "CertPath", "KeyPath"}

\* timeouts are zero, the keystore holds one key and a hidden file.
Good ==
  [fields |-> Fields, Identity |-> "nil", broken |-> {},
   timeout |-> [ph \in Phases |-> 0],
   host |-> <<"peer0">>, endpoint |-> <<"peer0", ":", "7051">>,
   override |-> <<>>,
   paths |-> [cert |-> Only(File("a")), key |-> Dir({File("a"), Hidden})]]

Given == [Good EXCEPT !.Identity = "hsm", !.fields = @ \ {"MSPID", "CertPath", "KeyPath"}]

\* Two keys in the keystore, another key than the certificate's, no key.
BadKeys ==
  {[Good EXCEPT !.paths.key = k] :
     k \in {Dir({File("a"), File("b")}), Only(File("b")), Dir({Hidden})}}

Invalid ==
  {[Good EXCEPT !.fields = @ \ {f}] : f \in {"ChannelName", "MSPID"}}
    \cup {[Good EXCEPT !.timeout[ph] = -1] : ph \in Phases}

\* Refused or failed by New; NewWithConnection, which ignores these fields, fails
\* at the keys.
NetworkFields ==
  LET bad == CHOOSE c \in BadKeys : TRUE
  IN  {[bad EXCEPT !.fields = @ \ {"TLSCertPath"}],
       [bad EXCEPT !.fields = @ \cup {"ClientTLSCertPath"}],
       [bad EXCEPT !.broken = {"TLSCertPath"}]}

Endpoint(c, scheme, host, port) == [c EXCEPT !.host = host, !.endpoint = scheme \o host \o port]

IPv6 == <<"[", ":", ":", "1", "]">>
Port == <<":", "7051">>

Endpoints ==
  LET bad == CHOOSE c \in BadKeys : TRUE
  IN  {Endpoint(bad, s, h, Port) :
         s \in {<<>>, <<"dns", ":", "/", "/", "/">>, <<"dns", ":", "/", "/", "8.8.8.8", "/">>},
         h \in {<<"peer0">>, IPv6}}
      \cup {Endpoint(bad, <<"dns", ":">>, <<"peer0">>, Port),
            Endpoint(bad, <<>>, IPv6, <<>>)}

Overridden == {[c EXCEPT !.override = <<"peer1">>] : c \in Endpoints}

Failing == BadKeys \cup Invalid \cup NetworkFields \cup Endpoints \cup Overridden

\* The two clients that come to be are New's with all it makes itself, and
\* NewWithConnection's with an identity of the caller.
MCSetups ==
  {[cfg |-> Good, given |-> "none"], [cfg |-> Given, given |-> "conn"], [cfg |-> Given, given |-> "nil"]}
    \cup [cfg : Failing, given : {"none", "conn"}]

\* Two Waits on one PendingTx; every operation against Close, begun before it,
\* beside it or after it; two Close at once.
MCPlans ==
  {<<"submit_async", "wait", "wait">>,
   <<"submit_async", "wait", "close">>,
   <<"submit_async", "submit", "close">>,
   <<"submit", "close", "evaluate">>,
   <<"close", "submit", "close">>,
   <<"events", "close", "tx_status">>,
   <<"close", "events", "height">>}

\* Two Waits on one PendingTx.
MCTwoWaits == {<<"submit_async", "wait", "wait">>}
=============================================================================
