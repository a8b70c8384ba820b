------------------------ MODULE ClassificationProofs ------------------------
(***************************************************************************)
(* Proofs about Classification: what classify makes of the answers of any  *)
(* number of peers, in any order and with any texts.                       *)
(***************************************************************************)
EXTENDS Classification, ErrorsProofs, WellFoundedInduction

-----------------------------------------------------------------------------
(***************************************************************************)
(* The searches in the texts.                                              *)
(***************************************************************************)

\* A set of positions has a first one.
LEMMA FirstOf == ASSUME NEW I \in SUBSET Nat, I # {} PROVE Min(I) \in I
<1> DEFINE Less == OpToRel(<, Nat)
<1>1. IsWellFoundedOn(Less, Nat)
  BY NatLessThanWellFounded DEF OpToRel
<1>2. \A x, y \in Nat : <<x, y>> \in Less <=> x < y
  BY DEF OpToRel
<1> HIDE DEF Less
<1>3. PICK x \in I : \A y \in I : ~(<<y, x>> \in Less)
  <2>1. I \subseteq Nat /\ I # {}
    OBVIOUS
  <2> QED BY <1>1, <2>1, WFMin, Zenon
<1>4. ASSUME NEW y \in I PROVE x <= y
  <2>1. x \in Nat /\ y \in Nat
    OBVIOUS
  <2>2. ~(y < x)
    BY <1>2, <1>3, <2>1, Zenon
  <2> QED BY <2>1, <2>2
<1> QED BY <1>4 DEF Min

\* The keyword fallback reads a Kind only out of a text that has its keywords and
\* is not the peer's own wording.
LEMMA LegacyKind ==
  ASSUME NEW m, legacyKind(m) # "nil"
  PROVE  legacyKind(m) \in m.words /\ ~m.peerSide
         /\ legacyKind(m) \in {"conflict", "already_exists", "not_found", "unauthorized"}
<1> DEFINE order == <<"conflict", "already_exists", "not_found", "unauthorized">>
           I == {i \in 1..Len(order) : order[i] \in m.words}
           first == IF I # {} THEN Min(I) ELSE 0
<1>1. SelectInSeq(order, LAMBDA k : k \in m.words) = first
  BY DEF SelectInSeq
<1>2. ~m.peerSide /\ first # 0 /\ legacyKind(m) = order[first]
  BY <1>1 DEF legacyKind
<1>3. Len(order) = 4 /\ I \in SUBSET Nat
  OBVIOUS
<1>4. first \in I
  <2> HIDE DEF I
  <2> QED BY <1>2, <1>3, FirstOf
<1>5. first \in 1..4 /\ order[first] \in m.words
  BY <1>3, <1>4
<1> HIDE DEF first
<1> QED BY <1>2, <1>5

-----------------------------------------------------------------------------
(***************************************************************************)
(* The candidates that chaincodeError looks at are the texts of the error. *)
(***************************************************************************)
Candidates(msg, details0) ==
  details0 \o (IF msg = NoMessage THEN <<>> ELSE <<[msg EXCEPT !.wrapped = FALSE]>>)

TextsIn(msg, details0) == {details0[i] : i \in DOMAIN details0} \cup {[msg EXCEPT !.wrapped = FALSE]}

LEMMA NoMessageIs ==
  /\ [NoMessage EXCEPT !.wrapped = FALSE] = NoMessage
  /\ ~ParseOK(NoMessage) /\ ~IsResponse(NoMessage) /\ legacyKind(NoMessage) = "nil"
<1>1. NoMessage.wrapped = FALSE /\ NoMessage.resp = FALSE /\ NoMessage.head = "nil" /\ NoMessage.words = {}
  BY DEF NoMessage, Message
<1>2. [NoMessage EXCEPT !.wrapped = FALSE] = NoMessage
  <2>1. NoMessage = [f \in DOMAIN NoMessage |-> NoMessage[f]]
    BY DEF NoMessage, Message
  <2> HIDE DEF NoMessage
  <2> QED BY <1>1, <2>1
<1>3. legacyKind(NoMessage) = "nil"
  BY <1>1, LegacyKind
<1> QED BY <1>1, <1>2, <1>3 DEF ParseOK, IsResponse, KnownCodes

LEMMA CandidatesAre ==
  ASSUME NEW S, NEW d \in Seq(S), NEW msg
  PROVE  /\ Len(Candidates(msg, d)) \in Nat
         /\ \A i \in 1..Len(Candidates(msg, d)) : Candidates(msg, d)[i] \in TextsIn(msg, d)
         /\ \A m \in TextsIn(msg, d) : m # NoMessage =>
              \E i \in 1..Len(Candidates(msg, d)) : Candidates(msg, d)[i] = m
<1> DEFINE x == [msg EXCEPT !.wrapped = FALSE]
           c == Candidates(msg, d)
<1>1. DOMAIN d = 1..Len(d) /\ Len(d) \in Nat
  OBVIOUS
<1>2. CASE msg = NoMessage
  <2>1. c = d
    BY <1>2 DEF Candidates
  <2>2. TextsIn(msg, d) = {d[i] : i \in 1..Len(d)} \cup {NoMessage}
    BY <1>1, <1>2, NoMessageIs DEF TextsIn
  <2> HIDE DEF c
  <2> QED BY <1>1, <2>1, <2>2 DEF c
<1>3. CASE msg # NoMessage
  <2>1. c = d \o <<x>>
    BY <1>3 DEF Candidates
  <2>2. TextsIn(msg, d) = {d[i] : i \in 1..Len(d)} \cup {x}
    BY <1>1 DEF TextsIn
  <2> HIDE DEF x
  <2>3. /\ Len(c) = Len(d) + 1 /\ c[Len(d) + 1] = x
        /\ \A i \in 1..Len(d) : c[i] = d[i]
    <3>1. d \in Seq(S \cup {x}) /\ <<x>> \in Seq(S \cup {x}) /\ Len(<<x>>) = 1 /\ <<x>>[1] = x
      OBVIOUS
    <3> QED BY <1>1, <2>1, <3>1
  <2> HIDE DEF c
  <2>4. \A i \in 1..(Len(d) + 1) : i \in 1..Len(d) \/ i = Len(d) + 1
    BY <1>1
  <2>5. \A i \in 1..Len(c) : c[i] \in TextsIn(msg, d)
    BY <1>1, <2>2, <2>3, <2>4
  <2>6. ASSUME NEW m \in TextsIn(msg, d) PROVE \E i \in 1..Len(c) : c[i] = m
    BY <1>1, <2>2, <2>3
  <2> QED BY <1>1, <2>3, <2>5, <2>6 DEF c
<1> QED BY <1>2, <1>3

\* What each of the three searches of chaincodeError finds: position 0 when no text
\* passes the test, or the position of one that does.
LEMMA Searches ==
  ASSUME NEW c, Len(c) \in Nat
  PROVE  /\ \/ SelectInSeq(c, ParseOK) = 0 /\ \A i \in 1..Len(c) : ~ParseOK(c[i])
            \/ SelectInSeq(c, ParseOK) \in 1..Len(c) /\ ParseOK(c[SelectInSeq(c, ParseOK)])
         /\ \/ SelectInSeq(c, IsResponse) = 0 /\ \A i \in 1..Len(c) : ~IsResponse(c[i])
            \/ SelectInSeq(c, IsResponse) \in 1..Len(c) /\ IsResponse(c[SelectInSeq(c, IsResponse)])
         /\ LET w == SelectInSeq(c, LAMBDA m : legacyKind(m) # "nil")
            IN  \/ w = 0 /\ \A i \in 1..Len(c) : legacyKind(c[i]) = "nil"
                \/ w \in 1..Len(c) /\ legacyKind(c[w]) # "nil"
<1> DEFINE P == {i \in 1..Len(c) : ParseOK(c[i])}
           R == {i \in 1..Len(c) : IsResponse(c[i])}
           W == {i \in 1..Len(c) : legacyKind(c[i]) # "nil"}
<1>1. P \in SUBSET Nat /\ R \in SUBSET Nat /\ W \in SUBSET Nat
  OBVIOUS
<1>2. ASSUME NEW I \in SUBSET Nat
      PROVE  \/ (IF I # {} THEN Min(I) ELSE 0) = 0 /\ I = {}
             \/ (IF I # {} THEN Min(I) ELSE 0) \in I
  BY FirstOf
<1>3. /\ SelectInSeq(c, ParseOK) = (IF P # {} THEN Min(P) ELSE 0)
      /\ SelectInSeq(c, IsResponse) = (IF R # {} THEN Min(R) ELSE 0)
      /\ SelectInSeq(c, LAMBDA m : legacyKind(m) # "nil") = (IF W # {} THEN Min(W) ELSE 0)
  BY DEF SelectInSeq
<1> DEFINE p == IF P # {} THEN Min(P) ELSE 0
           r == IF R # {} THEN Min(R) ELSE 0
           w == IF W # {} THEN Min(W) ELSE 0
<1>4. (p = 0 /\ P = {}) \/ p \in P
  <2> HIDE DEF P
  <2> QED BY <1>1, <1>2
<1>5. (r = 0 /\ R = {}) \/ r \in R
  <2> HIDE DEF R
  <2> QED BY <1>1, <1>2
<1>6. (w = 0 /\ W = {}) \/ w \in W
  <2> HIDE DEF W
  <2> QED BY <1>1, <1>2
<1>7. /\ SelectInSeq(c, ParseOK) = p /\ SelectInSeq(c, IsResponse) = r
      /\ SelectInSeq(c, LAMBDA m : legacyKind(m) # "nil") = w
  BY <1>3
<1> HIDE DEF p, r, w
<1> QED BY <1>4, <1>5, <1>6, <1>7

-----------------------------------------------------------------------------
(***************************************************************************)
(* What chaincodeError finds, whatever the order of the texts.             *)
(***************************************************************************)
MayBeChaincode == {"Aborted", "Unknown"}

\* chaincodeKind, with its three searches named.
LEMMA ChaincodeKindIs ==
  ASSUME NEW code \in MayBeChaincode, NEW msg, NEW d, NEW strict \in BOOLEAN
  PROVE  LET c == Candidates(msg, d)
             p == SelectInSeq(c, ParseOK)
             r == SelectInSeq(c, IsResponse)
             w == SelectInSeq(d, LAMBDA m : legacyKind(m) # "nil")
         IN  chaincodeKind(code, msg, d, strict) =
               IF p # 0 THEN ccKind[c[p].head]
               ELSE IF r # 0 THEN IF ~strict /\ legacyKind(c[r]) # "nil" THEN legacyKind(c[r]) ELSE "chaincode"
               ELSE IF ~strict /\ w # 0 THEN legacyKind(d[w])
               ELSE "nil"
BY DEF chaincodeKind, Candidates, MayBeChaincode

\* A text with a code decides: the Kind is that of one such text.
LEMMA CodedDecides ==
  ASSUME NEW S, NEW d \in Seq(S), NEW msg, NEW code \in MayBeChaincode, NEW strict \in BOOLEAN,
         \E m \in TextsIn(msg, d) : ParseOK(m)
  PROVE  \E m \in TextsIn(msg, d) : ParseOK(m) /\ chaincodeKind(code, msg, d, strict) = ccKind[m.head]
<1> DEFINE c == Candidates(msg, d)
           p == SelectInSeq(c, ParseOK)
<1>1. /\ Len(c) \in Nat /\ \A i \in 1..Len(c) : c[i] \in TextsIn(msg, d)
      /\ \A m \in TextsIn(msg, d) : m # NoMessage => \E i \in 1..Len(c) : c[i] = m
  BY CandidatesAre
<1>2. p # 0 => chaincodeKind(code, msg, d, strict) = ccKind[c[p].head]
  BY ChaincodeKindIs
<1>3. (p = 0 /\ \A i \in 1..Len(c) : ~ParseOK(c[i])) \/ (p \in 1..Len(c) /\ ParseOK(c[p]))
  <2>1. Len(c) \in Nat
    BY <1>1
  <2> HIDE DEF c
  <2> QED BY <2>1, Searches
<1> HIDE DEF c, p
<1>4. \E i \in 1..Len(c) : ParseOK(c[i])
  BY <1>1, NoMessageIs
<1>5. p \in 1..Len(c) /\ ParseOK(c[p]) /\ p # 0
  BY <1>1, <1>3, <1>4
<1> QED BY <1>1, <1>2, <1>5

\* With a code, StrictErrorCodes makes no difference.
LEMMA SameWhenCoded ==
  ASSUME NEW S, NEW d \in Seq(S), NEW msg, NEW code \in MayBeChaincode,
         \E m \in TextsIn(msg, d) : ParseOK(m)
  PROVE  chaincodeKind(code, msg, d, TRUE) = chaincodeKind(code, msg, d, FALSE)
<1> DEFINE c == Candidates(msg, d)
           p == SelectInSeq(c, ParseOK)
<1>1. /\ Len(c) \in Nat
      /\ \A m \in TextsIn(msg, d) : m # NoMessage => \E i \in 1..Len(c) : c[i] = m
  BY CandidatesAre
<1>2. /\ p # 0 => chaincodeKind(code, msg, d, TRUE) = ccKind[c[p].head]
      /\ p # 0 => chaincodeKind(code, msg, d, FALSE) = ccKind[c[p].head]
  BY ChaincodeKindIs
<1>3. (p = 0 /\ \A i \in 1..Len(c) : ~ParseOK(c[i])) \/ p \in 1..Len(c)
  <2>1. Len(c) \in Nat
    BY <1>1
  <2> HIDE DEF c
  <2> QED BY <2>1, Searches
<1> HIDE DEF c, p
<1>4. \E i \in 1..Len(c) : ParseOK(c[i])
  BY <1>1, NoMessageIs
<1>5. p # 0
  BY <1>1, <1>3, <1>4
<1> QED BY <1>2, <1>5

\* Without a code, the keywords are a guess that StrictErrorCodes leaves out.
Guess(kind, texts) == \E m \in texts : kind = legacyKind(m) /\ kind # "nil"

LEMMA UncodedGuess ==
  ASSUME NEW S, NEW d \in Seq(S), NEW msg, NEW code \in MayBeChaincode,
         \A m \in TextsIn(msg, d) : ~ParseOK(m)
  PROVE  \/ /\ \E m \in TextsIn(msg, d) : IsResponse(m)
            /\ chaincodeKind(code, msg, d, TRUE) = "chaincode"
            /\ \/ chaincodeKind(code, msg, d, FALSE) = "chaincode"
               \/ Guess(chaincodeKind(code, msg, d, FALSE), TextsIn(msg, d))
         \/ /\ chaincodeKind(code, msg, d, TRUE) = "nil"
            /\ \/ chaincodeKind(code, msg, d, FALSE) = "nil"
               \/ Guess(chaincodeKind(code, msg, d, FALSE), TextsIn(msg, d))
<1> DEFINE c == Candidates(msg, d)
           p == SelectInSeq(c, ParseOK)
           r == SelectInSeq(c, IsResponse)
           w == SelectInSeq(d, LAMBDA m : legacyKind(m) # "nil")
           T == TextsIn(msg, d)
           strictKind  == chaincodeKind(code, msg, d, TRUE)
           lenientKind == chaincodeKind(code, msg, d, FALSE)
<1>1. Len(c) \in Nat /\ \A i \in 1..Len(c) : c[i] \in T
  BY CandidatesAre
<1>2. Len(d) \in Nat /\ \A i \in 1..Len(d) : d[i] \in T
  BY DEF TextsIn
<1>3. /\ p = 0 => strictKind = IF r # 0 THEN "chaincode" ELSE "nil"
      /\ p = 0 => lenientKind = IF r # 0 THEN IF legacyKind(c[r]) # "nil" THEN legacyKind(c[r]) ELSE "chaincode"
                                ELSE IF w # 0 THEN legacyKind(d[w]) ELSE "nil"
  BY ChaincodeKindIs
<1>4. /\ (p = 0 /\ \A i \in 1..Len(c) : ~ParseOK(c[i])) \/ (p \in 1..Len(c) /\ ParseOK(c[p]))
      /\ (r = 0 /\ \A i \in 1..Len(c) : ~IsResponse(c[i])) \/ (r \in 1..Len(c) /\ IsResponse(c[r]))
  <2>1. Len(c) \in Nat
    BY <1>1
  <2> HIDE DEF c
  <2> QED BY <2>1, Searches
<1>5. (w = 0 /\ \A i \in 1..Len(d) : legacyKind(d[i]) = "nil") \/ (w \in 1..Len(d) /\ legacyKind(d[w]) # "nil")
  BY <1>2, Searches
<1> HIDE DEF c, p, r, w, strictKind, lenientKind
<1>6. p = 0
  BY <1>1, <1>4
<1>7. CASE r # 0
  <2>1. c[r] \in T /\ IsResponse(c[r])
    BY <1>1, <1>4, <1>7
  <2>2. strictKind = "chaincode"
    BY <1>3, <1>6, <1>7
  <2>3. lenientKind = "chaincode" \/ (lenientKind = legacyKind(c[r]) /\ lenientKind # "nil")
    BY <1>3, <1>6, <1>7
  <2> QED BY <2>1, <2>2, <2>3 DEF Guess, strictKind, lenientKind
<1>8. CASE r = 0
  <2>1. strictKind = "nil"
    BY <1>3, <1>6, <1>8
  <2>2. CASE w = 0
    <3>1. lenientKind = "nil"
      BY <1>3, <1>6, <1>8, <2>2
    <3> QED BY <2>1, <3>1 DEF strictKind, lenientKind
  <2>3. CASE w # 0
    <3>1. d[w] \in T /\ lenientKind = legacyKind(d[w]) /\ lenientKind # "nil"
      BY <1>2, <1>3, <1>5, <1>6, <1>8, <2>3
    <3> QED BY <2>1, <3>1 DEF Guess, strictKind, lenientKind
  <2> QED BY <2>2, <2>3
<1> QED BY <1>7, <1>8

-----------------------------------------------------------------------------
(***************************************************************************)
(* What classify makes of a status error while a proposal is evaluated or  *)
(* endorsed.                                                               *)
(***************************************************************************)
LEMMA ClassifyStatus ==
  ASSUME NEW code, NEW cause, NEW msg, NEW d, NEW phase, NEW strict
  PROVE  LET e    == StatusErr(code, cause, msg, d)
             sc   == statusCode(e)
             kind == chaincodeKind(sc, msg, d, strict)
             res  == classify(e, Tx, phase, strict)
         IN  /\ phase \in {"evaluate", "endorse"} /\ kind # "nil" =>
                  res = [newError(kind, "chaincode") EXCEPT !.TxID = Tx]
             /\ phase \notin {"evaluate", "endorse"} \/ kind = "nil" =>
                  res = [networkError(sc, phase) EXCEPT !.TxID = Tx]
<1> DEFINE e == StatusErr(code, cause, msg, d)
<1>1. e.type = "status" /\ e.msg = msg /\ e.details = d
  BY DEF StatusErr
<1> HIDE DEF e
<1>2. classify(e, Tx, phase, strict) = classifyStatus(e, Tx, phase, strict)
  BY <1>1 DEF classify
<1>3. /\ phase \in {"evaluate", "endorse"} /\ chaincodeKind(statusCode(e), msg, d, strict) # "nil" =>
           classify(e, Tx, phase, strict) =
             [newError(chaincodeKind(statusCode(e), msg, d, strict), "chaincode") EXCEPT !.TxID = Tx]
      /\ phase \notin {"evaluate", "endorse"} \/ chaincodeKind(statusCode(e), msg, d, strict) = "nil" =>
           classify(e, Tx, phase, strict) = [networkError(statusCode(e), phase) EXCEPT !.TxID = Tx]
  BY <1>1, <1>2 DEF classifyStatus
<1> QED BY <1>3 DEF e

LEMMA NewErrorFields ==
  ASSUME NEW kind, NEW source, NEW t
  PROVE  /\ [newError(kind, source) EXCEPT !.TxID = t].Kind = kind
         /\ [newError(kind, source) EXCEPT !.TxID = t].Source = source
BY DEF newError

LEMMA UnspecificKind ==
  ASSUME NEW code \in MayBeChaincode, NEW phase \in {"evaluate", "endorse"}
  PROVE  networkError(code, phase) = newError("endorsement", "network")
<1>1. kindFromCode(code, phase) = "endorsement"
  BY DEF kindFromCode, MayBeChaincode
<1> QED BY <1>1 DEF networkError

-----------------------------------------------------------------------------
(***************************************************************************)
(* The invariant: the error that was classified is one of the three forms, *)
(* and its details are the answers of the peers.                           *)
(***************************************************************************)
IsStatus(code, cause, msg) == msg \in Texts \cup {NoMessage} /\ err = StatusErr(code, cause, msg, details)

ErrInv ==
  stage # "asking" =>
    \/ err = SDKErr(configError)
    \/ \E vc : err = CommitErr(Tx, vc)
    \/ \E code, cause, msg : IsStatus(code, cause, msg)
GotInv ==
  stage = "classified" =>
    got = [lenient |-> classify(err, Tx, ph, FALSE), strict |-> classify(err, Tx, ph, TRUE)]

ClassificationInv ==
  /\ stage \in {"asking", "failed", "classified"} /\ details \in Seq(Texts)
  /\ ErrInv /\ GotInv

LEMMA ClassificationInvariant == Spec => []ClassificationInv
<1> USE DEF ClassificationInv, ErrInv, GotInv
<1>1. Init => ClassificationInv
  BY DEF Init
<1>2. ASSUME ClassificationInv, [Next]_vars PROVE ClassificationInv'
  <2>1. CASE PeerAnswers
    <3>1. details' \in Seq(Texts)
      BY <1>2, <2>1 DEF PeerAnswers
    <3> QED BY <1>2, <2>1, <3>1 DEF PeerAnswers
  <2>2. CASE CallFails
    BY <1>2, <2>2 DEF CallFails, IsStatus
  <2>3. CASE CallRefused
    BY <1>2, <2>3 DEF CallRefused
  <2>4. CASE CommitInvalid
    BY <1>2, <2>4 DEF CommitInvalid
  <2>5. CASE Classify
    BY <1>2, <2>5 DEF Classify, IsStatus
  <2>6. CASE NextCall
    BY <1>2, <2>6 DEF NextCall, Begin
  <2>7. CASE UNCHANGED vars
    BY <1>2, <2>7 DEF vars, IsStatus
  <2> QED BY <1>2, <2>1, <2>2, <2>3, <2>4, <2>5, <2>6, <2>7 DEF Next
<1>3. ClassificationInv /\ [Next]_vars => ClassificationInv'
  BY <1>2
<1> QED BY <1>1, <1>3, PTL DEF Spec

\* A classified status error, by its parts.
LEMMA StatusParts ==
  ASSUME ClassificationInv, stage = "classified", err.type = "status"
  PROVE  \E code, cause, msg :
           /\ err = StatusErr(code, cause, msg, details)
           /\ TextsOf(err) = TextsIn(msg, details)
<1>1. err # SDKErr(configError) /\ \A vc : err # CommitErr(Tx, vc)
  BY DEF SDKErr, CommitErr
<1>2. PICK code, cause, msg : IsStatus(code, cause, msg)
  BY <1>1 DEF ClassificationInv, ErrInv
<1>3. StatusErr(code, cause, msg, details).msg = msg /\ StatusErr(code, cause, msg, details).details = details
  BY DEF StatusErr
<1> QED BY <1>2, <1>3 DEF IsStatus, TextsOf, TextsIn

LEMMA BothAnswers ==
  ASSUME ClassificationInv, stage = "classified"
  PROVE  /\ got.lenient = classify(err, Tx, ph, FALSE) /\ got.strict = classify(err, Tx, ph, TRUE)
         /\ \A e \in Answers : \E strict \in BOOLEAN : e = classify(err, Tx, ph, strict)
<1>1. got.lenient = classify(err, Tx, ph, FALSE) /\ got.strict = classify(err, Tx, ph, TRUE)
  <2> DEFINE a == classify(err, Tx, ph, FALSE)
             b == classify(err, Tx, ph, TRUE)
  <2>1. got = [lenient |-> a, strict |-> b]
    BY Zenon DEF ClassificationInv, GotInv
  <2> HIDE DEF a, b
  <2>2. got.lenient = a /\ got.strict = b
    BY <2>1
  <2> QED BY <2>2, Zenon DEF a, b
<1>2. ASSUME NEW e \in Answers PROVE \E strict \in BOOLEAN : e = classify(err, Tx, ph, strict)
  <2>1. CASE e = got.lenient
    <3> WITNESS FALSE \in BOOLEAN
    <3> QED BY <1>1, <2>1
  <2>2. CASE e = got.strict
    <3> WITNESS TRUE \in BOOLEAN
    <3> QED BY <1>1, <2>2
  <2> QED BY <2>1, <2>2 DEF Answers
<1> QED BY <1>1, <1>2

-----------------------------------------------------------------------------
(***************************************************************************)
(* Theorems.                                                               *)
(***************************************************************************)

\* For any number of peers, texts and orders of the answers: if a text of the error
\* carries a ccerr code, the Kind is that of such a code and the Source is the
\* chaincode, with StrictErrorCodes and without (chaincodeError, ccerr.Parse).
THEOREM CodePrefixDecides == Spec => []CodePrefixWins
<1>1. ASSUME ClassificationInv PROVE CodePrefixWins
  <2> DEFINE coded == {m \in TextsOf(err) : ~m.wrapped /\ m.head \in KnownCodes}
  <2> SUFFICES ASSUME FromEndorser, coded # {}, NEW e \in Answers
               PROVE  e.Source = "chaincode" /\ e.Kind \in {ccKind[m.head] : m \in coded}
    BY DEF CodePrefixWins
  <2>1. PICK code, cause, msg : /\ err = StatusErr(code, cause, msg, details)
                                /\ TextsOf(err) = TextsIn(msg, details)
    BY <1>1, StatusParts DEF FromEndorser
  <2>2. PICK strict \in BOOLEAN : e = classify(err, Tx, ph, strict)
    BY <1>1, BothAnswers DEF FromEndorser
  <2> DEFINE sc == statusCode(err)
             kind == chaincodeKind(sc, msg, details, strict)
  <2>3. sc \in MayBeChaincode /\ ph \in {"evaluate", "endorse"} /\ details \in Seq(Texts)
    BY <1>1 DEF FromEndorser, MayBeChaincode, ClassificationInv
  <2>4. \A m \in TextsOf(err) : m \in coded <=> ParseOK(m)
    BY DEF ParseOK
  <2> HIDE DEF sc, coded
  <2>5. \E m \in TextsIn(msg, details) : ParseOK(m)
    BY <2>1, <2>4 DEF coded
  <2>6. PICK m \in TextsIn(msg, details) : ParseOK(m) /\ kind = ccKind[m.head]
    BY <2>3, <2>5, CodedDecides
  <2>7. kind # "nil"
    BY <2>6 DEF ParseOK, ccKind, KnownCodes
  <2> HIDE DEF kind
  <2>8. e = [newError(kind, "chaincode") EXCEPT !.TxID = Tx]
    BY <2>1, <2>2, <2>3, <2>7, ClassifyStatus DEF sc, kind
  <2>9. e.Source = "chaincode" /\ e.Kind = kind
    BY <2>8, NewErrorFields
  <2>10. m \in coded
    BY <2>1, <2>4, <2>6
  <2> QED BY <2>6, <2>9, <2>10
<1>2. ClassificationInv => CodePrefixWins
  BY <1>1
<1> QED BY <1>2, ClassificationInvariant, PTL

\* StrictErrorCodes changes an answer only where that was a guess from keywords in
\* a text that is not the peer's, and leaves the unspecific Kind in its place.
THEOREM StrictForgetsGuesses == Spec => []StrictOnlyForgets
<1>1. ASSUME ClassificationInv PROVE StrictOnlyForgets
  <2> SUFFICES ASSUME stage = "classified", got.strict # got.lenient
               PROVE  /\ FromEndorser
                      /\ \E m \in TextsOf(err) : got.lenient.Kind \in m.words /\ ~m.peerSide
                      /\ got.strict.Kind \in {"chaincode", "endorsement"}
    BY DEF StrictOnlyForgets
  <2>1. got.lenient = classify(err, Tx, ph, FALSE) /\ got.strict = classify(err, Tx, ph, TRUE)
    BY <1>1, BothAnswers
  <2>2. err.type = "status"
    <3>1. ASSUME err.type \in {"sdk", "commit"} PROVE FALSE
      BY <2>1, <3>1 DEF classify
    <3>2. SDKErr(configError).type = "sdk" /\ \A vc : CommitErr(Tx, vc).type = "commit"
      BY DEF SDKErr, CommitErr
    <3>3. \A code, cause, msg : StatusErr(code, cause, msg, details).type = "status"
      BY DEF StatusErr
    <3> QED BY <1>1, <3>1, <3>2, <3>3 DEF ClassificationInv, ErrInv, IsStatus
  <2>3. PICK code, cause, msg : /\ err = StatusErr(code, cause, msg, details)
                                /\ TextsOf(err) = TextsIn(msg, details)
    BY <1>1, <2>2, StatusParts
  <2> DEFINE sc == statusCode(err)
             lk == chaincodeKind(sc, msg, details, FALSE)
             sk == chaincodeKind(sc, msg, details, TRUE)
  <2>made. /\ ph \in {"evaluate", "endorse"} /\ lk # "nil" =>
                got.lenient = [newError(lk, "chaincode") EXCEPT !.TxID = Tx]
           /\ ph \notin {"evaluate", "endorse"} \/ lk = "nil" =>
                got.lenient = [networkError(sc, ph) EXCEPT !.TxID = Tx]
           /\ ph \in {"evaluate", "endorse"} /\ sk # "nil" =>
                got.strict = [newError(sk, "chaincode") EXCEPT !.TxID = Tx]
           /\ ph \notin {"evaluate", "endorse"} \/ sk = "nil" =>
                got.strict = [networkError(sc, ph) EXCEPT !.TxID = Tx]
    <3>1. ASSUME NEW strict
          PROVE  /\ ph \in {"evaluate", "endorse"} /\ chaincodeKind(sc, msg, details, strict) # "nil" =>
                      classify(err, Tx, ph, strict) =
                        [newError(chaincodeKind(sc, msg, details, strict), "chaincode") EXCEPT !.TxID = Tx]
                 /\ ph \notin {"evaluate", "endorse"} \/ chaincodeKind(sc, msg, details, strict) = "nil" =>
                      classify(err, Tx, ph, strict) = [networkError(sc, ph) EXCEPT !.TxID = Tx]
      BY <2>3, ClassifyStatus
    <3> HIDE DEF sc
    <3>2. /\ ph \in {"evaluate", "endorse"} /\ lk # "nil" =>
               classify(err, Tx, ph, FALSE) = [newError(lk, "chaincode") EXCEPT !.TxID = Tx]
          /\ ph \notin {"evaluate", "endorse"} \/ lk = "nil" =>
               classify(err, Tx, ph, FALSE) = [networkError(sc, ph) EXCEPT !.TxID = Tx]
      BY <3>1, Zenon
    <3>3. /\ ph \in {"evaluate", "endorse"} /\ sk # "nil" =>
               classify(err, Tx, ph, TRUE) = [newError(sk, "chaincode") EXCEPT !.TxID = Tx]
          /\ ph \notin {"evaluate", "endorse"} \/ sk = "nil" =>
               classify(err, Tx, ph, TRUE) = [networkError(sc, ph) EXCEPT !.TxID = Tx]
      BY <3>1, Zenon
    <3> HIDE DEF lk, sk
    <3> QED BY <2>1, <3>2, <3>3
  <2>4. lk # sk /\ ph \in {"evaluate", "endorse"}
    <3> HIDE DEF sc, lk, sk
    <3> QED BY <2>made
  <2>5. sc \in MayBeChaincode
    BY <2>4 DEF chaincodeKind, MayBeChaincode
  <2>6. details \in Seq(Texts)
    BY <1>1 DEF ClassificationInv
  <2> HIDE DEF sc
  <2>7. \A m \in TextsIn(msg, details) : ~ParseOK(m)
    <3> SUFFICES ASSUME \E m \in TextsIn(msg, details) : ParseOK(m) PROVE FALSE
      OBVIOUS
    <3> QED BY <2>4, <2>5, <2>6, SameWhenCoded
  <2>8. /\ Guess(lk, TextsIn(msg, details)) /\ sk \in {"chaincode", "nil"}
    BY <2>4, <2>5, <2>6, <2>7, UncodedGuess
  <2>9. PICK m \in TextsOf(err) : lk = legacyKind(m) /\ lk # "nil"
    BY <2>3, <2>8 DEF Guess
  <2> HIDE DEF lk, sk
  <2>10. got.lenient = [newError(lk, "chaincode") EXCEPT !.TxID = Tx]
    BY <2>made, <2>4, <2>9
  <2>11. got.lenient.Kind \in m.words /\ ~m.peerSide
    BY <2>9, <2>10, LegacyKind, NewErrorFields
  <2>12. got.strict.Kind \in {"chaincode", "endorsement"}
    <3>1. CASE sk = "chaincode"
      <4>1. got.strict = [newError("chaincode", "chaincode") EXCEPT !.TxID = Tx]
        BY <2>made, <2>4, <3>1
      <4> QED BY <4>1, NewErrorFields
    <3>2. CASE sk = "nil"
      <4>1. got.strict = [networkError(sc, ph) EXCEPT !.TxID = Tx]
        BY <2>made, <3>2
      <4>2. networkError(sc, ph) = newError("endorsement", "network")
        BY <2>4, <2>5, UnspecificKind
      <4> QED BY <4>1, <4>2, NewErrorFields
    <3> QED BY <2>8, <3>1, <3>2
  <2>13. FromEndorser
    BY <2>2, <2>4, <2>5 DEF FromEndorser, MayBeChaincode, sc
  <2> QED BY <2>11, <2>12, <2>13
<1>2. ClassificationInv => StrictOnlyForgets
  BY <1>1
<1> QED BY <1>2, ClassificationInvariant, PTL

\* Texts that peerSidePhrases knows for the peer's own, or that have no keyword, are
\* not reported as an error of the chaincode, however many there are
\* (chaincodeError, legacyKind).
THEOREM PeerTextIsNetwork == Spec => []PeerTextNotChaincode
<1>1. ASSUME ClassificationInv PROVE PeerTextNotChaincode
  <2> SUFFICES ASSUME FromEndorser, NEW e \in Answers,
                      \A m \in TextsOf(err) : m.head \notin KnownCodes /\ ~m.resp
                                              /\ (m.peerSide \/ m.words = {})
               PROVE  e.Source = "network" /\ e.Kind = "endorsement"
    BY DEF PeerTextNotChaincode
  <2>1. PICK code, cause, msg : /\ err = StatusErr(code, cause, msg, details)
                                /\ TextsOf(err) = TextsIn(msg, details)
    BY <1>1, StatusParts DEF FromEndorser
  <2>2. PICK strict \in BOOLEAN : e = classify(err, Tx, ph, strict)
    BY <1>1, BothAnswers DEF FromEndorser
  <2> DEFINE sc == statusCode(err)
             T == TextsIn(msg, details)
  <2>3. sc \in MayBeChaincode /\ ph \in {"evaluate", "endorse"} /\ details \in Seq(Texts)
    BY <1>1 DEF FromEndorser, MayBeChaincode, ClassificationInv
  <2>4. \A m \in T : ~ParseOK(m) /\ ~IsResponse(m) /\ legacyKind(m) = "nil"
    BY <2>1, LegacyKind DEF ParseOK, IsResponse
  <2> HIDE DEF sc, T
  <2>5. \A kind : ~Guess(kind, T)
    BY <2>4 DEF Guess
  <2>6. chaincodeKind(sc, msg, details, TRUE) = "nil" /\ chaincodeKind(sc, msg, details, FALSE) = "nil"
    BY <2>3, <2>4, <2>5, UncodedGuess DEF T
  <2>7. chaincodeKind(sc, msg, details, strict) = "nil"
    BY <2>6
  <2>8. e = [networkError(sc, ph) EXCEPT !.TxID = Tx]
    BY <2>1, <2>2, <2>7, ClassifyStatus DEF sc
  <2>9. networkError(sc, ph) = newError("endorsement", "network")
    BY <2>3, UnspecificKind
  <2> QED BY <2>8, <2>9, NewErrorFields
<1>2. ClassificationInv => PeerTextNotChaincode
  BY <1>1
<1> QED BY <1>2, ClassificationInvariant, PTL

=============================================================================
