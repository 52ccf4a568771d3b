----------------------------- MODULE ProbeProofs -----------------------------
(***************************************************************************)
(* Proofs about Probe for every set of keys and contents and any number of *)
(* operator's moves.                                                       *)
(***************************************************************************)
EXTENDS Probe, TLAPS

USE KeysAssumption, ContentsAssumption, MovesAssumption

Entries == [protected : Headers(Keys), signature : Seals]
-----------------------------------------------------------------------------
(***************************************************************************)
(* Cards.                                                                  *)
(***************************************************************************)
LEMMA CardTypes ==
    ASSUME NEW t \in Contents, NEW k \in Keys
    PROVE  /\ SignAgentCard(t, k) \in Cards
           /\ SignAgentCard(t, k).content = t
           /\ Len(SignAgentCard(t, k).signatures) = 1
           /\ Signer(SignAgentCard(t, k)) = k
<1> DEFINE h == [alg |-> "EdDSA", kid |-> k]
           e == [protected |-> h, signature |-> Seal(k, h, t)]
<1>1. h \in Headers(Keys) /\ Seal(k, h, t) \in Seals
  BY DEF Headers, Algorithms, Seal, Seals
<1>2. e \in Entries
  BY <1>1 DEF Entries
<1>3. <<e>> \in Seq(Entries) /\ Len(<<e>>) = 1 /\ <<e>>[1] = e
  BY <1>2
<1>4. SignAgentCard(t, k) = [content |-> t, signatures |-> <<e>>]
  BY DEF SignAgentCard
<1>5. e.signature.key = k
  BY DEF Seal
<1> QED BY <1>3, <1>4, <1>5 DEF Cards, Entries, Signer

(* A card as the operator signed it, or as it may be served instead: it    *)
(* carries at most the operator's seal, and another one only after a       *)
(* signature of another kind.                                              *)
Sealed(c) ==
    /\ c \in Cards
    /\ c.signatures # <<>> =>
         LET s == c.signatures[1]
         IN /\ \E t \in Contents, k \in Keys :
                 /\ s.signature = Seal(k, [alg |-> "EdDSA", kid |-> k], t)
                 /\ <<t, k>> \in issued
            /\ s.protected.alg = "EdDSA" => c.signatures = <<s>>

(***************************************************************************)
(* The invariant.  The card is genuine and signed with a published key;    *)
(* what was read is sealed by the operator, and genuine if the service is  *)
(* not at fault; after the check of the signature it was found so, or it   *)
(* has none; and a check has failed for every wrong answer, and only then. *)
(***************************************************************************)
ServiceInv ==
    /\ Genuine(card)
    /\ \E i \in 1 .. Len(published) : published[i] = Signer(card)

ReadInv ==
    pc = "signature" =>
        /\ Sealed(read)
        /\ blame \cap {"misserved", "rotation", "other key"} = {} =>
             /\ Genuine(read)
             /\ Signer(read) = IF publicKey = NoKey THEN published[1] ELSE publicKey

Examined ==
    \/ Genuine(read) /\ publicKey \in {NoKey, Signer(read)}
    \/ publicKey = NoKey /\ read.signatures = <<>>

OutcomeInv ==
    /\ outcome = "running" <=> pc # "ended"
    /\ pc \in {"negotiation", "report"} \/ outcome \in {"exit 0", "exit 1"} => Examined
    /\ outcome # "raised" =>
         /\ "no answer" \notin blame
         /\ Conformant(results) <=> blame \cap {"answer", "no ACN"} = {}
    /\ outcome = "exit 0" => Conformant(results)
    /\ outcome = "exit 1" => ~Conformant(results)
    /\ outcome = "raised" =>
         blame \cap {"no answer", "misserved", "rotation", "other key"} # {}

Inv == TypeOK /\ ServiceInv /\ ReadInv /\ OutcomeInv

LEMMA InvInit == Init => Inv
<1> SUFFICES ASSUME Init PROVE Inv
  OBVIOUS
<1>1. PICK k \in Keys, t \in Contents :
        published = <<k>> /\ card = SignAgentCard(t, k) /\ issued = {<<t, k>>}
  BY DEF Init
<1>2. /\ card \in Cards /\ card.signatures # <<>> /\ card.content = t /\ Signer(card) = k
  BY <1>1, CardTypes
<1>3. Genuine(card)
  BY <1>1, <1>2 DEF Genuine
<1>4. TypeOK
  BY <1>1, <1>2 DEF Init, TypeOK
<1>5. ServiceInv
  BY <1>1, <1>2, <1>3 DEF ServiceInv
<1>6. OutcomeInv
  BY DEF Init, OutcomeInv, Conformant
<1> QED BY <1>4, <1>5, <1>6 DEF Inv, Init, ReadInv
-----------------------------------------------------------------------------
(***************************************************************************)
(* The operator.                                                           *)
(***************************************************************************)
LEMMA MoveFacts ==
    ASSUME TypeOK, Move
    PROVE  /\ UNCHANGED <<publicKey, pc, read, results, outcome>>
           /\ moves' \in Nat
           /\ \/ blame' = blame \cup {"rotation"} /\ pc = "signature" /\ publicKey = NoKey
              \/ /\ blame' = blame
                 /\ pc = "signature" /\ publicKey = NoKey => published'[1] = published[1]
           /\ blame' \subseteq Faults
<1>1. blame \subseteq Faults /\ moves \in Nat
  BY DEF TypeOK
<1> DEFINE rotates == pc = "signature" /\ publicKey = NoKey /\ published'[1] # published[1]
<1>2. /\ UNCHANGED <<publicKey, pc, read, results, outcome>> /\ moves' = moves + 1
      /\ blame' = IF rotates THEN blame \cup {"rotation"} ELSE blame
  BY DEF Move
<1>3. {"rotation"} \subseteq Faults
  BY DEF Faults
<1>4. CASE rotates
  BY <1>1, <1>2, <1>3, <1>4
<1>5. CASE ~rotates
  BY <1>1, <1>2, <1>5
<1> QED BY <1>4, <1>5

LEMMA PublishedTypes ==
    ASSUME TypeOK
    PROVE  /\ 1 \in 1 .. Len(published)
           /\ \A i \in 1 .. Len(published) : published[i] \in Keys
<1>1. published \in Seq(Keys) /\ Len(published) \in {1, 2}
  BY DEF TypeOK
<1>2. CASE Len(published) = 1
  BY <1>1, <1>2
<1>3. CASE Len(published) = 2
  BY <1>1, <1>3, SMTT(40)
<1> QED BY <1>1, <1>2, <1>3

(* What the operator does with its keys and its card in order leaves the   *)
(* rest of the invariant to be shown once for all of its moves.            *)
LEMMA OperatorStep ==
    ASSUME Inv, Move, issued \subseteq issued', issued' \subseteq Contents \X Keys,
           published' \in Seq(Keys), Len(published') \in {1, 2},
           card' \in Cards, card'.signatures # <<>>, ServiceInv'
    PROVE  Inv'
<1>1. TypeOK'
  BY MoveFacts DEF Inv, TypeOK
<1>2. Genuine(read) => Genuine(read)'
  BY MoveFacts DEF Genuine, Inv
<1>3. Sealed(read) => Sealed(read)'
  BY MoveFacts DEF Sealed, Inv
<1>4. ReadInv'
  BY <1>2, <1>3, MoveFacts DEF Inv, ReadInv, Signer
<1>5. OutcomeInv'
  BY <1>2, MoveFacts DEF Inv, OutcomeInv, Examined, Signer
<1> QED BY <1>1, <1>4, <1>5 DEF Inv

LEMMA OperateStep == Inv /\ Operate => Inv'
<1> SUFFICES ASSUME Inv, Operate PROVE Inv'
  OBVIOUS
<1>1. ASSUME NEW k \in Keys, AddKey(k) PROVE Inv'
  <2>1. PICK p \in {<<published[1], k>>, <<k, published[1]>>} : published' = p
    BY <1>1 DEF AddKey
  <2>2. published[1] \in Keys /\ Len(published) = 1
    BY <1>1, PublishedTypes DEF AddKey, Inv
  <2>3. published' \in Seq(Keys) /\ Len(published') = 2
    <3>1. <<published[1], k>> \in Seq(Keys) /\ Len(<<published[1], k>>) = 2
      BY <2>2
    <3>2. <<k, published[1]>> \in Seq(Keys) /\ Len(<<k, published[1]>>) = 2
      BY <2>2
    <3> QED BY <2>1, <3>1, <3>2
  <2>4. UNCHANGED <<card, issued>> /\ Move
    BY <1>1 DEF AddKey
  <2>5. Signer(card) = published[1]
    BY <2>2 DEF Inv, ServiceInv
  <2>6. ServiceInv'
    BY <2>1, <2>2, <2>4, <2>5 DEF Inv, ServiceInv, Genuine, Signer
  <2> QED BY <2>3, <2>4, <2>6, OperatorStep DEF Inv, TypeOK
<1>2. ASSUME NEW t \in Contents, NEW i \in 1 .. Len(published), Renew(t, i) PROVE Inv'
  <2>1. /\ card' = SignAgentCard(t, published[i]) /\ issued' = issued \cup {<<t, published[i]>>}
        /\ published' = published /\ Move /\ published[i] \in Keys
    BY <1>2, PublishedTypes DEF Renew, Inv
  <2>2. /\ card' \in Cards /\ card'.signatures # <<>> /\ card'.content = t
        /\ Signer(card') = published[i]
    BY <2>1, CardTypes
  <2>3. ServiceInv'
    BY <2>1, <2>2 DEF ServiceInv, Genuine, Signer
  <2>4. issued' \subseteq Contents \X Keys /\ issued \subseteq issued'
    <3>1. <<t, published[i]>> \in Contents \X Keys
      BY <2>1
    <3>2. issued \subseteq Contents \X Keys
      BY DEF Inv, TypeOK
    <3> QED BY <2>1, <3>1, <3>2
  <2>5. published' \in Seq(Keys) /\ Len(published') \in {1, 2}
    BY <2>1 DEF Inv, TypeOK
  <2> QED BY <2>1, <2>2, <2>3, <2>4, <2>5, OperatorStep
<1>3. ASSUME NEW i \in 1 .. Len(published), Revoke(i) PROVE Inv'
  <2>1. /\ Len(published) = 2 /\ published[i] # Signer(card) /\ published' = <<published[3 - i]>>
        /\ UNCHANGED <<card, issued>> /\ Move
    BY <1>3 DEF Revoke
  <2>2. i \in {1, 2} /\ published[1] \in Keys /\ published[2] \in Keys
    BY <2>1, PublishedTypes DEF Inv
  <2>3. published[3 - i] = Signer(card)
    BY <2>1, <2>2 DEF Inv, ServiceInv
  <2>4. published' \in Seq(Keys) /\ Len(published') = 1
    BY <2>1, <2>2
  <2>5. ServiceInv'
    BY <2>1, <2>3, <2>4 DEF Inv, ServiceInv, Genuine, Signer
  <2> QED BY <2>1, <2>4, <2>5, OperatorStep DEF Inv, TypeOK
<1> QED BY <1>1, <1>2, <1>3 DEF Operate
-----------------------------------------------------------------------------
(***************************************************************************)
(* The probe.                                                              *)
(***************************************************************************)
(* The service is not changed by the probe.                                *)
LEMMA ServiceKept ==
    ASSUME Inv, UNCHANGED serviceVars
    PROVE  /\ ServiceInv'
           /\ (/\ published \in Seq(Keys) /\ Len(published) \in {1, 2}
               /\ card \in Cards /\ card.signatures # <<>>
               /\ issued \subseteq Contents \X Keys
               /\ moves \in Nat)'
<1>1. published' = published /\ card' = card /\ issued' = issued /\ moves' = moves
  BY DEF serviceVars
<1>2. ServiceInv'
  BY <1>1 DEF Inv, ServiceInv, Genuine, Signer
<1> QED BY <1>1, <1>2 DEF Inv, TypeOK

(* An exception ends the probe for one of the reasons, if there is one.    *)
LEMMA RaiseStep ==
    ASSUME Inv, UNCHANGED serviceVars, publicKey' = publicKey, read' \in Cards \cup {NotRead},
           NEW R \in SUBSET Faults, Raise(R),
           (blame \cup R) \cap {"no answer", "misserved", "rotation", "other key"} # {}
    PROVE  Inv'
<1>1. pc' = "ended" /\ outcome' = "raised" /\ blame' = blame \cup R /\ results' = results
  BY DEF Raise
<1>2. TypeOK'
  BY <1>1, ServiceKept DEF Inv, TypeOK
<1>3. ReadInv'
  BY <1>1 DEF ReadInv
<1>4. OutcomeInv'
  BY <1>1 DEF OutcomeInv
<1> QED BY <1>2, <1>3, <1>4, ServiceKept DEF Inv

LEMMA MoreChecks ==
    ASSUME NEW rs, NEW name, NEW passed \in BOOLEAN
    PROVE  Conformant(rs \cup {<<name, passed>>}) <=> Conformant(rs) /\ passed
<1>1. <<name, passed>>[2] = passed
  OBVIOUS
<1> QED BY <1>1 DEF Conformant

LEMMA AskStep ==
    ASSUME Inv, outcome = "running", NEW name, NEW next, Ask(name, next),
           \/ pc = "health" /\ next = "discovery"
           \/ pc = "discovery" /\ next = "card"
           \/ pc = "negotiation" /\ next = "report"
    PROVE  Inv'
<1>1. UNCHANGED serviceVars /\ publicKey' = publicKey /\ read' = read
  BY DEF Ask
<1>2. read \in Cards \cup {NotRead} /\ blame \subseteq Faults
  BY DEF Inv, TypeOK
<1>3. CASE Raise({"no answer"})
  <2>1. {"no answer"} \in SUBSET Faults
    BY DEF Faults
  <2> QED BY <1>1, <1>2, <1>3, <2>1, RaiseStep
<1>4. CASE ~Raise({"no answer"})
  <2>1. PICK passed \in BOOLEAN :
          /\ Check(name, passed) /\ pc' = next /\ outcome' = outcome
          /\ blame' = IF passed THEN blame ELSE blame \cup {"answer"}
    BY <1>4 DEF Ask
  <2>2. blame' \subseteq Faults /\ "no answer" \notin blame'
    BY <1>2, <2>1 DEF Faults, Inv, OutcomeInv
  <2>3. Conformant(results') <=> blame' \cap {"answer", "no ACN"} = {}
    <3>1. Conformant(results) <=> blame \cap {"answer", "no ACN"} = {}
      BY DEF Inv, OutcomeInv
    <3>2. results' = results \cup {<<name, passed>>}
      BY <2>1 DEF Check
    <3> QED BY <2>1, <3>1, <3>2, MoreChecks
  <2>4. TypeOK'
    BY <1>1, <2>1, <2>2, ServiceKept DEF Inv, TypeOK
  <2>5. ReadInv'
    BY <2>1 DEF ReadInv
  <2>6. pc' = "report" => Examined'
    <3>1. Examined => Examined'
      BY <1>1 DEF Examined, Genuine, Signer, serviceVars
    <3> QED BY <2>1, <3>1 DEF Inv, OutcomeInv
  <2>7. OutcomeInv'
    BY <2>1, <2>2, <2>3, <2>6 DEF OutcomeInv
  <2> QED BY <1>1, <2>4, <2>5, <2>7, ServiceKept DEF Inv
<1> QED BY <1>3, <1>4

LEMMA Running == ASSUME Inv, pc # "ended" PROVE outcome = "running"
BY DEF Inv, OutcomeInv

(* What is served is typed, and sealed as far as it is signed.             *)
LEMMA CardServed ==
    ASSUME Inv, NEW c \in {card} \cup Misserved(card)
    PROVE  Sealed(c)
<1>1. PICK k \in Keys : /\ card = SignAgentCard(card.content, k)
                        /\ <<card.content, k>> \in issued
  BY DEF Inv, ServiceInv, Genuine
<1>2. card.content \in Contents
  BY DEF Inv, TypeOK, Cards
<1> DEFINE t == card.content
           h == [alg |-> "EdDSA", kid |-> k]
           s == card.signatures[1]
           Of(p) == [protected |-> p, signature |-> Seal(k, h, t)]
<1>3. card = [content |-> t, signatures |-> <<Of(h)>>]
  BY <1>1 DEF SignAgentCard
<1>4. s = Of(h) /\ s.protected = h /\ card.signatures = <<Of(h)>>
  BY <1>3
<1>5. ASSUME NEW p \in Headers(Keys) PROVE Of(p) \in Entries
  BY <1>2, <1>5 DEF Entries, Headers, Algorithms, Seal, Seals
<1>6. h \in Headers(Keys)
  BY DEF Headers, Algorithms
<1>7. ASSUME NEW u \in Contents, NEW p \in Headers(Keys)
      PROVE  Sealed([content |-> u, signatures |-> <<Of(p)>>])
  <2>1. <<Of(p)>> \in Seq(Entries) /\ <<Of(p)>>[1] = Of(p)
    BY <1>5, <1>7
  <2>2. Of(p).signature = Seal(k, h, t)
    OBVIOUS
  <2> HIDE DEF Of
  <2> HIDE DEF h, t
  <2> QED BY <1>1, <1>2, <2>1, <2>2 DEF Sealed, Cards, Entries, h, t
<1>8. CASE c = card
  BY <1>2, <1>3, <1>6, <1>7, <1>8
<1>9. CASE \E u \in Contents : c = [card EXCEPT !.content = u]
  BY <1>3, <1>6, <1>7, <1>9
<1>10. CASE c = [card EXCEPT !.signatures = <<>>]
  <2>1. c = [content |-> t, signatures |-> <<>>]
    BY <1>3, <1>10
  <2> QED BY <1>2, <2>1 DEF Sealed, Cards
<1>11. CASE \E n \in Keys : c = [card EXCEPT !.signatures = <<[s EXCEPT !.protected.kid = n]>>]
  <2>1. PICK n \in Keys : c = [card EXCEPT !.signatures = <<[s EXCEPT !.protected.kid = n]>>]
    BY <1>11
  <2>2. [h EXCEPT !.kid = n] \in Headers(Keys)
    BY <1>6 DEF Headers
  <2>3. [s EXCEPT !.protected.kid = n] = Of([h EXCEPT !.kid = n])
    BY <1>4
  <2>4. c = [content |-> t, signatures |-> <<Of([h EXCEPT !.kid = n])>>]
    BY <1>3, <2>1, <2>3
  <2> QED BY <1>2, <1>7, <2>2, <2>4
<1>12. CASE \E a \in Algorithms : c = [card EXCEPT !.signatures = <<[s EXCEPT !.protected.alg = a]>>]
  <2>1. PICK a \in Algorithms : c = [card EXCEPT !.signatures = <<[s EXCEPT !.protected.alg = a]>>]
    BY <1>12
  <2>2. [h EXCEPT !.alg = a] \in Headers(Keys)
    BY <1>6 DEF Headers
  <2>3. [s EXCEPT !.protected.alg = a] = Of([h EXCEPT !.alg = a])
    BY <1>4
  <2>4. c = [content |-> t, signatures |-> <<Of([h EXCEPT !.alg = a])>>]
    BY <1>3, <2>1, <2>3
  <2> QED BY <1>2, <1>7, <2>2, <2>4
<1>13. CASE c = [card EXCEPT !.signatures = <<[s EXCEPT !.protected.alg = "other"], s>>]
  <2>1. [h EXCEPT !.alg = "other"] \in Headers(Keys)
    BY <1>6 DEF Headers, Algorithms
  <2> DEFINE o == Of([h EXCEPT !.alg = "other"])
  <2>2. [s EXCEPT !.protected.alg = "other"] = o
    BY <1>4
  <2>3. c = [content |-> t, signatures |-> <<o, s>>]
    BY <1>3, <1>13, <2>2
  <2>4. o \in Entries /\ s \in Entries
    BY <1>4, <1>5, <1>6, <2>1
  <2>5. <<o, s>> \in Seq(Entries) /\ <<o, s>>[1] = o
    BY <2>4
  <2>6. o.signature = Seal(k, h, t) /\ o.protected.alg = "other"
    OBVIOUS
  <2>7. c \in Cards
    BY <1>2, <2>3, <2>5 DEF Cards, Entries
  <2>8. c.signatures[1] = o
    BY <2>3, <2>5
  <2> QED BY <1>1, <1>2, <2>6, <2>7, <2>8 DEF Sealed
<1> QED BY <1>8, <1>9, <1>10, <1>11, <1>12, <1>13 DEF Misserved

LEMMA GetCardStep == Inv /\ GetCard => Inv'
<1> SUFFICES ASSUME Inv, GetCard PROVE Inv'
  OBVIOUS
<1>1. pc = "card" /\ UNCHANGED serviceVars /\ publicKey' = publicKey /\ outcome = "running"
  BY Running DEF GetCard
<1>2. read \in Cards \cup {NotRead} /\ blame \subseteq Faults
  BY DEF Inv, TypeOK
<1>3. CASE Raise({"no answer"}) /\ UNCHANGED read
  <2>1. {"no answer"} \in SUBSET Faults
    BY DEF Faults
  <2> QED BY <1>1, <1>2, <1>3, <2>1, RaiseStep
<1>4. CASE ~(Raise({"no answer"}) /\ UNCHANGED read)
  <2>1. PICK c \in {card} \cup Misserved(card) :
          /\ read' = c
          /\ Check("a2a-card", c.content \in AcnContents)
          /\ pc' = IF Checked(c) THEN "signature" ELSE "negotiation"
          /\ blame' = blame \cup Excuses(c) \cup (IF c = card THEN {} ELSE {"misserved"})
          /\ outcome' = outcome
    BY <1>4 DEF GetCard
  <2>2. Sealed(c)
    BY <2>1, CardServed
  <2>3. Excuses(c) \subseteq {"rotation", "other key", "no ACN"}
    BY DEF Excuses
  <2>4. /\ blame' \subseteq Faults
        /\ "no answer" \notin blame' /\ ("answer" \in blame' <=> "answer" \in blame)
        /\ "no ACN" \in blame' <=> "no ACN" \in blame \/ "no ACN" \in Excuses(c)
    <3>1. "no answer" \notin blame
      BY <1>1 DEF Inv, OutcomeInv
    <3> QED BY <1>2, <2>1, <2>3, <3>1 DEF Faults
  <2>5. "no ACN" \in Excuses(c) <=> c.content \notin AcnContents
    BY DEF Excuses
  <2>6. Conformant(results') <=> blame' \cap {"answer", "no ACN"} = {}
    <3>1. Conformant(results) <=> blame \cap {"answer", "no ACN"} = {}
      BY <1>1 DEF Inv, OutcomeInv
    <3>2. results' = results \cup {<<"a2a-card", c.content \in AcnContents>>}
      BY <2>1 DEF Check
    <3>3. Conformant(results') <=> Conformant(results) /\ c.content \in AcnContents
      <4> DEFINE passed == c.content \in AcnContents
      <4>1. passed \in BOOLEAN /\ results' = results \cup {<<"a2a-card", passed>>}
        BY <3>2
      <4> HIDE DEF passed
      <4>2. Conformant(results') <=> Conformant(results) /\ passed
        BY <4>1, MoreChecks
      <4> QED BY <4>2 DEF passed
    <3> QED BY <2>4, <2>5, <3>1, <3>3
  <2>7. issued' = issued /\ published' = published /\ card' = card
    BY <1>1 DEF serviceVars
  <2>8. TypeOK'
    BY <1>1, <2>1, <2>2, <2>4, ServiceKept DEF Inv, TypeOK, Sealed
  <2>9. ReadInv'
    <3>1. Sealed(read)'
      BY <2>1, <2>2, <2>7 DEF Sealed
    <3>2. ASSUME blame' \cap {"misserved", "rotation", "other key"} = {}
          PROVE  /\ Genuine(read)'
                 /\ Signer(read') = IF publicKey = NoKey THEN published[1] ELSE publicKey
      <4>1. c = card
        BY <2>1, <3>2
      <4>2. "rotation" \notin Excuses(c) /\ "other key" \notin Excuses(c)
        BY <2>1, <3>2
      <4>4. publicKey \in {NoKey, Signer(card)}
        BY <4>2 DEF Excuses
      <4>5. publicKey = NoKey => Signer(card) = published[1]
        BY <4>2 DEF Excuses, PublishedKey
      <4>6. Genuine(card)
        BY DEF Inv, ServiceInv
      <4>7. Genuine(read)'
        BY <2>1, <2>7, <4>1, <4>6 DEF Genuine
      <4> QED BY <2>1, <4>1, <4>4, <4>5, <4>7
    <3> QED BY <1>1, <2>7, <3>1, <3>2 DEF ReadInv, Signer
  <2>10. pc' = "negotiation" => Examined'
    BY <1>1, <2>1 DEF Checked, Examined
  <2>11. OutcomeInv'
    BY <1>1, <2>1, <2>4, <2>6, <2>10 DEF OutcomeInv
  <2> QED BY <1>1, <2>8, <2>9, <2>11, ServiceKept DEF Inv
<1> QED BY <1>3, <1>4

(* The key the signature is checked with, and the key id it must have.     *)
Tried == IF publicKey # NoKey THEN publicKey ELSE published[1]
Named == IF publicKey # NoKey THEN NoKey ELSE published[1]

LEMMA Sound ==
    ASSUME NEW c, Sealed(c), VerifyAgentCardSignature(c, Tried, Named) = "verified"
    PROVE  Genuine(c) /\ Signer(c) = Tried
<1> DEFINE s == c.signatures[1]
<1>1. c.signatures # <<>> /\ s.protected.alg = "EdDSA" /\ s.signature = Seal(Tried, s.protected, c.content)
  BY DEF VerifyAgentCardSignature, Verifies
<1>2. PICK t \in Contents, k \in Keys :
        s.signature = Seal(k, [alg |-> "EdDSA", kid |-> k], t) /\ <<t, k>> \in issued
  BY <1>1 DEF Sealed
<1>3. k = Tried /\ s.protected = [alg |-> "EdDSA", kid |-> k] /\ t = c.content
  BY <1>1, <1>2 DEF Seal
<1>4. c.signatures = <<s>> /\ c \in Cards
  BY <1>1 DEF Sealed
<1>5. s \in Entries
  <2>1. c.signatures \in Seq(Entries) /\ Len(c.signatures) = 1
    BY <1>4 DEF Cards, Entries
  <2> QED BY <2>1
<1>6. s = [protected |-> s.protected, signature |-> s.signature]
  BY <1>5 DEF Entries
<1>7. c = [content |-> c.content, signatures |-> c.signatures]
  BY <1>4 DEF Cards
<1>8. c = SignAgentCard(c.content, k)
  <2> HIDE DEF s
  <2>1. c = [content |-> c.content, signatures |-> <<s>>]
    BY <1>4, <1>7
  <2>2. s = [protected |-> [alg |-> "EdDSA", kid |-> k],
             signature |-> Seal(k, [alg |-> "EdDSA", kid |-> k], c.content)]
    BY <1>2, <1>3, <1>6
  <2>3. SignAgentCard(c.content, k) = [content |-> c.content, signatures |-> <<
          [protected |-> [alg |-> "EdDSA", kid |-> k],
           signature |-> Seal(k, [alg |-> "EdDSA", kid |-> k], c.content)]>>]
    BY DEF SignAgentCard
  <2> QED BY <2>1, <2>2, <2>3
<1>9. Genuine(c)
  BY <1>2, <1>3, <1>8 DEF Genuine
<1>10. Signer(c) = k
  BY <1>2 DEF Signer, Seal
<1> QED BY <1>3, <1>9, <1>10

LEMMA Complete ==
    ASSUME NEW c, c \in Cards, Genuine(c), Signer(c) = Tried
    PROVE  VerifyAgentCardSignature(c, Tried, Named) = "verified"
<1>1. PICK k \in Keys : c = SignAgentCard(c.content, k)
  BY DEF Genuine
<1> DEFINE h == [alg |-> "EdDSA", kid |-> k]
           e == [protected |-> h, signature |-> Seal(k, h, c.content)]
<1>2. c = [content |-> c.content, signatures |-> <<e>>]
  BY <1>1 DEF SignAgentCard
<1>3. c.signatures = <<e>>
  BY <1>2
<1>4. c.signatures # <<>> /\ c.signatures[1] = e
  BY <1>3
<1>5. e.protected = h /\ e.signature = Seal(k, h, c.content) /\ h.alg = "EdDSA" /\ h.kid = k
  OBVIOUS
<1>6. k = Tried
  BY <1>4, <1>5 DEF Signer, Seal
<1>7. Named \in {NoKey, k}
  BY <1>6 DEF Named, Tried
<1> HIDE DEF e, h
<1> QED BY <1>4, <1>5, <1>6, <1>7 DEF VerifyAgentCardSignature, Verifies, Expected

LEMMA CheckSignatureStep == Inv /\ CheckSignature => Inv'
<1> SUFFICES ASSUME Inv, CheckSignature PROVE Inv'
  OBVIOUS
<1>1. /\ pc = "signature" /\ UNCHANGED serviceVars /\ publicKey' = publicKey /\ read' = read
      /\ outcome = "running"
  BY Running DEF CheckSignature
<1>2. Sealed(read) /\ read \in Cards \cup {NotRead} /\ blame \subseteq Faults
  BY <1>1 DEF Inv, ReadInv, TypeOK
<1> DEFINE verified == VerifyAgentCardSignature(read, Tried, Named) = "verified"
<1>3. IF verified THEN /\ Check("a2a-card-signature", TRUE)
                       /\ pc' = "negotiation"
                       /\ UNCHANGED <<outcome, blame>>
                  ELSE Raise({})
  BY DEF CheckSignature, Tried, Named, PublishedKey
<1>4. CASE verified
  <2>1. results' = results \cup {<<"a2a-card-signature", TRUE>>}
    BY <1>3, <1>4 DEF Check
  <2>2. pc' = "negotiation" /\ outcome' = outcome /\ blame' = blame
    BY <1>3, <1>4
  <2>3. Genuine(read) /\ Signer(read) = Tried
    BY <1>2, <1>4, Sound
  <2>4. Examined'
    BY <1>1, <2>3 DEF Examined, Genuine, Signer, Tried, serviceVars
  <2>5. Conformant(results') <=> Conformant(results)
    BY <2>1, MoreChecks
  <2>6. OutcomeInv'
    BY <1>1, <2>2, <2>4, <2>5 DEF Inv, OutcomeInv
  <2>7. TypeOK'
    BY <1>1, <2>2, ServiceKept DEF Inv, TypeOK
  <2> QED BY <1>1, <2>2, <2>6, <2>7, ServiceKept DEF Inv, ReadInv
<1>5. CASE ~verified
  <2>1. blame \cap {"misserved", "rotation", "other key"} # {}
    <3> SUFFICES ASSUME blame \cap {"misserved", "rotation", "other key"} = {} PROVE verified
      BY <1>5
    <3>1. Genuine(read) /\ Signer(read) = Tried
      BY <1>1 DEF Inv, ReadInv, Tried
    <3> QED BY <1>2, <3>1, Complete DEF Sealed
  <2>2. (blame \cup {}) \cap {"no answer", "misserved", "rotation", "other key"} # {}
    BY <2>1
  <2> QED BY <1>1, <1>2, <1>3, <1>5, <2>2, RaiseStep
<1> QED BY <1>4, <1>5

LEMMA ReportStep == Inv /\ Report => Inv'
<1> SUFFICES ASSUME Inv, Report PROVE Inv'
  OBVIOUS
<1>1. /\ pc = "report" /\ pc' = "ended" /\ UNCHANGED serviceVars /\ outcome = "running"
      /\ publicKey' = publicKey /\ read' = read /\ results' = results /\ blame' = blame
      /\ outcome' = IF Conformant(results) THEN "exit 0" ELSE "exit 1"
  BY Running DEF Report
<1>2. Examined'
  BY <1>1 DEF Inv, OutcomeInv, Examined, Genuine, Signer, serviceVars
<1>3. OutcomeInv'
  BY <1>1, <1>2 DEF Inv, OutcomeInv
<1>4. TypeOK'
  BY <1>1, ServiceKept DEF Inv, TypeOK
<1> QED BY <1>1, <1>3, <1>4, ServiceKept DEF Inv, ReadInv

LEMMA InvStep == Inv /\ [Next]_vars => Inv'
<1> SUFFICES ASSUME Inv, [Next]_vars PROVE Inv'
  OBVIOUS
<1>1. CASE GetHealth
  BY <1>1, Running, AskStep DEF GetHealth
<1>2. CASE GetDiscovery
  BY <1>2, Running, AskStep DEF GetDiscovery
<1>3. CASE GetCard
  BY <1>3, GetCardStep
<1>4. CASE CheckSignature
  BY <1>4, CheckSignatureStep
<1>5. CASE KeysUnanswered
  <2>1. {"no answer"} \in SUBSET Faults
    BY DEF Faults
  <2> QED BY <1>5, <2>1, RaiseStep DEF KeysUnanswered, Inv, TypeOK
<1>6. CASE Negotiate
  BY <1>6, Running, AskStep DEF Negotiate
<1>7. CASE Report
  BY <1>7, ReportStep
<1>8. CASE Operate
  BY <1>8, OperateStep
<1>9. CASE UNCHANGED vars
  <2>1. /\ published' = published /\ card' = card /\ issued' = issued /\ moves' = moves
        /\ publicKey' = publicKey /\ pc' = pc /\ read' = read /\ results' = results
        /\ outcome' = outcome /\ blame' = blame
    BY <1>9 DEF vars, serviceVars, probeVars
  <2>2. TypeOK'
    BY <2>1 DEF Inv, TypeOK
  <2>3. ServiceInv'
    BY <2>1 DEF Inv, ServiceInv, Genuine, Signer
  <2>4. ReadInv'
    BY <2>1 DEF Inv, ReadInv, Sealed, Genuine, Signer
  <2>5. OutcomeInv'
    BY <2>1 DEF Inv, OutcomeInv, Examined, Genuine, Signer
  <2> QED BY <2>2, <2>3, <2>4, <2>5 DEF Inv
<1> QED BY <1>1, <1>2, <1>3, <1>4, <1>5, <1>6, <1>7, <1>8, <1>9 DEF Next

LEMMA Invariance == Spec => []Inv
BY InvInit, InvStep, PTL DEF Spec
-----------------------------------------------------------------------------
(* Type correctness, of the service and of what the probe keeps.           *)
THEOREM TypeCorrect == Spec => []TypeOK
<1>1. Inv => TypeOK
  BY DEF Inv
<1> QED BY <1>1, Invariance, PTL

(* Exit code 0 of the probe is deserved: every endpoint answered as it     *)
(* should, and the card that was read is the operator's own, signed with   *)
(* the given key if one was given, or bears no signature at all; however   *)
(* the keys are rotated and the card is renewed or spoiled meanwhile.      *)
THEOREM ConformantVerdicts == Spec => []ConformantIsTrue
<1>1. Inv => ConformantIsTrue
  BY DEF Inv, OutcomeInv, Examined, ConformantIsTrue
<1> QED BY <1>1, Invariance, PTL

(* The probe does not fail a service without a reason: it answered wrongly *)
(* or not at all, served its card otherwise than it was signed, or has no  *)
(* ACN; the probe was given another key; or another key than the card's    *)
(* was published first when the probe looked.                              *)
THEOREM FailuresHaveReasons == Spec => []FailureIsReal
<1>1. Inv => FailureIsReal
  BY DEF Inv, OutcomeInv, FailureIsReal
<1> QED BY <1>1, Invariance, PTL
=============================================================================
