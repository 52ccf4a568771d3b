-------------------------------- MODULE Probe --------------------------------
(***************************************************************************)
(* The live conformance probe, py/tools/live_conformance.py: one request   *)
(* after the other to a running service, whose operator (external) renews  *)
(* its Agent Card and rotates the key that signs it meanwhile, adding the  *)
(* new key before revoking the old one (security-profile.md:16).  The card *)
(* is fetched before the published keys.                                   *)
(***************************************************************************)
EXTENDS AgentCard, Naturals

CONSTANTS
    Keys,          \* key ids, of the keys they name
    Contents,      \* contents of Agent Cards
    AcnContents,   \* those whose first extension is ACN's
    MaxMoves       \* bound on what the operator does

ASSUME KeysAssumption == NoKey \notin Keys
ASSUME ContentsAssumption == AcnContents \subseteq Contents
ASSUME MovesAssumption == MaxMoves \in Nat

VARIABLES
    published,   \* the keys of the service's JWKS, in its order
    card,        \* the Agent Card it serves
    issued,      \* history: the <<content, key>> its operator has signed
    moves,       \* how often the operator did something
    publicKey,   \* the --public-key argument, or NoKey
    pc,          \* the request the probe makes next
    read,        \* the card it has read
    results,     \* its checks that were made, and whether each passed
    outcome,     \* "running", "exit 0", "exit 1" or "raised"
    blame        \* history: what a service without fault would not have shown
serviceVars == <<published, card, issued, moves>>
probeVars   == <<publicKey, pc, read, results, outcome, blame>>
vars        == <<serviceVars, probeVars>>
-----------------------------------------------------------------------------
NotRead   == [content |-> "none", signatures |-> <<>>]
Signer(c) == c.signatures[1].signature.key

Init ==
    /\ \E k \in Keys, t \in Contents :
        /\ published = <<k>>
        /\ card = SignAgentCard(t, k)
        /\ issued = {<<t, k>>}
    /\ moves = 0
    /\ publicKey \in Keys \cup {NoKey}
    /\ pc = "health"
    /\ read = NotRead
    /\ results = {}
    /\ outcome = "running"
    /\ blame = {}
-----------------------------------------------------------------------------
(* That another key becomes the first one between the two fetches is an    *)
(* excuse; nothing else that the operator does then is one.                *)
Move ==
    /\ moves < MaxMoves
    /\ moves' = moves + 1
    /\ blame' = IF pc = "signature" /\ publicKey = NoKey /\ published'[1] # published[1]
                THEN blame \cup {"rotation"} ELSE blame
    /\ UNCHANGED <<publicKey, pc, read, results, outcome>>

(* A new key is published, after or before the old one.                    *)
AddKey(k) ==
    /\ Len(published) = 1 /\ k # published[1]
    /\ published' \in {<<published[1], k>>, <<k, published[1]>>}
    /\ UNCHANGED <<card, issued>>
    /\ Move

(* The card, with what it says now, is signed with a published key.        *)
Renew(t, i) ==
    /\ card' = SignAgentCard(t, published[i])
    /\ issued' = issued \cup {<<t, published[i]>>}
    /\ UNCHANGED published
    /\ Move

(* A key is revoked once the card is signed with the other one.            *)
Revoke(i) ==
    /\ Len(published) = 2 /\ published[i] # Signer(card)
    /\ published' = <<published[3 - i]>>
    /\ UNCHANGED <<card, issued>>
    /\ Move

(* What arrives when the service, or what stands before it, is at fault:   *)
(* the content was edited after the signing, the signature was dropped, or *)
(* renamed, put after one of another kind, or written in another way.      *)
Misserved(c) ==
    LET s == c.signatures[1]
        With(signatures) == [c EXCEPT !.signatures = signatures]
    IN {[c EXCEPT !.content = t] : t \in Contents \ {c.content}}
       \cup {With(<<>>)}
       \cup {With(<<[s EXCEPT !.protected.kid = k]>>) : k \in Keys \ {s.protected.kid}}
       \cup {With(<<[s EXCEPT !.protected.alg = a]>>) : a \in Algorithms \ {"EdDSA"}}
       \cup {With(<<[s EXCEPT !.protected.alg = "other"], s>>)}
-----------------------------------------------------------------------------
Check(name, passed) == results' = results \cup {<<name, passed>>}

(* Any exception ends the probe before it prints.                          *)
Raise(reasons) ==
    /\ pc' = "ended"
    /\ outcome' = "raised"
    /\ blame' = blame \cup reasons
    /\ UNCHANGED results

(* An endpoint answers as it should, otherwise, or with an error that      *)
(* urlopen or the reading of the body raises.                              *)
Ask(name, next) ==
    /\ UNCHANGED <<serviceVars, publicKey, read>>
    /\ \/ /\ Check(name, TRUE)
          /\ pc' = next
          /\ UNCHANGED <<outcome, blame>>
       \/ /\ Check(name, FALSE)
          /\ pc' = next
          /\ blame' = blame \cup {"answer"}
          /\ UNCHANGED outcome
       \/ Raise({"no answer"})

GetHealth    == pc = "health" /\ Ask("health", "discovery")
GetDiscovery == pc = "discovery" /\ Ask("discovery", "card")

(* A signature is looked for if a key was given, or the card has one.      *)
Checked(c) == publicKey # NoKey \/ c.signatures # <<>>

(* jwks["keys"][0], whatever the kid of the signature.                     *)
PublishedKey == published[1]

(* Why card c fails although its operator signed it: another key than its  *)
(* own is published first, the probe was given another, or ACN's extension *)
(* is not the first.                                                       *)
Excuses(c) ==
    {r \in {"rotation", "other key", "no ACN"} :
        \/ r = "rotation" /\ publicKey = NoKey /\ PublishedKey # Signer(card)
        \/ r = "other key" /\ publicKey \notin {NoKey, Signer(card)}
        \/ r = "no ACN" /\ c.content \notin AcnContents}

GetCard ==
    /\ pc = "card"
    /\ UNCHANGED <<serviceVars, publicKey>>
    /\ \/ /\ \E c \in {card} \cup Misserved(card) :
              /\ read' = c
              /\ Check("a2a-card", c.content \in AcnContents)
              /\ pc' = IF Checked(c) THEN "signature" ELSE "negotiation"
              /\ blame' = blame \cup Excuses(c)
                    \cup (IF c = card THEN {} ELSE {"misserved"})
          /\ UNCHANGED outcome
       \/ Raise({"no answer"}) /\ UNCHANGED read

(* The signature is checked with the key that was given, or with the key   *)
(* that is published first when the keys are fetched, and its key id.      *)
CheckSignature ==
    /\ pc = "signature"
    /\ UNCHANGED <<serviceVars, publicKey, read>>
    /\ LET verdict == IF publicKey # NoKey
                      THEN VerifyAgentCardSignature(read, publicKey, NoKey)
                      ELSE VerifyAgentCardSignature(read, PublishedKey, PublishedKey)
       IN IF verdict = "verified"
          THEN /\ Check("a2a-card-signature", TRUE)
               /\ pc' = "negotiation"
               /\ UNCHANGED <<outcome, blame>>
          ELSE Raise({})

KeysUnanswered == /\ pc = "signature" /\ publicKey = NoKey
                  /\ Raise({"no answer"})
                  /\ UNCHANGED <<serviceVars, publicKey, read>>

(* A message of ACN version 9.0 must be refused with 426: an HTTPError is  *)
(* an answer here, and success is a wrong one.                             *)
Negotiate == pc = "negotiation" /\ Ask("version-negotiation", "report")

(* all(item["passed"] for item in results)                                *)
Conformant(rs) == \A r \in rs : r[2]

Report ==
    /\ pc = "report"
    /\ pc' = "ended"
    /\ outcome' = IF Conformant(results) THEN "exit 0" ELSE "exit 1"
    /\ UNCHANGED <<serviceVars, publicKey, read, results, blame>>

Operate ==
    \/ \E k \in Keys : AddKey(k)
    \/ \E t \in Contents, i \in 1 .. Len(published) : Renew(t, i)
    \/ \E i \in 1 .. Len(published) : Revoke(i)

Next ==
    \/ GetHealth \/ GetDiscovery \/ GetCard \/ CheckSignature \/ KeysUnanswered
    \/ Negotiate \/ Report
    \/ Operate

Spec == Init /\ [][Next]_vars
-----------------------------------------------------------------------------
Seals == [key : Keys, header : Headers(Keys), content : Contents]
Cards == [content : Contents,
          signatures : Seq([protected : Headers(Keys), signature : Seals])]
Faults == {"answer", "no answer", "misserved", "rotation", "other key", "no ACN"}

TypeOK ==
    /\ published \in Seq(Keys) /\ Len(published) \in {1, 2}
    /\ card \in Cards /\ card.signatures # <<>>
    /\ issued \subseteq Contents \X Keys
    /\ moves \in Nat
    /\ publicKey \in Keys \cup {NoKey}
    /\ pc \in {"health", "discovery", "card", "signature", "negotiation", "report", "ended"}
    /\ read \in Cards \cup {NotRead}
    /\ outcome \in {"running", "exit 0", "exit 1", "raised"}
    /\ blame \subseteq Faults

(* The signature of card c is the operator's, of what the card says.       *)
Genuine(c) == \E k \in Keys : c = SignAgentCard(c.content, k) /\ <<c.content, k>> \in issued

(* "conformant" is true: every endpoint answered as it should, the card is *)
(* ACN's and reads as its operator signed it, with the given key if one    *)
(* was given.  But without one, an unsigned card passes unexamined         *)
(* (live_conformance.py:44).                                               *)
ConformantIsTrue ==
    outcome = "exit 0" =>
        /\ blame \cap {"answer", "no answer", "no ACN"} = {}
        /\ \/ Genuine(read) /\ publicKey \in {NoKey, Signer(read)}
           \/ publicKey = NoKey /\ read.signatures = <<>>

(* A service is not blamed for nothing: "not conformant" is said of a      *)
(* wrong answer or a card without ACN, and the probe fails without a       *)
(* report only if an endpoint does not answer, or for the signature: it    *)
(* was tampered with, it is of another key than the given one, or another  *)
(* key than the card's is the first of those published.  Renewing the card *)
(* between the two fetches, or adding and revoking keys behind the first   *)
(* one, is never held against the service.                                 *)
FailureIsReal ==
    /\ outcome = "exit 1" => blame \cap {"answer", "no ACN"} # {}
    /\ outcome = "raised" =>
         blame \cap {"no answer", "misserved", "rotation", "other key"} # {}
=============================================================================
