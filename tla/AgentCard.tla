------------------------------ MODULE AgentCard ------------------------------
(***************************************************************************)
(* Signed Agent Cards: sign_agent_card and verify_agent_card_signature of  *)
(* security.py.  A signature is ideal: it verifies with the key it was     *)
(* made with, over exactly the protected header and the canonical content  *)
(* it was made of, which differ when the contents do.  A key is named by   *)
(* its key id.                                                             *)
(***************************************************************************)
EXTENDS Sequences

NoKey == "none"

(* A protected header that can be read has the alg EdDSA and the typ JOSE, *)
(* or others.  It may also be no base64url of JSON, or JSON of something   *)
(* else than an object.                                                    *)
Algorithms == {"EdDSA", "other", "garbled", "no object"}

Headers(keys) == [alg : Algorithms, kid : keys]

(* The raw signature of key over the text "protected.payload".             *)
Seal(key, header, content) == [key |-> key, header |-> header, content |-> content]

(* Defect: the card that was passed is returned, not its signed copy.      *)
UnsignedAgentCard(content, key) == [content |-> content, signatures |-> <<>>]

SignAgentCard(content, key) ==
    LET header == [alg |-> "EdDSA", kid |-> key]
    IN [content |-> content,
        signatures |-> <<[protected |-> header, signature |-> Seal(key, header, content)]>>]

(* Defect: the header is checked, the payload is not.                      *)
VerifiesHeader(s, key, content) == s.signature.key = key /\ s.signature.header = s.protected

Verifies(s, key, content) == s.signature = Seal(key, s.protected, content)

(* Defect: the kid is compared even when no key id is expected.            *)
ExpectsAlways(s, kid) == s.protected.kid = kid

Expected(s, kid) == kid = NoKey \/ s.protected.kid = kid

(* The first signature is the one that is looked at, whatever its          *)
(* algorithm.  header.get fails on JSON that is no object.                 *)
VerifyAgentCardSignature(card, key, expectedKeyId) ==
    IF card.signatures = <<>> THEN "ContractError"
    ELSE LET s == card.signatures[1]
         IN IF s.protected.alg = "no object" THEN "AttributeError"
            ELSE IF /\ s.protected.alg = "EdDSA"
                    /\ Expected(s, expectedKeyId)
                    /\ Verifies(s, key, card.content)
            THEN "verified"
            ELSE "ContractError"
=============================================================================
