------------------------------ MODULE Security ------------------------------
(***************************************************************************)
(* acn_standard.security: the signature of an envelope and its             *)
(* verification, for any canonical form.  A form stands for the text that  *)
(* is signed: two forms are equal exactly when the texts are.              *)
(***************************************************************************)
EXTENDS Wire

CONSTANT FormOf(_, _)   \* the form in which a language writes a value

Python     == "python"
TypeScript == "typescript"

(* Defect: the signature is part of what is signed.                        *)
CanonicalWhole(language, e) == FormOf(language, Object(e))

(* canonical_envelope of an envelope with fields e.                        *)
CanonicalEnvelope(language, e) == FormOf(language, Object(Drop(e, {"signature"})))

Ed25519 == Key("Ed25519")
(* The base64url text of the 64 bytes that sign a form.                    *)
Signed(form) == [type |-> "string", form |-> "signature", len |-> 86, over |-> form]
(* What sign_envelope and signEnvelope put in the envelope.                *)
Signature(form) == Object([keyId |-> Key("key id"), algorithm |-> Ed25519,
                           createdAt |-> Time(1), value |-> Signed(form)])

-----------------------------------------------------------------------------
(* Defect: a signature may have members of any name.                       *)
ParseSignatureOpen(e) ==
    LET s == Fields(Get(e, "signature"))
    IN First(<<Require(Get(e, "signature").type = "object"),
               Require(Is(Get(s, "value"), "signature"))>>)

(* parse_signature.  A createdAt that is not a string has no replace.      *)
ParseSignature(e) ==
    LET s == Fields(Get(e, "signature"))
    IN First(<<
        Require(Get(e, "signature").type = "object"),
        Require(DOMAIN s = {"keyId", "algorithm", "createdAt", "value"}),
        Require(Get(s, "algorithm") = Ed25519),
        Require(Is(Get(s, "keyId"), "key id")),
        IF IsString(Get(s, "createdAt")) THEN Passed ELSE Crashed,
        Require(Is(Get(s, "createdAt"), "time") /\ Is(Get(s, "value"), "signature"))>>)

(* verify_envelope_signature, by a Python receiver, with the right key.    *)
VerifySignature(e) ==
    LET value == Get(Fields(Get(e, "signature")), "value")
    IN First(<<ParseSignature(e),
               Require(Is(value, "signature") /\ value.over = CanonicalEnvelope(Python, e))>>)
=============================================================================
