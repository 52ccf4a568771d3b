------------------------------ MODULE Exchange ------------------------------
(***************************************************************************)
(* One signed envelope on its way: the sender fills in a document, signs   *)
(* the envelope, posts it by either binding and resends it, a network      *)
(* that may alter it, and a Python receiver that validates it and          *)
(* verifies its signature.  The document is a request for quote, whose     *)
(* specifications may be any object.                                       *)
(***************************************************************************)
EXTENDS A2A, Canonical

CONSTANTS
    JsonOf(_, _),    \* the value a Python peer parses from what a language writes
    Languages,       \* of the sender
    Members,         \* the <<key, value>> a sender of a language may set
    Alterations,     \* the <<key, value>> the network may set in the specifications
    Rewritings,      \* ... in the envelope
    Forgeries,       \* ... and in its signature
    MaxEdits, MaxAlterations, MaxAttempts    \* bounds

ASSUME LanguagesAssumption == Languages \subseteq {Python, TypeScript}
ASSUME BoundAssumption == MaxAlterations \in Nat

(* The network has no key: it can make no value that is a signature.  The  *)
(* document it only alters.                                                *)
ASSUME UnforgedAssumption ==
    /\ \A m \in Forgeries  : ~Is(m[2], "signature")
    /\ \A m \in Rewritings : m[1] = "signature" => m[2] = Absent
    /\ \A m \in Rewritings : m[1] # "document"

NotPosted == NoFields
Bindings  == {"native", "a2a"}

VARIABLES
    language,        \* of the sender
    specifications,  \* of the sender's document
    signature,       \* of the sender's envelope
    signed,          \* history: the envelope that was signed, as a Python peer parses it
    binding,         \* by which the envelope is posted
    body,            \* the envelope that the attempt sends, likewise
    letter,          \* ... as it arrives
    attempts, edits, alterations    \* how many there were
vars == <<language, specifications, signature, signed, binding, body, letter,
          attempts, edits, alterations>>
-----------------------------------------------------------------------------
Set(f, k, v) == IF v = Absent THEN Drop(f, {k}) ELSE Put(f, k, v)

(* build_envelope for a request for quote with one item.                   *)
Item(s) == [lineId |-> Text(5), description |-> Text(5), quantity |-> Amount(2, 0),
            unit |-> Text(5), specifications |-> Object(s)]
Rfq(s) == Object([currency |-> Code, deliveryLocation |-> Text(5), responseDeadline |-> Time(2),
                  items |-> List(<<Object(Item(s))>>)])
BuildEnvelope(s) ==
    [specVersion |-> Version, messageId |-> MessageRef, transactionId |-> Transaction,
     documentType |-> Word("request_for_quote"), sender |-> Agent("buyer"),
     recipient |-> Agent("seller"), createdAt |-> Time(1), expiresAt |-> Time(2),
     idempotencyKey |-> Text(20), document |-> Rfq(s)]
Specifications(e) ==
    Items(Fields(e["document"])["items"])[1].fields["specifications"].fields

(* The specifications that a sender of a language may come to, and what a  *)
(* Python peer parses from the envelope it makes of them.                  *)
Documents(l) ==
    LET keys   == {m[1] : m \in Members[l]}
        values == {m[2] : m \in Members[l]} \ {Absent}
    IN UNION {[K -> values] : K \in SUBSET keys}
JsonEnvelope(l, s) == JsonOf(l, Object(BuildEnvelope(s))).fields

(* What the network puts in the place of a member of the specifications.   *)
Altered(e, k, v) == Put(e, "document", Rfq(Set(Specifications(e), k, v)))

(* ... of a member of the signature, if it left one.                       *)
Forged(e, k, v) ==
    IF Has(e, "signature")
    THEN Put(e, "signature", Object(Set(Fields(e["signature"]), k, v))) ELSE e

Outgoing == Put(JsonEnvelope(language, specifications), "signature", signature)

Init ==
    /\ language \in Languages
    /\ specifications = NoFields
    /\ signature = Absent /\ signed = NotPosted
    /\ binding \in Bindings
    /\ body = NotPosted /\ letter = NotPosted
    /\ attempts = 0 /\ edits = 0 /\ alterations = 0

(* The sender sets a member, at any time, between attempts too.  The       *)
(* envelopes it made share the document.                                   *)
Edit(k, v) ==
    /\ edits < MaxEdits
    /\ <<k, v>> \in Members[language]
    /\ specifications' = Set(specifications, k, v)
    /\ edits' = edits + 1
    /\ UNCHANGED <<language, signature, signed, binding, body, letter, attempts, alterations>>

SignEnvelope ==
    /\ body = NotPosted
    /\ signature' = Signature(CanonicalEnvelope(language, BuildEnvelope(specifications)))
    /\ signed' = JsonEnvelope(language, specifications)
    /\ UNCHANGED <<language, specifications, binding, body, letter, attempts, edits, alterations>>

(* Python writes the body before the retry loop, TypeScript in it.         *)
Body == IF language = Python /\ body # NotPosted THEN body ELSE Outgoing

(* An attempt of submit or submit_a2a.                                     *)
Post ==
    /\ signature # Absent
    /\ attempts < MaxAttempts
    /\ body' = Body
    /\ letter' = Body
    /\ attempts' = attempts + 1
    /\ UNCHANGED <<language, specifications, signature, signed, binding, edits, alterations>>

Alter(changed) ==
    /\ letter # NotPosted
    /\ alterations < MaxAlterations
    /\ letter' = changed
    /\ alterations' = alterations + 1
    /\ UNCHANGED <<language, specifications, signature, signed, binding, body, attempts, edits>>

Next ==
    \/ \E m \in Members[language] : Edit(m[1], m[2])
    \/ SignEnvelope
    \/ Post
    \/ \E m \in Alterations : Alter(Altered(letter, m[1], m[2]))
    \/ \E m \in Rewritings : Alter(Set(letter, m[1], m[2]))
    \/ \E m \in Forgeries : Alter(Forged(letter, m[1], m[2]))

Spec == Init /\ [][Next]_vars
-----------------------------------------------------------------------------
(* What submit or submit_a2a of a language sends for an envelope, and the  *)
(* outcome.                                                                *)
Request(l, e) == SendMessage(IF l = Python THEN MediaType ELSE TypeScriptMediaType, Key("id"), e)
Receive(l, by, e) ==
    IF by = "native" THEN First(<<ValidateEnvelope(Object(e)), VerifySignature(e)>>)
    ELSE First(<<ParseA2AMessage(Request(l, e)),
                 VerifySignature(Fields(Data(Request(l, e))))>>)

Posted   == letter # NotPosted
Accepted == Posted /\ Receive(language, binding, letter) = Passed

(* parse_a2a_message refuses the media type of the TypeScript SDK.         *)
Mislabelled == language = TypeScript /\ binding = "a2a"

(* The receiver accepts nothing but what the sender signed, under the      *)
(* signature it made, whatever was edited before a retry or altered on the *)
(* way; only the key's name and the date are not covered.                  *)
Authentic ==
    Accepted =>
        LET Bare(s) == Drop(Fields(s), {"keyId", "createdAt"})
        IN /\ Drop(letter, {"signature"}) = signed
           /\ Bare(letter["signature"]) = Bare(signature)

(* An attempt that carries what was signed, and that the network leaves as *)
(* it is, is accepted, unless TypeScript posts it by A2A.                  *)
SignedVerifies ==
    Posted /\ letter = body /\ Drop(body, {"signature"}) = signed
        => Accepted \/ Mislabelled

(* What is posted is a request for quote, and Python reads in it the form  *)
(* that its sender signed.                                                 *)
FormsAgree ==
    \A l \in Languages : \A s \in Documents(l) :
        LET j == JsonEnvelope(l, s)
        IN /\ j = BuildEnvelope(Specifications(j))
           /\ CanonicalEnvelope(Python, j) = CanonicalEnvelope(l, BuildEnvelope(s))

(* Before anything is signed, of all that may be: Python reads the form    *)
(* that was signed, and an envelope of which a member is altered has       *)
(* another form.                                                           *)
FormsTell ==
    edits = 0 /\ signature = Absent =>
        /\ FormsAgree
        /\ \A l \in Languages : \A s \in Documents(l) :
              LET e       == JsonEnvelope(l, s)
                  written == {w \in Rewritings : w[1] # "signature"}
                  altered == {Altered(e, m[1], m[2]) : m \in Alterations}
                                \cup {Set(e, m[1], m[2]) : m \in written}
              IN \A f \in altered :
                    CanonicalEnvelope(Python, f) = CanonicalEnvelope(Python, e) => f = e

(* Unsigned envelopes of which no two have the same form for Python.       *)
Injective(S) ==
    \A e, f \in S : CanonicalEnvelope(Python, e) = CanonicalEnvelope(Python, f) => e = f

(* The envelopes in S[n] are all that may arrive with n alterations, but   *)
(* for their signatures.                                                   *)
Covers(S) ==
    /\ \A n \in 0 .. MaxAlterations, l \in Languages : \A s \in Documents(l) :
          JsonEnvelope(l, s) \in S[n]
    /\ \A n \in 0 .. MaxAlterations - 1 : \A e \in S[n] :
          /\ e \in S[n + 1]
          /\ \A m \in Alterations : Altered(e, m[1], m[2]) \in S[n + 1]
          /\ \A m \in Rewritings : m[1] # "signature" => Set(e, m[1], m[2]) \in S[n + 1]

(* What Python posts has one outcome, by whichever binding it comes; of    *)
(* what TypeScript posts, the native binding alone accepts any; and the    *)
(* same Submission is read from the answer of either.                      *)
Result(e) == [transaction_id |-> e["transactionId"], message_id |-> e["messageId"],
              status |-> Word("rfq_open"), duplicate |-> Bool(FALSE)]
BindingNeutral ==
    Posted =>
        /\ IF language = Python
           THEN Receive(language, "native", letter) = Receive(language, "a2a", letter)
           ELSE Receive(language, "a2a", letter) # Passed
        /\ ReadA2A(ResultMessage(Request(language, letter), Result(letter)))
              = ReadNative(Result(letter))
=============================================================================
