---------------------------- MODULE ExchangeProofs ----------------------------
(***************************************************************************)
(* A signed envelope on its way: which bindings accept what, that what was *)
(* signed verifies, and that nothing else does.                            *)
(***************************************************************************)
EXTENDS Exchange, CheckProofs

(* The signature that the sender of a language makes, and what it posts.   *)
SignatureOf(l, s) == Signature(CanonicalEnvelope(l, BuildEnvelope(s)))
Posting(l, s, z)  == Put(JsonEnvelope(l, s), "signature", SignatureOf(l, z))
-----------------------------------------------------------------------------
(* The A2A request of an envelope wraps it, and is parsed as it is.        *)
LEMMA Requests ==
  ASSUME NEW e, NEW id, NEW label
  PROVE  LET r == SendMessage(label, id, e)
         IN /\ Data(r) = Object(e) /\ Fields(Data(r)) = e
            /\ Part(r) = Object([mediaType |-> label, data |-> Object(e)])
            /\ Message(r) = [messageId |-> id, contextId |-> e["transactionId"], role |-> UserRole,
                 parts |-> List(<<Object([mediaType |-> label, data |-> Object(e)])>>),
                 extensions |-> List(<<Key("uri")>>)]
<1> DEFINE r == SendMessage(label, id, e)
           p == [mediaType |-> label, data |-> Object(e)]
           m == [messageId |-> id, contextId |-> e["transactionId"], role |-> UserRole,
                 parts |-> List(<<Object(p)>>), extensions |-> List(<<Key("uri")>>)]
<1>1. \A f : Fields(Object(f)) = f
  BY DEF Object, Fields
<1>2. \A s : Items(List(s)) = s
  BY DEF List, Items
<1>3. r = Object([message |-> Object(m)])
  BY DEF SendMessage
<1>4. Get(Fields(r), "message") = Object(m)
  BY <1>1, <1>3 DEF Get
<1>5. Message(r) = m
  BY <1>1, <1>4 DEF Message
<1>6. Items(Get(m, "parts")) = <<Object(p)>>
  BY <1>2 DEF Get
<1>7. Part(r) = Object(p)
  BY <1>5, <1>6 DEF Part
<1>8. Data(r) = Object(e)
  BY <1>1, <1>7 DEF Data, Get
<1> QED BY <1>1, <1>5, <1>7, <1>8

LEMMA ParsedRequest ==
  ASSUME NEW e, NEW label
  PROVE  LET out == ParseA2AMessage(SendMessage(label, Key("id"), e))
         IN /\ label = MediaType => out = ValidateEnvelope(Object(e))
            /\ label # MediaType => out # Passed
<1> DEFINE r == SendMessage(label, Key("id"), e)
           m == Message(r)
           p == Fields(Part(r))
           c1 == Require(r.type = "object" /\ DOMAIN Fields(r) \subseteq {"message", "metadata"})
           c2 == Require(Get(Fields(r), "message").type = "object")
           c3 == Known(m, {"messageId", "contextId", "role", "parts", "metadata", "extensions"})
           c4 == Require(Get(m, "role") = UserRole)
           c5 == Nonempty(m, "messageId", 128)
           c6 == Require(Len(Items(Get(m, "parts"))) = 1)
           c7 == Require(Part(r).type = "object" /\ DOMAIN p \subseteq {"data", "mediaType", "metadata"})
           c8 == Require(Get(p, "mediaType") = MediaType /\ Data(r).type = "object")
           c9 == ValidateEnvelope(Data(r))
           c10 == Require(Get(m, "contextId") \in {Absent, Null, Get(Fields(Data(r)), "transactionId")})
           s == <<c1, c2, c3, c4, c5, c6, c7, c8, c9, c10>>
<1>1. ParseA2AMessage(r) = First(s)
  BY DEF ParseA2AMessage
<1> USE DEF Require
<1>2. \A f : Object(f).type = "object" /\ Fields(Object(f)) = f
  BY DEF Object, Fields
<1>3. c1 = Passed /\ c2 = Passed
  BY <1>2 DEF SendMessage, Get
<1>4. m = [messageId |-> Key("id"), contextId |-> e["transactionId"], role |-> UserRole,
           parts |-> List(<<Object([mediaType |-> label, data |-> Object(e)])>>),
           extensions |-> List(<<Key("uri")>>)]
  BY Requests
<1>5. c3 = Passed /\ c4 = Passed
  BY <1>4 DEF Known, Get
<1>6. c5 = Passed
  BY <1>4 DEF Nonempty, Get, Length, Key, String, IsString
<1>7. c6 = Passed
  BY <1>4 DEF Get, Items, List
<1>8. Part(r) = Object([mediaType |-> label, data |-> Object(e)]) /\ Data(r) = Object(e)
  BY Requests
<1>9. c7 = Passed /\ (c8 = Passed <=> label = MediaType)
  BY <1>2, <1>8 DEF Get, Passed, Refused
<1>10. c9 = ValidateEnvelope(Object(e))
  BY <1>8
<1>11. c9 = Passed => c10 = Passed
  <2>1. c9 = Passed => Is(Get(e, "transactionId"), "transaction")
    BY <1>10, EnvelopeChecks
  <2>2. Is(Get(e, "transactionId"), "transaction") => Get(e, "transactionId") = e["transactionId"]
    BY DEF Get, Is, IsString, Absent
  <2>3. Get(m, "contextId") = e["transactionId"] /\ Fields(Data(r)) = e
    BY <1>2, <1>4, <1>8 DEF Get
  <2> QED BY <2>1, <2>2, <2>3
<1> HIDE DEF c1, c2, c3, c4, c5, c6, c7, c8, c9, c10
<1>12. /\ DOMAIN s = 1 .. 10 /\ s[9] = c9 /\ s[8] = c8
       /\ s[1] = c1 /\ s[2] = c2 /\ s[3] = c3 /\ s[4] = c4
       /\ s[5] = c5 /\ s[6] = c6 /\ s[7] = c7
  OBVIOUS
<1>13. CASE label # MediaType
  BY <1>1, <1>9, <1>13, First10
<1>14. CASE label = MediaType /\ c9 = Passed
  BY <1>1, <1>3, <1>5, <1>6, <1>7, <1>9, <1>10, <1>11, <1>14, First10
<1>15. CASE label = MediaType /\ c9 # Passed
  <2> HIDE DEF s
  <2>1. \A j \in 1 .. 9 - 1 : s[j] = Passed
    BY <1>3, <1>5, <1>6, <1>7, <1>9, <1>12, <1>15
  <2>2. 10 \in Nat /\ 9 \in 1 .. 10 /\ s[9] # Passed
    BY <1>12, <1>15
  <2>3. First(s) = s[9]
    BY <1>12, <2>1, <2>2, FirstAt
  <2> QED BY <1>1, <1>10, <1>12, <1>15, <2>3
<1> QED BY <1>13, <1>14, <1>15

LEMMA Labels == TypeScriptMediaType # MediaType
BY DEF TypeScriptMediaType, MediaType, Key, String

(* What is not refused for its label is validated, then verified.          *)
LEMMA OneOutcome ==
  ASSUME NEW l, NEW by, NEW e, l = Python \/ by = "native"
  PROVE  Receive(l, by, e) = First(<<ValidateEnvelope(Object(e)), VerifySignature(e)>>)
BY ParsedRequest, Requests DEF Receive, Request

LEMMA Refusals ==
  ASSUME NEW l, NEW e, l # Python
  PROVE  Receive(l, "a2a", e) # Passed
BY ParsedRequest, Labels, First2 DEF Receive, Request

LEMMA AcceptedVerifies ==
  ASSUME NEW l, NEW by, NEW e, Receive(l, by, e) = Passed
  PROVE  VerifySignature(e) = Passed
<1>1. Fields(Data(Request(l, e))) = e
  BY Requests DEF Request
<1>2. \/ First(<<ValidateEnvelope(Object(e)), VerifySignature(e)>>) = Passed
      \/ First(<<ParseA2AMessage(Request(l, e)), VerifySignature(e)>>) = Passed
  BY <1>1 DEF Receive
<1> QED BY <1>2, First2

(* What Python posts fares alike by both bindings, what TypeScript posts by *)
(* A2A is refused, and the same Submission is read from either's answer.   *)
THEOREM BindingsAgree == Spec => []BindingNeutral
<1>1. BindingNeutral
  <2> DEFINE request == Request(language, letter)
  <2> SUFFICES /\ IF language = Python
                  THEN Receive(language, "native", letter) = Receive(language, "a2a", letter)
                  ELSE Receive(language, "a2a", letter) # Passed
               /\ ReadA2A(ResultMessage(request, Result(letter))) = ReadNative(Result(letter))
    BY DEF BindingNeutral
  <2>1. IF language = Python
        THEN Receive(language, "native", letter) = Receive(language, "a2a", letter)
        ELSE Receive(language, "a2a", letter) # Passed
    BY OneOutcome, Refusals
  <2> DEFINE x == Result(letter)
             d == [transactionId |-> x.transaction_id, messageId |-> x.message_id,
                   status |-> x.status, duplicate |-> x.duplicate]
             r == ResultMessage(request, x)
  <2>2. Fields(Data(r)) = d
    <3>1. \A f : Fields(Object(f)) = f
      BY DEF Object, Fields
    <3>2. \A s : Items(List(s)) = s
      BY DEF List, Items
    <3> DEFINE p == Object([mediaType |-> Key("application/vnd.acn.result+json"), data |-> Object(d)])
               n == Object([inReplyTo |-> Message(request)["messageId"]])
               g == [messageId |-> Key("acn-result"), contextId |-> x.transaction_id,
                     role |-> Key("ROLE_AGENT"), parts |-> List(<<p>>), metadata |-> n,
                     extensions |-> List(<<Key("uri")>>)]
    <3>3. r = Object([message |-> Object(g)])
      BY DEF ResultMessage
    <3> HIDE DEF r, n, x
    <3>4. Message(r) = g
      BY <3>1, <3>3 DEF Message, Get
    <3>5. Items(Get(Message(r), "parts")) = <<p>>
      BY <3>2, <3>4 DEF Get
    <3>6. Part(r) = p
      BY <3>5 DEF Part
    <3>7. Data(r) = Object(d)
      BY <3>1, <3>6 DEF Data, Get
    <3> QED BY <3>1, <3>7
  <2>3. ReadA2A(r) = ReadNative(x)
    <3> HIDE DEF r, x
    <3> QED BY <2>2 DEF ReadA2A, ReadNative
  <2> QED BY <2>1, <2>3
<1> QED BY <1>1, PTL
-----------------------------------------------------------------------------
(* An attempt posts something.                                             *)
LEMMA OutgoingPosted == Outgoing # NotPosted
<1>1. "signature" \in DOMAIN Outgoing
  BY DEF Outgoing, Put
<1>2. DOMAIN NotPosted = {}
  BY DEF NotPosted, NoFields
<1> QED BY <1>1, <1>2

Unsigned(e) == Drop(e, {"signature"})

(* A request as it was built has a document and no signature.              *)
LEMMA Unposted ==
  ASSUME NEW s, NEW x
  PROVE  /\ Unsigned(BuildEnvelope(s)) = BuildEnvelope(s)
         /\ Unsigned(Put(BuildEnvelope(s), "signature", x)) = BuildEnvelope(s)
         /\ "document" \in DOMAIN Put(BuildEnvelope(s), "signature", x)
BY DEF Unsigned, Drop, Put, BuildEnvelope

(* The invariant of what is signed and posted.                             *)
Value(e) == Get(Fields(Get(e, "signature")), "value")
SignedState ==
    /\ language \in Languages /\ binding \in Bindings
    /\ specifications \in Documents(language)
    /\ \/ signature = Absent
       \/ \E z \in Documents(language) :
             signature = SignatureOf(language, z) /\ signed = JsonEnvelope(language, z)
    /\ body # NotPosted =>
         /\ signature # Absent
         /\ \E s \in Documents(language) :
               body = Put(JsonEnvelope(language, s), "signature", signature)
    /\ letter # NotPosted => body # NotPosted

LEMMA DocumentsEdited ==
  ASSUME NEW l, NEW s \in Documents(l), NEW k, NEW v, <<k, v>> \in Members[l]
  PROVE  Set(s, k, v) \in Documents(l)
<1> DEFINE keys   == {m[1] : m \in Members[l]}
           values == {m[2] : m \in Members[l]} \ {Absent}
<1>1. PICK K \in SUBSET keys : s \in [K -> values]
  BY DEF Documents
<1>2. k \in keys /\ (v # Absent => v \in values)
  OBVIOUS
<1> HIDE DEF keys, values
<1>3. v = Absent => Set(s, k, v) \in [K \ {k} -> values]
  BY <1>1 DEF Set, Drop
<1>4. v # Absent => Set(s, k, v) \in [K \cup {k} -> values]
  BY <1>1, <1>2 DEF Set, Put
<1>5. K \ {k} \in SUBSET keys /\ K \cup {k} \in SUBSET keys
  BY <1>1, <1>2
<1> QED BY <1>3, <1>4, <1>5 DEF Documents, keys, values

LEMMA SignedInit == Init => SignedState
<1> SUFFICES ASSUME Init PROVE SignedState
  OBVIOUS
<1>1. NoFields \in Documents(language)
  <2> DEFINE values == {m[2] : m \in Members[language]} \ {Absent}
  <2>1. NoFields \in [{} -> values]
    BY DEF NoFields
  <2> QED BY <2>1 DEF Documents
<1> QED BY <1>1 DEF Init, SignedState

LEMMA SignedStep ==
  ASSUME SignedState, [Next]_vars
  PROVE  SignedState'
<1> USE DEF SignedState
<1>1. ASSUME NEW k, NEW v, Edit(k, v) PROVE SignedState'
  BY <1>1, DocumentsEdited DEF Edit
<1>2. CASE SignEnvelope
  <2>1. signature' = SignatureOf(language, specifications)
        /\ signed' = JsonEnvelope(language, specifications)
    BY <1>2 DEF SignEnvelope, SignatureOf
  <2> QED BY <1>2, <2>1 DEF SignEnvelope
<1>3. CASE Post
  <2>1. Outgoing = Put(JsonEnvelope(language, specifications), "signature", signature)
    BY DEF Outgoing
  <2>2. \E s \in Documents(language) :
           Body = Put(JsonEnvelope(language, s), "signature", signature)
    BY <2>1 DEF Body
  <2>3. Body # NotPosted
    BY OutgoingPosted DEF Body
  <2> QED BY <1>3, <2>2, <2>3 DEF Post
<1>4. ASSUME NEW e, Alter(e) PROVE SignedState'
  BY <1>4 DEF Alter
<1>5. CASE UNCHANGED vars
  BY <1>5 DEF vars
<1> QED BY <1>1, <1>2, <1>3, <1>4, <1>5 DEF Next

LEMMA SignaturesParse ==
  ASSUME NEW e, NEW form, Get(e, "signature") = Signature(form)
  PROVE  ParseSignature(e) = Passed /\ Value(e) = Signed(form)
<1> DEFINE s == [keyId |-> Key("key id"), algorithm |-> Ed25519,
                 createdAt |-> Time(1), value |-> Signed(form)]
<1>1. Get(e, "signature").type = "object" /\ Fields(Get(e, "signature")) = s
  <2>1. Get(e, "signature") = Object(s)
    BY DEF Signature
  <2>2. \A f : Object(f).type = "object" /\ Fields(Object(f)) = f
    BY DEF Object, Fields
  <2> QED BY <2>1, <2>2
<1>2. /\ DOMAIN s = {"keyId", "algorithm", "createdAt", "value"}
      /\ Get(s, "algorithm") = Ed25519 /\ Get(s, "keyId") = Key("key id")
      /\ Get(s, "createdAt") = Time(1) /\ Get(s, "value") = Signed(form)
  BY DEF Get
<1> HIDE DEF s
<1>3. /\ Is(Key("key id"), "key id") /\ Is(Signed(form), "signature")
      /\ IsString(Time(1)) /\ Is(Time(1), "time")
  BY DEF Is, IsString, Key, String, Signed, Time, TimeAs
<1> QED BY <1>1, <1>2, <1>3, First6 DEF ParseSignature, Require, Value

LEMMA Verified ==
  ASSUME NEW e
  PROVE  VerifySignature(e) = Passed <=>
            /\ ParseSignature(e) = Passed
            /\ Is(Value(e), "signature") /\ Value(e).over = CanonicalEnvelope(Python, e)
BY First2 DEF VerifySignature, Value, Require, Passed, Refused

(* What build_envelope makes of a request for quote is valid.              *)
LEMMA RfqValid ==
  ASSUME NEW t, NEW s
  PROVE  ValidateEnvelope(Object(Put(BuildEnvelope(t), "signature", s))) = Passed
<1> DEFINE e == Put(BuildEnvelope(t), "signature", s)
<1>1. /\ DOMAIN e \subseteq EnvelopeFields
      /\ "extensions" \notin DOMAIN e /\ "inReplyTo" \notin DOMAIN e
      /\ Get(e, "specVersion") = Version /\ Get(e, "messageId") = MessageRef
      /\ Get(e, "transactionId") = Transaction /\ Get(e, "documentType") = Word("request_for_quote")
      /\ e["documentType"] = Word("request_for_quote")
      /\ Get(e, "sender") = Agent("buyer") /\ Get(e, "recipient") = Agent("seller")
      /\ Get(e, "createdAt") = Time(1) /\ Get(e, "expiresAt") = Time(2)
      /\ Get(e, "idempotencyKey") = Text(20) /\ Get(e, "document") = Rfq(t)
  BY DEF BuildEnvelope, Put, Get, EnvelopeFields
<1> HIDE DEF e
<1>2. ValidateRfq(Fields(Rfq(t)), 1) = Passed
  <2> DEFINE items == List(<<Object(Item(t))>>)
             d == [currency |-> Code, deliveryLocation |-> Text(5), responseDeadline |-> Time(2),
                   items |-> items]
  <2>1. Fields(Rfq(t)) = d
    BY DEF Rfq, Object, Fields
  <2>2. /\ DOMAIN d = {"currency", "deliveryLocation", "responseDeadline", "items"}
        /\ Get(d, "currency") = Code /\ Get(d, "responseDeadline") = Time(2) /\ Get(d, "items") = items
    BY DEF Get
  <2>3. items.type = "array" /\ Items(items) = <<Object(Item(t))>>
    BY DEF List, Items
  <2> HIDE DEF d, items
  <2>4. Len(Items(Get(d, "items"))) = 1 /\ Items(Get(d, "items"))[1] = Object(Item(t))
    BY <2>2, <2>3
  <2>5. /\ Len(Lines(d, "items")) = 1 /\ DOMAIN Lines(d, "items") = 1 .. 1
        /\ Lines(d, "items")[1] = Item(t)
    BY <2>4 DEF Lines, Object, Fields
  <2>6. RfqItem(d, 1) = Passed
    <3>1. /\ DOMAIN Item(t) = {"lineId", "description", "quantity", "unit", "specifications"}
          /\ Get(Item(t), "lineId") = Text(5) /\ Get(Item(t), "description") = Text(5)
          /\ Get(Item(t), "quantity") = Amount(2, 0) /\ Get(Item(t), "unit") = Text(5)
      BY DEF Item, Get
    <3>2. IsLine(d, "items", 1) = Passed
      BY <2>4 DEF IsLine, Object, Require
    <3>3. Known(Item(t), {"lineId", "sku", "description", "quantity", "unit", "specifications"}) = Passed
      BY <3>1 DEF Known, Require
    <3>4. Truthy(Text(5)) /\ Truthy(Amount(2, 0))
      BY DEF Truthy, Text, String, Amount, Absent, Null, Bool, List, Object
    <3>5. Given(Item(t), {"lineId", "description", "quantity", "unit"}) = Passed
      BY <3>1, <3>4 DEF Given, Require
    <3>6. UniqueRef(Lines(d, "items"), 1, "lineId") = Passed
      BY <2>5, <3>1 DEF UniqueRef, Hashable, Text, String, Require
    <3>7. Positive(Item(t), "quantity", 6) = Passed
      BY <3>1 DEF Positive, IsAmount, Is, IsString, Amount, Require
    <3> QED BY <2>5, <3>2, <3>3, <3>5, <3>6, <3>7, First5 DEF RfqItem
  <2> DEFINE rows == [i \in 1 .. Len(Lines(d, "items")) |-> RfqItem(d, i)]
  <2>7. First(rows) = Passed
    <3>1. DOMAIN rows = 1 .. 1 /\ \A i \in 1 .. 1 : rows[i] = Passed
      BY <2>5, <2>6
    <3> HIDE DEF rows
    <3> QED BY <3>1, FirstPassed
  <2>8. ExactFields(d, {"currency", "deliveryLocation", "responseDeadline", "items"}, {}) = Passed
    BY <2>2 DEF ExactFields, Require
  <2>9. Match(Get(d, "currency"), "currency") = Passed
    BY <2>2 DEF Match, Code, String, IsString, Require
  <2>10. After(d, "responseDeadline", 1) = Passed
    BY <2>2 DEF After, Time, TimeAs, Is, IsString, Require
  <2>11. LineList(d, "items") = Passed
    <3>1. 1 \in 1 .. MaxLines
      BY MaxLinesAssumption
    <3>2. Get(d, "items").type = "array"
      BY <2>2, <2>3
    <3> QED BY <2>4, <3>1, <3>2 DEF LineList, Require
  <2>12. ValidateRfq(d, 1) = First(<<
            ExactFields(d, {"currency", "deliveryLocation", "responseDeadline", "items"}, {}),
            Match(Get(d, "currency"), "currency"), After(d, "responseDeadline", 1),
            LineList(d, "items"), First(rows)>>)
    BY DEF ValidateRfq, Each
  <2> HIDE DEF rows
  <2> QED BY <2>1, <2>7, <2>8, <2>9, <2>10, <2>11, <2>12, First5
<1>3. Validator("request_for_quote", Fields(Rfq(t)), 1) = Passed
  BY <1>2, Zenon DEF Validator
<1>4. Dispatch(e, 1) = Passed
  <2>1. e["documentType"].word = "request_for_quote" /\ Get(e, "inReplyTo") = Absent
    BY <1>1 DEF Word, Get
  <2> QED BY <1>1, <1>3, <2>1, DispatchPassed
<1>5. Time(1).at = 1 /\ Is(Time(1), "time") /\ Is(Time(2), "time") /\ Time(2).at = 2
  BY DEF Time, TimeAs, Is, IsString
<1>6. /\ Known(e, EnvelopeFields) = Passed /\ Reference(e, "messageId") = Passed
      /\ Nonempty(e, "idempotencyKey", 255) = Passed /\ After(e, "expiresAt", 1) = Passed
  BY <1>1, <1>5 DEF Known, Reference, Nonempty, After, Require, Length, Is, IsString, MessageRef, Text, String
<1>7. /\ Is(Transaction, "transaction") /\ Is(Agent("buyer"), "agent") /\ Is(Agent("seller"), "agent")
      /\ Agent("buyer") # Agent("seller")
      /\ Is(Word("request_for_quote"), "word") /\ Word("request_for_quote").word = "request_for_quote"
  BY DEF Is, IsString, Transaction, String, Agent, Word
<1>8. Rfq(t).type = "object"
  BY DEF Rfq, Object
<1>9. /\ Object(NoFields).type = "object" /\ Fields(Object(NoFields)) = NoFields
      /\ "unnamespaced" \notin DOMAIN NoFields
      /\ NetworkExtension(Get(NoFields, "acn.network"), Word("request_for_quote")) = Passed
  BY DEF Object, Fields, NoFields, NetworkExtension, Get
<1>10. Has(e, "extensions") = FALSE
  BY <1>1 DEF Has
<1> QED BY <1>1, <1>4, <1>5, <1>6, <1>7, <1>8, <1>9, <1>10, EnvelopeChecks DEF e

(* An attempt that carries what was signed is accepted, but for those of   *)
(* the TypeScript SDK by A2A.                                              *)
THEOREM SignedIsAccepted ==
  ASSUME FormsAgree
  PROVE  Spec => []SignedVerifies
<1>1. SignedState => SignedVerifies
  <2> SUFFICES ASSUME SignedState, Posted, letter = body,
                      Drop(body, {"signature"}) = signed, ~Mislabelled
               PROVE  Receive(language, binding, letter) = Passed
    BY DEF SignedVerifies, Accepted
  <2> DEFINE l == language
  <2>1. PICK s \in Documents(l) : body = Put(JsonEnvelope(l, s), "signature", signature)
    BY DEF SignedState, Posted
  <2>2. PICK z \in Documents(l) :
           signature = SignatureOf(l, z) /\ signed = JsonEnvelope(l, z)
    BY DEF SignedState, Posted
  <2>3. l \in Languages
    BY DEF SignedState
  <2>4. PICK t : JsonEnvelope(l, s) = BuildEnvelope(t)
    BY <2>3 DEF FormsAgree
  <2>5. JsonEnvelope(l, s) = JsonEnvelope(l, z)
    BY <2>1, <2>2, <2>4, Unposted DEF Unsigned
  <2>6. Drop(body, {"signature"}) = JsonEnvelope(l, z)
    BY <2>2
  <2>7. body = Posting(l, z, z)
    BY <2>1, <2>2, <2>5 DEF Posting
  <2>8. ValidateEnvelope(Object(body)) = Passed
    BY <2>1, <2>4, RfqValid
  <2>9. VerifySignature(body) = Passed
    <3>1. Get(body, "signature") = SignatureOf(l, z)
      BY <2>7 DEF Posting, Put, Get
    <3>2. ParseSignature(body) = Passed /\ Value(body) = Signed(CanonicalEnvelope(l, BuildEnvelope(z)))
      BY <3>1, SignaturesParse DEF SignatureOf
    <3>3. CanonicalEnvelope(Python, body) = CanonicalEnvelope(l, BuildEnvelope(z))
      <4>1. CanonicalEnvelope(Python, JsonEnvelope(l, z)) = CanonicalEnvelope(l, BuildEnvelope(z))
        BY <2>3 DEF FormsAgree
      <4>2. Drop(JsonEnvelope(l, z), {"signature"}) = JsonEnvelope(l, z)
        BY <2>4, <2>5, Unposted DEF Unsigned
      <4> QED BY <2>6, <4>1, <4>2 DEF CanonicalEnvelope
    <3>4. \A form : Is(Signed(form), "signature") /\ Signed(form).over = form
      BY DEF Is, IsString, Signed
    <3> QED BY <3>2, <3>3, <3>4, Verified
  <2>10. language = Python \/ binding = "native"
    BY LanguagesAssumption DEF SignedState, Bindings, Mislabelled
  <2>11. Receive(l, binding, body) = First(<<ValidateEnvelope(Object(body)), VerifySignature(body)>>)
    BY <2>10, OneOutcome
  <2> QED BY <2>8, <2>9, <2>11, First2
<1> QED BY <1>1, SignedInit, SignedStep, PTL DEF Spec
-----------------------------------------------------------------------------
(* What arrives is covered, and bears no signature but the sender's.       *)
Arrives(S) ==
    /\ alterations \in 0 .. MaxAlterations
    /\ letter # NotPosted =>
         /\ "document" \in DOMAIN letter /\ Unsigned(letter) \in S[alterations]
         /\ Is(Value(letter), "signature") => Value(letter) = Value(body)

(* An alteration of the content leaves the signature, and the other way.   *)
LEMMA Unaltered ==
  ASSUME NEW e, "document" \in DOMAIN e, NEW k, NEW v
  PROVE  /\ Value(Altered(e, k, v)) = Value(e)
         /\ Unsigned(Altered(e, k, v)) = Altered(Unsigned(e), k, v)
         /\ k # "signature" => /\ Value(Set(e, k, v)) = Value(e)
                               /\ Unsigned(Set(e, k, v)) = Set(Unsigned(e), k, v)
         /\ Unsigned(Set(e, "signature", v)) = Unsigned(e)
         /\ Unsigned(Forged(e, k, v)) = Unsigned(e)
<1>1. Value(Altered(e, k, v)) = Value(e)
  BY DEF Altered, Put, Value, Get
<1>2. Unsigned(Altered(e, k, v)) = Altered(Unsigned(e), k, v)
  <2>1. \A f, x : Drop(Put(f, "document", x), {"signature"}) = Put(Drop(f, {"signature"}), "document", x)
    BY DEF Drop, Put
  <2>2. Specifications(Unsigned(e)) = Specifications(e)
    BY DEF Specifications, Unsigned, Drop
  <2> QED BY <2>1, <2>2 DEF Altered, Unsigned
<1>3. ASSUME k # "signature"
      PROVE  Value(Set(e, k, v)) = Value(e) /\ Unsigned(Set(e, k, v)) = Set(Unsigned(e), k, v)
  <2>1. CASE v = Absent
    <3>1. Set(e, k, v) = Drop(e, {k})
      BY <2>1 DEF Set
    <3>2. Value(Drop(e, {k})) = Value(e)
      BY <1>3 DEF Drop, Value, Get
    <3>3. Drop(Drop(e, {k}), {"signature"}) = Drop(Drop(e, {"signature"}), {k})
      BY DEF Drop
    <3>4. Set(Unsigned(e), k, v) = Drop(Unsigned(e), {k})
      BY <2>1 DEF Set
    <3> QED BY <3>1, <3>2, <3>3, <3>4 DEF Unsigned
  <2>2. CASE v # Absent
    <3>1. Set(e, k, v) = Put(e, k, v)
      BY <2>2 DEF Set
    <3>2. Value(Put(e, k, v)) = Value(e)
      BY <1>3 DEF Put, Value, Get
    <3>3. Drop(Put(e, k, v), {"signature"}) = Put(Drop(e, {"signature"}), k, v)
      BY <1>3 DEF Drop, Put
    <3>4. Set(Unsigned(e), k, v) = Put(Unsigned(e), k, v)
      BY <2>2 DEF Set
    <3> QED BY <3>1, <3>2, <3>3, <3>4 DEF Unsigned
  <2> QED BY <2>1, <2>2
<1>4. Unsigned(Set(e, "signature", v)) = Unsigned(e)
  BY DEF Set, Drop, Put, Unsigned
<1>5. Unsigned(Forged(e, k, v)) = Unsigned(e)
  BY DEF Forged, Put, Drop, Unsigned
<1> QED BY <1>1, <1>2, <1>3, <1>4, <1>5

LEMMA ArrivesStep ==
  ASSUME NEW S, Covers(S), FormsAgree, SignedState, Arrives(S), [Next]_vars
  PROVE  Arrives(S)'
<1>1. ASSUME NEW k, NEW v, Edit(k, v) PROVE Arrives(S)'
  BY <1>1 DEF Edit, Arrives
<1>2. CASE SignEnvelope
  <2>1. letter = NotPosted
    BY <1>2 DEF SignEnvelope, SignedState
  <2> QED BY <1>2, <2>1 DEF SignEnvelope, Arrives
<1>3. CASE Post
  <2>1. SignedState'
    BY SignedStep
  <2>2. body' # NotPosted /\ letter' = body'
    BY <1>3, OutgoingPosted DEF Post, Body
  <2>3. PICK s \in Documents(language') :
           body' = Put(JsonEnvelope(language', s), "signature", signature')
    BY <2>1, <2>2 DEF SignedState
  <2>4. language' \in Languages
    BY <2>1 DEF SignedState
  <2>5. JsonEnvelope(language', s) = BuildEnvelope(Specifications(JsonEnvelope(language', s)))
    BY <2>4 DEF FormsAgree
  <2>6. "document" \in DOMAIN body' /\ Unsigned(body') = JsonEnvelope(language', s)
    BY <2>3, <2>5, Unposted
  <2>7. Unsigned(body') \in S[alterations]
    BY <2>4, <2>6 DEF Covers, Arrives
  <2> QED BY <1>3, <2>2, <2>6, <2>7 DEF Post, Arrives
<1>4. ASSUME NEW e, Alter(e), "document" \in DOMAIN letter => "document" \in DOMAIN e,
             Unsigned(letter) \in S[alterations] => Unsigned(e) \in S[alterations + 1],
             Is(Value(e), "signature") => Value(e) = Value(letter)
      PROVE  Arrives(S)'
  BY <1>4, BoundAssumption DEF Alter, Arrives
<1>5. ASSUME NEW e, Alter(e)
      PROVE  /\ "document" \in DOMAIN letter
             /\ Unsigned(letter) \in S[alterations + 1]
             /\ \A m \in Alterations : Altered(Unsigned(letter), m[1], m[2]) \in S[alterations + 1]
             /\ \A m \in Rewritings :
                   m[1] # "signature" => Set(Unsigned(letter), m[1], m[2]) \in S[alterations + 1]
  <2>1. "document" \in DOMAIN letter /\ Unsigned(letter) \in S[alterations]
    BY <1>5 DEF Alter, Arrives
  <2>2. alterations \in 0 .. MaxAlterations - 1
    BY <1>5, BoundAssumption DEF Alter, Arrives
  <2> QED BY <2>1, <2>2 DEF Covers
<1>6. ASSUME NEW m \in Alterations, Alter(Altered(letter, m[1], m[2])) PROVE Arrives(S)'
  <2> DEFINE e == Altered(letter, m[1], m[2])
  <2>1. Value(e) = Value(letter) /\ Unsigned(e) \in S[alterations + 1]
    BY <1>5, <1>6, Unaltered
  <2>2. "document" \in DOMAIN e
    BY DEF Altered, Put
  <2> HIDE DEF e
  <2> QED BY <1>4, <1>6, <2>1, <2>2 DEF e
<1>7. ASSUME NEW m \in Rewritings, Alter(Set(letter, m[1], m[2])) PROVE Arrives(S)'
  <2> DEFINE e == Set(letter, m[1], m[2])
  <2>1. Unsigned(e) \in S[alterations + 1]
    BY <1>5, <1>7, Unaltered
  <2>2. "document" \in DOMAIN e
    <3>1. "document" \in DOMAIN letter /\ m[1] # "document"
      BY <1>5, <1>7, UnforgedAssumption
    <3> QED BY <3>1 DEF Set, Drop, Put
  <2>3. Is(Value(e), "signature") => Value(e) = Value(letter)
    <3>1. CASE m[1] = "signature"
      <4>1. Get(e, "signature") = Absent
        BY <3>1, UnforgedAssumption DEF Set, Drop, Get
      <4> QED BY <4>1 DEF Value, Fields, Absent, NoFields, Get, Is, IsString
    <3>2. CASE m[1] # "signature"
      BY <1>5, <1>7, <3>2, Unaltered
    <3> QED BY <3>1, <3>2
  <2> HIDE DEF e
  <2> QED BY <1>4, <1>7, <2>1, <2>2, <2>3 DEF e
<1>8. ASSUME NEW m \in Forgeries, Alter(Forged(letter, m[1], m[2])) PROVE Arrives(S)'
  <2> DEFINE e == Forged(letter, m[1], m[2])
             f == Fields(letter["signature"])
  <2>1. Unsigned(e) \in S[alterations + 1]
    BY <1>5, <1>8, Unaltered
  <2>2. "document" \in DOMAIN letter => "document" \in DOMAIN e
    BY DEF Forged, Put
  <2>3. Is(Value(e), "signature") => Value(e) = Value(letter)
    <3>1. CASE "signature" \notin DOMAIN letter
      BY <3>1 DEF Forged, Has
    <3>2. CASE "signature" \in DOMAIN letter
      <4>1. Get(letter, "signature") = letter["signature"]
            /\ Get(e, "signature") = Object(Set(f, m[1], m[2]))
        BY <3>2 DEF Forged, Has, Put, Get
      <4>2. Value(letter) = Get(f, "value") /\ Value(e) = Get(Set(f, m[1], m[2]), "value")
        BY <4>1 DEF Value, Object, Fields
      <4>3. Get(Set(f, m[1], m[2]), "value") \in {Get(f, "value"), m[2], Absent}
        BY DEF Set, Drop, Put, Get
      <4>4. ~Is(Absent, "signature") /\ ~Is(m[2], "signature")
        BY UnforgedAssumption DEF Is, IsString, Absent
      <4> QED BY <4>2, <4>3, <4>4
    <3> QED BY <3>1, <3>2
  <2> HIDE DEF e
  <2> QED BY <1>4, <1>8, <2>1, <2>2, <2>3 DEF e
<1>9. CASE UNCHANGED vars
  BY <1>9 DEF vars, Arrives
<1> QED BY <1>1, <1>2, <1>3, <1>6, <1>7, <1>8, <1>9 DEF Next

(* Nothing is accepted but what the sender signed, under the signature it  *)
(* made; only the name of the key and the date are not covered.            *)
THEOREM NothingElseIsAccepted ==
  ASSUME NEW S, Covers(S), Injective(UNION {S[n] : n \in 0 .. MaxAlterations}), FormsAgree
  PROVE  Spec => []Authentic
<1>1. Init => Arrives(S)
  BY BoundAssumption DEF Init, Arrives
<1>2. SignedState /\ Arrives(S) /\ [Next]_vars => Arrives(S)'
  BY ArrivesStep
<1>3. SignedState /\ Arrives(S) => Authentic
  <2> SUFFICES ASSUME SignedState, Arrives(S), Posted,
                      Receive(language, binding, letter) = Passed
               PROVE  /\ Drop(letter, {"signature"}) = signed
                      /\ Drop(Fields(letter["signature"]), {"keyId", "createdAt"})
                           = Drop(Fields(signature), {"keyId", "createdAt"})
    BY DEF Authentic, Accepted
  <2> DEFINE l == language
  <2>1. VerifySignature(letter) = Passed
    BY AcceptedVerifies
  <2>2. PICK s \in Documents(l) : body = Put(JsonEnvelope(l, s), "signature", signature)
    BY DEF SignedState, Posted
  <2>3. PICK z \in Documents(l) : signature = SignatureOf(l, z) /\ signed = JsonEnvelope(l, z)
    BY DEF SignedState, Posted
  <2> DEFINE form == CanonicalEnvelope(l, BuildEnvelope(z))
  <2>4. Get(body, "signature") = Signature(form)
    BY <2>2, <2>3 DEF Put, Get, SignatureOf
  <2>5. Value(letter) = Signed(form)
    BY <2>1, <2>4, Verified, SignaturesParse DEF Arrives, Posted
  <2>6. CanonicalEnvelope(Python, letter) = form
    BY <2>1, <2>5, Verified DEF Signed
  <2>7. l \in Languages /\ CanonicalEnvelope(Python, signed) = form
    BY <2>3 DEF SignedState, FormsAgree
  <2>8. /\ Unsigned(letter) \in UNION {S[n] : n \in 0 .. MaxAlterations}
        /\ signed \in UNION {S[n] : n \in 0 .. MaxAlterations}
    BY <2>3, <2>7 DEF Arrives, Posted, Covers
  <2>9. Drop(letter, {"signature"}) = signed
    <3>1. \A e : CanonicalEnvelope(Python, Unsigned(e)) = CanonicalEnvelope(Python, e)
      <4>1. \A e : Drop(Drop(e, {"signature"}), {"signature"}) = Drop(e, {"signature"})
        BY DEF Drop
      <4> QED BY <4>1 DEF CanonicalEnvelope, Unsigned
    <3> QED BY <2>6, <2>7, <2>8, <3>1 DEF Injective, Unsigned
  <2> DEFINE f == Fields(letter["signature"])
             g == Fields(signature)
  <2>10. DOMAIN f = {"keyId", "algorithm", "createdAt", "value"} /\ f["algorithm"] = Ed25519
         /\ f["value"] = Signed(form)
    <3>1. ParseSignature(letter) = Passed
      BY <2>1, Verified
    <3>2. /\ Get(letter, "signature").type = "object"
          /\ DOMAIN Fields(Get(letter, "signature")) = {"keyId", "algorithm", "createdAt", "value"}
          /\ Get(Fields(Get(letter, "signature")), "algorithm") = Ed25519
      <4> DEFINE h  == Fields(Get(letter, "signature"))
                 c1 == Require(Get(letter, "signature").type = "object")
                 c2 == Require(DOMAIN h = {"keyId", "algorithm", "createdAt", "value"})
                 c3 == Require(Get(h, "algorithm") = Ed25519)
                 c4 == Require(Is(Get(h, "keyId"), "key id"))
                 c5 == IF IsString(Get(h, "createdAt")) THEN Passed ELSE Crashed
                 c6 == Require(Is(Get(h, "createdAt"), "time") /\ Is(Get(h, "value"), "signature"))
      <4>1. First(<<c1, c2, c3, c4, c5, c6>>) = Passed
        BY <3>1 DEF ParseSignature
      <4> HIDE DEF c1, c2, c3, c4, c5, c6
      <4>2. c1 = Passed /\ c2 = Passed /\ c3 = Passed
        BY <4>1, First6
      <4> QED BY <4>2 DEF c1, c2, c3, Require, Passed, Refused
    <3>3. Get(letter, "signature") = letter["signature"]
      BY <3>2 DEF Get, Absent
    <3> QED BY <2>5, <3>2, <3>3 DEF Value, Get
  <2>11. DOMAIN g = {"keyId", "algorithm", "createdAt", "value"} /\ g["algorithm"] = Ed25519
         /\ g["value"] = Signed(form)
    BY <2>3 DEF SignatureOf, Signature, Object, Fields
  <2>12. Drop(f, {"keyId", "createdAt"}) = Drop(g, {"keyId", "createdAt"})
    <3> HIDE DEF f, g, form
    <3>1. DOMAIN f \ {"keyId", "createdAt"} = {"algorithm", "value"}
          /\ DOMAIN g \ {"keyId", "createdAt"} = {"algorithm", "value"}
      BY <2>10, <2>11
    <3> QED BY <2>10, <2>11, <3>1 DEF Drop
  <2> QED BY <2>9, <2>12
<1> QED BY <1>1, <1>2, <1>3, SignedInit, SignedStep, PTL DEF Spec
-----------------------------------------------------------------------------
(* The canonical form that the two languages compute.  V[n] are the values *)
(* that nest at most n deep, with any leaves and with the keys in K.       *)
Over(U, K) == UNION {[D -> U] : D \in K}
Nested(V, K) ==
    \A n \in Nat :
        V[n + 1] = V[0] \cup {Object(f) : f \in Over(V[n], K)} \cup {List(s) : s \in Seq(V[n])}

Scalar(v)  == v.type \in {"string", "boolean", "null"}
Numbers(F) == [type : {"number"}, value : STRING, float : F]

(* What the code makes of a value, if it makes FormOf and JsonOf of its    *)
(* members.                                                                *)
FormOnce(l, v) == Form(l, v, [p \in DOMAIN Parts(v) |-> FormOf(l, Parts(v)[p])])
JsonOnce(l, v) == Json(l, v, [p \in DOMAIN Parts(v) |-> JsonOf(l, Parts(v)[p])])

(* FormOf and JsonOf are what the code computes, on the values in V.       *)
Composed(V) ==
    \A n \in Nat, l \in {Python, TypeScript} : \A v \in V[n] :
        FormOf(l, v) = FormOnce(l, v) /\ JsonOf(l, v) = JsonOnce(l, v)

LEMMA Kinds ==
  /\ \A f : Object(f).type = "object" /\ Object(f).fields = f
  /\ \A s : List(s).type = "array" /\ List(s).items = s
BY DEF Object, List

LEMMA PartsOfKind ==
  ASSUME NEW v
  PROVE  /\ v.type = "object" => Parts(v) = v.fields
         /\ v.type = "array" => Parts(v) = v.items
<1>1. v.type = "object" => Parts(v) = v.fields
  BY Zenon DEF Parts
<1>2. v.type = "array" => Parts(v) = v.items
  BY Zenon DEF Parts
<1> QED BY <1>1, <1>2

LEMMA FormOfKind ==
  ASSUME NEW l
  PROVE  /\ \A f : FormOnce(l, Object(f)) =
               [type |-> "members", order |-> Order(l, SignedKeys(l, DOMAIN f)),
                members |-> [k \in SignedKeys(l, DOMAIN f) |-> FormOf(l, f[k])]]
         /\ \A s : FormOnce(l, List(s)) =
               [type |-> "elements", elements |-> [i \in DOMAIN s |-> FormOf(l, s[i])]]
         /\ \A v : v.type = "number" => FormOnce(l, v) = Written(l, v)
         /\ \A v : Scalar(v) => FormOnce(l, v) = v
<1>1. ASSUME NEW v, v.type = "object"
      PROVE  FormOnce(l, v) = [type |-> "members", order |-> Order(l, SignedKeys(l, DOMAIN v.fields)),
                members |-> [k \in SignedKeys(l, DOMAIN v.fields) |-> FormOf(l, v.fields[k])]]
  <2> DEFINE parts == [p \in DOMAIN v.fields |-> FormOf(l, v.fields[p])]
  <2>1. FormOnce(l, v) = Form(l, v, parts)
    BY <1>1, PartsOfKind DEF FormOnce
  <2>2. \A k \in SignedKeys(l, DOMAIN v.fields) : parts[k] = FormOf(l, v.fields[k])
    BY DEF SignedKeys
  <2> HIDE DEF parts
  <2>3. Form(l, v, parts) = [type |-> "members", order |-> Order(l, SignedKeys(l, DOMAIN v.fields)),
                             members |-> [k \in SignedKeys(l, DOMAIN v.fields) |-> parts[k]]]
    BY <1>1, Zenon DEF Form
  <2> QED BY <2>1, <2>2, <2>3
<1>2. ASSUME NEW v, v.type = "array"
      PROVE  FormOnce(l, v) =
               [type |-> "elements", elements |-> [i \in DOMAIN v.items |-> FormOf(l, v.items[i])]]
  <2> DEFINE parts == [i \in DOMAIN v.items |-> FormOf(l, v.items[i])]
  <2>1. FormOnce(l, v) = Form(l, v, parts)
    BY <1>2, PartsOfKind DEF FormOnce
  <2> HIDE DEF parts
  <2>2. Form(l, v, parts) = [type |-> "elements", elements |-> parts]
    BY <1>2, Zenon DEF Form
  <2> QED BY <2>1, <2>2 DEF parts
<1>3. ASSUME NEW v, v.type = "number" PROVE FormOnce(l, v) = Written(l, v)
  BY <1>3, Zenon DEF FormOnce, Form
<1>4. ASSUME NEW v, Scalar(v) PROVE FormOnce(l, v) = v
  <2>1. v.type # "object" /\ v.type # "array" /\ v.type # "date" /\ v.type # "number"
    BY <1>4 DEF Scalar
  <2> QED BY <2>1, Zenon DEF FormOnce, Form
<1>5. \A f : FormOnce(l, Object(f)) =
               [type |-> "members", order |-> Order(l, SignedKeys(l, DOMAIN f)),
                members |-> [k \in SignedKeys(l, DOMAIN f) |-> FormOf(l, f[k])]]
  BY <1>1, Kinds
<1>6. \A s : FormOnce(l, List(s)) =
               [type |-> "elements", elements |-> [i \in DOMAIN s |-> FormOf(l, s[i])]]
  BY <1>2, Kinds
<1> QED BY <1>3, <1>4, <1>5, <1>6

LEMMA JsonOfKind ==
  ASSUME NEW l
  PROVE  /\ \A f : JsonOnce(l, Object(f)) =
               Object([k \in {j \in DOMAIN f : f[j] # Undefined} |-> JsonOf(l, f[k])])
         /\ \A s : JsonOnce(l, List(s)) = List([i \in DOMAIN s |-> JsonOf(l, s[i])])
         /\ \A v : v.type = "number" =>
               JsonOnce(l, v) = IF l = TypeScript /\ v.value = "1" THEN Whole ELSE v
         /\ \A v : Scalar(v) => JsonOnce(l, v) = v
<1>1. ASSUME NEW v, v.type = "object"
      PROVE  JsonOnce(l, v) =
               Object([k \in {j \in DOMAIN v.fields : v.fields[j] # Undefined} |-> JsonOf(l, v.fields[k])])
  <2> DEFINE parts == [p \in DOMAIN v.fields |-> JsonOf(l, v.fields[p])]
             D     == {j \in DOMAIN v.fields : v.fields[j] # Undefined}
  <2>1. JsonOnce(l, v) = Json(l, v, parts)
    BY <1>1, PartsOfKind DEF JsonOnce
  <2>2. [k \in D |-> parts[k]] = [k \in D |-> JsonOf(l, v.fields[k])]
    OBVIOUS
  <2> HIDE DEF parts
  <2>3. Json(l, v, parts) = Object([k \in D |-> parts[k]])
    BY <1>1, Zenon DEF Json
  <2> QED BY <2>1, <2>2, <2>3
<1>2. ASSUME NEW v, v.type = "array"
      PROVE  JsonOnce(l, v) = List([i \in DOMAIN v.items |-> JsonOf(l, v.items[i])])
  <2> DEFINE parts == [i \in DOMAIN v.items |-> JsonOf(l, v.items[i])]
  <2>1. JsonOnce(l, v) = Json(l, v, parts)
    BY <1>2, PartsOfKind DEF JsonOnce
  <2> HIDE DEF parts
  <2>2. Json(l, v, parts) = List(parts)
    BY <1>2, Zenon DEF Json
  <2> QED BY <2>1, <2>2 DEF parts
<1>3. ASSUME NEW v, v.type = "number"
      PROVE  JsonOnce(l, v) = IF l = TypeScript /\ v.value = "1" THEN Whole ELSE v
  BY <1>3, Zenon DEF JsonOnce, Json
<1>4. ASSUME NEW v, Scalar(v) PROVE JsonOnce(l, v) = v
  <2>1. v.type # "object" /\ v.type # "array" /\ v.type # "date" /\ v.type # "number"
    BY <1>4 DEF Scalar
  <2> QED BY <2>1, Zenon DEF JsonOnce, Json
<1>5. \A f : JsonOnce(l, Object(f)) =
               Object([k \in {j \in DOMAIN f : f[j] # Undefined} |-> JsonOf(l, f[k])])
  BY <1>1, Kinds
<1>6. \A s : JsonOnce(l, List(s)) = List([i \in DOMAIN s |-> JsonOf(l, s[i])])
  BY <1>2, Kinds
<1> QED BY <1>3, <1>4, <1>5, <1>6

(* What nests at most n deep nests at most n + 1 deep.                     *)
LEMMA Deeper ==
  ASSUME NEW V, NEW K, Nested(V, K)
  PROVE  \A n \in Nat : V[n] \subseteq V[n + 1]
<1> DEFINE S == {n \in Nat : V[n] \subseteq V[n + 1]}
<1>1. ASSUME NEW n \in Nat, n = 0 \/ n - 1 \in S PROVE n \in S
  <2>1. CASE n = 0
    BY <2>1 DEF Nested
  <2>2. CASE n # 0
    <3>1. n - 1 \in Nat /\ (n - 1) + 1 = n /\ V[n - 1] \subseteq V[n]
      BY <1>1, <2>2
    <3>2. Over(V[n - 1], K) \subseteq Over(V[n], K)
      BY <3>1 DEF Over
    <3>3. Seq(V[n - 1]) \subseteq Seq(V[n])
      BY <3>1
    <3>4. V[n] = V[0] \cup {Object(f) : f \in Over(V[n - 1], K)} \cup {List(s) : s \in Seq(V[n - 1])}
      BY <3>1 DEF Nested
    <3>5. V[n + 1] = V[0] \cup {Object(f) : f \in Over(V[n], K)} \cup {List(s) : s \in Seq(V[n])}
      BY DEF Nested
    <3>6. V[n] \subseteq V[n + 1]
      BY <3>2, <3>3, <3>4, <3>5
    <3> QED BY <3>6
  <2> QED BY <2>1, <2>2
<1>2. \A n \in Nat : n = 0 \/ n - 1 \in Nat
  OBVIOUS
<1>3. \A n \in Nat : n = 0 \/ n - 1 \in S => n \in S
  BY <1>1
<1>4. Nat \subseteq S
  <2> HIDE DEF S
  <2> QED BY <1>2, <1>3, Induction
<1> QED BY <1>4

(* A value is a leaf, an object of values that nest less, or an array.     *)
LEMMA Structure ==
  ASSUME NEW V, NEW K, Nested(V, K), NEW n \in Nat, NEW v \in V[n]
  PROVE  \/ v \in V[0]
         \/ n # 0 /\ n - 1 \in Nat /\ \E f \in Over(V[n - 1], K) : v = Object(f)
         \/ n # 0 /\ n - 1 \in Nat /\ \E s \in Seq(V[n - 1]) : v = List(s)
<1>1. CASE n = 0
  BY <1>1
<1>2. CASE n # 0
  <2>1. n - 1 \in Nat /\ (n - 1) + 1 = n
    BY <1>2
  <2>2. V[n] = V[0] \cup {Object(f) : f \in Over(V[n - 1], K)} \cup {List(s) : s \in Seq(V[n - 1])}
    BY <2>1 DEF Nested
  <2> QED BY <1>2, <2>1, <2>2
<1> QED BY <1>1, <1>2

(* Python writes no two values alike.                                      *)
LEMMA FormInjective ==
  ASSUME NEW Keys, NEW V, Nested(V, SUBSET Keys), Composed(V),
         \A v \in V[0] : Scalar(v) \/ v \in Numbers(BOOLEAN)
  PROVE  \A n \in Nat : \A v, w \in V[n] : FormOf(Python, v) = FormOf(Python, w) => v = w
<1> DEFINE S == {n \in Nat : \A v, w \in V[n] : FormOf(Python, v) = FormOf(Python, w) => v = w}
<1>1. ASSUME NEW n \in Nat, NEW v \in V[n] PROVE FormOf(Python, v) = FormOnce(Python, v)
  BY DEF Composed
<1>2. \A D : SignedKeys(Python, D) = D
  BY DEF SignedKeys, Python, TypeScript
<1>3. \A n \in Nat : \A v \in V[n] \cap V[0] :
         \/ Scalar(v) /\ FormOf(Python, v) = v
         \/ /\ v \in Numbers(BOOLEAN)
            /\ FormOf(Python, v) = [type |-> "digits", value |-> v.value, real |-> v.float]
  <2> SUFFICES ASSUME NEW n \in Nat, NEW v \in V[n], v \in V[0], ~Scalar(v)
               PROVE  /\ v \in Numbers(BOOLEAN)
                      /\ FormOf(Python, v) = [type |-> "digits", value |-> v.value, real |-> v.float]
    BY <1>1, FormOfKind
  <2>1. v \in Numbers(BOOLEAN) /\ v.type = "number"
    BY DEF Numbers
  <2>2. FormOf(Python, v) = Written(Python, v)
    BY <1>1, <2>1, FormOfKind
  <2> QED BY <2>1, <2>2 DEF Written
<1>4. \A n \in Nat : \A f : Object(f) \in V[n] =>
         /\ FormOf(Python, Object(f)).type = "members"
         /\ FormOf(Python, Object(f)).members = [k \in DOMAIN f |-> FormOf(Python, f[k])]
  <2> SUFFICES ASSUME NEW n \in Nat, NEW f, Object(f) \in V[n]
               PROVE  /\ FormOf(Python, Object(f)).type = "members"
                      /\ FormOf(Python, Object(f)).members = [k \in DOMAIN f |-> FormOf(Python, f[k])]
    OBVIOUS
  <2>1. FormOf(Python, Object(f)) =
          [type |-> "members", order |-> Order(Python, DOMAIN f),
           members |-> [k \in DOMAIN f |-> FormOf(Python, f[k])]]
    BY <1>1, <1>2, FormOfKind
  <2> QED BY <2>1
<1>5. \A n \in Nat : \A s : List(s) \in V[n] =>
         /\ FormOf(Python, List(s)).type = "elements"
         /\ FormOf(Python, List(s)).elements = [i \in DOMAIN s |-> FormOf(Python, s[i])]
  <2> SUFFICES ASSUME NEW n \in Nat, NEW s, List(s) \in V[n]
               PROVE  /\ FormOf(Python, List(s)).type = "elements"
                      /\ FormOf(Python, List(s)).elements = [i \in DOMAIN s |-> FormOf(Python, s[i])]
    OBVIOUS
  <2>1. FormOf(Python, List(s)) =
          [type |-> "elements", elements |-> [i \in DOMAIN s |-> FormOf(Python, s[i])]]
    BY <1>1, FormOfKind
  <2> QED BY <2>1
<1>6. ASSUME NEW n \in Nat, n = 0 \/ n - 1 \in S, NEW v \in V[n], NEW w \in V[n],
             FormOf(Python, v) = FormOf(Python, w)
      PROVE  v = w
  <2>1. ASSUME NEW x \in V[n]
        PROVE  \/ x \in V[0] /\ FormOf(Python, x).type \notin {"members", "elements"}
               \/ /\ n # 0 /\ n - 1 \in Nat /\ FormOf(Python, x).type = "members"
                  /\ \E f \in Over(V[n - 1], SUBSET Keys) : x = Object(f)
               \/ /\ n # 0 /\ n - 1 \in Nat /\ FormOf(Python, x).type = "elements"
                  /\ \E s \in Seq(V[n - 1]) : x = List(s)
    <3>1. CASE x \in V[0]
      BY <1>3, <3>1 DEF Scalar
    <3>2. CASE n # 0 /\ n - 1 \in Nat /\ \E f \in Over(V[n - 1], SUBSET Keys) : x = Object(f)
      BY <1>4, <3>2
    <3>3. CASE n # 0 /\ n - 1 \in Nat /\ \E s \in Seq(V[n - 1]) : x = List(s)
      BY <1>5, <3>3
    <3>4. \/ x \in V[0]
          \/ n # 0 /\ n - 1 \in Nat /\ \E f \in Over(V[n - 1], SUBSET Keys) : x = Object(f)
          \/ n # 0 /\ n - 1 \in Nat /\ \E s \in Seq(V[n - 1]) : x = List(s)
      BY Structure
    <3> QED BY <3>1, <3>2, <3>3, <3>4
  <2>2. CASE v \in V[0] /\ w \in V[0]
    <3>1. \A x, y \in Numbers(BOOLEAN) : x.value = y.value /\ x.float = y.float => x = y
      BY DEF Numbers
    <3> QED BY <1>3, <1>6, <2>2, <3>1 DEF Scalar
  <2>3. ASSUME n # 0, n - 1 \in Nat, NEW f \in Over(V[n - 1], SUBSET Keys), v = Object(f),
               NEW g \in Over(V[n - 1], SUBSET Keys), w = Object(g)
        PROVE  v = w
    <3>1. [k \in DOMAIN f |-> FormOf(Python, f[k])] = [k \in DOMAIN g |-> FormOf(Python, g[k])]
      <4>1. Object(f) \in V[n] /\ Object(g) \in V[n] /\ FormOf(Python, Object(f)) = FormOf(Python, Object(g))
        BY <1>6, <2>3
      <4>2. FormOf(Python, Object(f)).members = [k \in DOMAIN f |-> FormOf(Python, f[k])]
        BY <1>4, <4>1
      <4>3. FormOf(Python, Object(g)).members = [k \in DOMAIN g |-> FormOf(Python, g[k])]
        BY <1>4, <4>1
      <4> QED BY <4>1, <4>2, <4>3
    <3>2. PICK D, E : f \in [D -> V[n - 1]] /\ g \in [E -> V[n - 1]]
      BY DEF Over
    <3>3. DOMAIN f = DOMAIN g
      BY <3>1
    <3>4. \A k \in DOMAIN f : FormOf(Python, f[k]) = FormOf(Python, g[k])
      BY <3>1, <3>3
    <3>5. \A k \in DOMAIN f : f[k] = g[k]
      BY <1>6, <2>3, <3>2, <3>3, <3>4
    <3>6. f = g
      BY <3>2, <3>3, <3>5
    <3> QED BY <2>3, <3>6
  <2>4. ASSUME n # 0, n - 1 \in Nat, NEW s \in Seq(V[n - 1]), v = List(s),
               NEW t \in Seq(V[n - 1]), w = List(t)
        PROVE  v = w
    <3>1. [i \in DOMAIN s |-> FormOf(Python, s[i])] = [i \in DOMAIN t |-> FormOf(Python, t[i])]
      <4>1. List(s) \in V[n] /\ List(t) \in V[n] /\ FormOf(Python, List(s)) = FormOf(Python, List(t))
        BY <1>6, <2>4
      <4>2. FormOf(Python, List(s)).elements = [i \in DOMAIN s |-> FormOf(Python, s[i])]
        BY <1>5, <4>1
      <4>3. FormOf(Python, List(t)).elements = [i \in DOMAIN t |-> FormOf(Python, t[i])]
        BY <1>5, <4>1
      <4> QED BY <4>1, <4>2, <4>3
    <3>2. DOMAIN s = DOMAIN t
      BY <3>1
    <3>3. \A i \in DOMAIN s : FormOf(Python, s[i]) = FormOf(Python, t[i])
      BY <3>1, <3>2
    <3>4. \A i \in DOMAIN s : s[i] \in V[n - 1] /\ t[i] \in V[n - 1]
      BY <3>2
    <3>5. \A i \in DOMAIN s : s[i] = t[i]
      BY <1>6, <2>4, <3>3, <3>4
    <3>6. s = t
      BY <3>2, <3>5
    <3> QED BY <2>4, <3>6
  <2> QED BY <1>6, <2>1, <2>2, <2>3, <2>4
<1>7. \A n \in Nat : n = 0 \/ n - 1 \in Nat
  OBVIOUS
<1>8. \A n \in Nat : n = 0 \/ n - 1 \in S => n \in S
  BY <1>6
<1>9. Nat \subseteq S
  <2> HIDE DEF S
  <2> QED BY <1>7, <1>8, Induction
<1> QED BY <1>9

(* A Python peer parses what was written, if TypeScript writes no floats.  *)
LEMMA JsonKept ==
  ASSUME NEW l \in {Python, TypeScript}, NEW V, NEW K, Nested(V, K), Composed(V),
         \A v \in V[0] : Scalar(v) \/ v \in Numbers(IF l = Python THEN BOOLEAN ELSE {FALSE})
  PROVE  \A n \in Nat : \A v \in V[n] : JsonOf(l, v) = v
<1> DEFINE S == {n \in Nat : \A v \in V[n] : JsonOf(l, v) = v}
<1>1. ASSUME NEW n \in Nat, NEW v \in V[n] PROVE v # Undefined
  <2>1. Undefined.type = "undefined"
    BY DEF Undefined
  <2>2. v \in V[0] => v.type \in {"string", "boolean", "null", "number"}
    BY DEF Scalar, Numbers
  <2>3. v \notin V[0] => v.type \in {"object", "array"}
    BY Structure, Kinds
  <2>4. "undefined" \notin {"string", "boolean", "null", "number", "object", "array"}
    OBVIOUS
  <2> QED BY <2>1, <2>2, <2>3, <2>4
<1>2. ASSUME NEW n \in Nat, n = 0 \/ n - 1 \in S, NEW v \in V[n] PROVE JsonOf(l, v) = v
  <2>1. JsonOf(l, v) = JsonOnce(l, v)
    BY DEF Composed
  <2>2. CASE v \in V[0] /\ Scalar(v)
    BY <2>1, <2>2, JsonOfKind
  <2>3. CASE v \in V[0] /\ ~Scalar(v)
    <3>1. v \in Numbers(IF l = Python THEN BOOLEAN ELSE {FALSE}) /\ v.type = "number"
      BY <2>3 DEF Numbers
    <3>2. JsonOnce(l, v) = IF l = TypeScript /\ v.value = "1" THEN Whole ELSE v
      BY <3>1, JsonOfKind
    <3>3. l = TypeScript /\ v.value = "1" => v = Whole
      BY <3>1 DEF Numbers, Whole, NumberOf, Python, TypeScript
    <3> QED BY <2>1, <3>2, <3>3
  <2>4. ASSUME n - 1 \in Nat, n # 0, NEW f \in Over(V[n - 1], K), v = Object(f)
        PROVE  JsonOnce(l, v) = v
    <3>1. PICK D : f \in [D -> V[n - 1]]
      BY DEF Over
    <3>2. \A k \in DOMAIN f : f[k] # Undefined /\ JsonOf(l, f[k]) = f[k]
      BY <1>1, <1>2, <2>4, <3>1
    <3>3. [k \in {j \in DOMAIN f : f[j] # Undefined} |-> JsonOf(l, f[k])] = f
      BY <3>1, <3>2
    <3>4. JsonOnce(l, Object(f)) = Object([k \in {j \in DOMAIN f : f[j] # Undefined} |-> JsonOf(l, f[k])])
      BY JsonOfKind
    <3> QED BY <2>4, <3>3, <3>4
  <2>5. ASSUME n - 1 \in Nat, n # 0, NEW s \in Seq(V[n - 1]), v = List(s)
        PROVE  JsonOnce(l, v) = v
    <3>1. \A i \in DOMAIN s : JsonOf(l, s[i]) = s[i]
      BY <1>2, <2>5
    <3>2. [i \in DOMAIN s |-> JsonOf(l, s[i])] = s
      BY <3>1
    <3>3. JsonOnce(l, List(s)) = List([i \in DOMAIN s |-> JsonOf(l, s[i])])
      BY JsonOfKind
    <3> QED BY <2>5, <3>2, <3>3
  <2> QED BY <2>1, <2>2, <2>3, <2>4, <2>5, Structure
<1>3. \A n \in Nat : n = 0 \/ n - 1 \in Nat
  OBVIOUS
<1>4. \A n \in Nat : n = 0 \/ n - 1 \in S => n \in S
  BY <1>2
<1>5. Nat \subseteq S
  <2> HIDE DEF S
  <2> QED BY <1>3, <1>4, Induction
<1> QED BY <1>5

(* Keys that both languages sign, in one order.                            *)
PlainKeys(Keys) == {D \in SUBSET Keys : /\ "signature" \notin D
                                        /\ D \cap Astral = {} \/ D \cap HighBMP = {}}

LEMMA PlainOrder ==
  ASSUME NEW Keys, NEW D \in PlainKeys(Keys)
  PROVE  /\ \A l : SignedKeys(l, D) = D
         /\ Order(TypeScript, D) = Order(Python, D)
<1>1. \A l : SignedKeys(l, D) = D
  BY DEF SignedKeys, PlainKeys
<1>2. \A a, b \in D : Rank(TypeScript, a) < Rank(TypeScript, b) <=> Rank(Python, a) < Rank(Python, b)
  <2>1. CASE D \cap Astral = {}
    <3>1. \A l : \A a \in D : Rank(l, a) = IF a \in HighBMP THEN 1 ELSE -1
      BY <2>1 DEF Rank
    <3> QED BY <3>1
  <2>2. CASE D \cap HighBMP = {}
    <3>1. \A a \in D : /\ Rank(Python, a) = IF a \in Astral THEN 2 ELSE -1
                       /\ Rank(TypeScript, a) = IF a \in Astral THEN 0 ELSE -1
      BY <2>2 DEF Rank, Python, TypeScript
    <3> QED BY <3>1
  <2> QED BY <2>1, <2>2 DEF PlainKeys
<1> QED BY <1>1, <1>2 DEF Order

(* TypeScript writes what has such keys and no floats as Python does.      *)
LEMMA PlainForms ==
  ASSUME NEW Keys, NEW V, Nested(V, PlainKeys(Keys)), Composed(V),
         \A v \in V[0] : Scalar(v) \/ v \in Numbers({FALSE})
  PROVE  \A n \in Nat : \A v \in V[n] : FormOf(TypeScript, v) = FormOf(Python, v)
<1> DEFINE S == {n \in Nat : \A v \in V[n] : FormOf(TypeScript, v) = FormOf(Python, v)}
<1>1. ASSUME NEW n \in Nat, n = 0 \/ n - 1 \in S, NEW v \in V[n]
      PROVE  FormOf(TypeScript, v) = FormOf(Python, v)
  <2>1. \A l \in {Python, TypeScript} : FormOf(l, v) = FormOnce(l, v)
    BY DEF Composed
  <2>2. CASE v \in V[0] /\ Scalar(v)
    BY <2>1, <2>2, FormOfKind
  <2>3. CASE v \in V[0] /\ ~Scalar(v)
    <3>1. v.float = FALSE /\ v.type = "number"
      BY <2>3 DEF Numbers
    <3>2. Written(TypeScript, v) = Written(Python, v)
      BY <3>1 DEF Written
    <3> QED BY <2>1, <3>1, <3>2, FormOfKind
  <2>4. ASSUME n - 1 \in Nat, n # 0, NEW f \in Over(V[n - 1], PlainKeys(Keys)), v = Object(f)
        PROVE  FormOnce(TypeScript, v) = FormOnce(Python, v)
    <3>1. PICK D \in PlainKeys(Keys) : f \in [D -> V[n - 1]]
      BY DEF Over
    <3>2. \A k \in D : FormOf(TypeScript, f[k]) = FormOf(Python, f[k])
      BY <1>1, <2>4, <3>1
    <3>3. ASSUME NEW l
          PROVE  FormOnce(l, v) = [type |-> "members", order |-> Order(l, D),
                               members |-> [k \in D |-> FormOf(l, f[k])]]
      <4>1. DOMAIN f = D /\ SignedKeys(l, D) = D
        BY <3>1, PlainOrder
      <4>2. FormOnce(l, Object(f)) =
               [type |-> "members", order |-> Order(l, SignedKeys(l, DOMAIN f)),
                members |-> [k \in SignedKeys(l, DOMAIN f) |-> FormOf(l, f[k])]]
        BY FormOfKind
      <4> QED BY <2>4, <4>1, <4>2
    <3>4. [k \in D |-> FormOf(TypeScript, f[k])] = [k \in D |-> FormOf(Python, f[k])]
      BY <3>2
    <3> QED BY <3>3, <3>4, PlainOrder
  <2>5. ASSUME n - 1 \in Nat, n # 0, NEW s \in Seq(V[n - 1]), v = List(s)
        PROVE  FormOnce(TypeScript, v) = FormOnce(Python, v)
    <3>1. \A i \in DOMAIN s : FormOf(TypeScript, s[i]) = FormOf(Python, s[i])
      BY <1>1, <2>5
    <3>2. [i \in DOMAIN s |-> FormOf(TypeScript, s[i])] = [i \in DOMAIN s |-> FormOf(Python, s[i])]
      BY <3>1
    <3>3. \A l : FormOnce(l, List(s)) =
               [type |-> "elements", elements |-> [i \in DOMAIN s |-> FormOf(l, s[i])]]
      BY FormOfKind
    <3> QED BY <2>5, <3>2, <3>3
  <2> QED BY <2>1, <2>2, <2>3, <2>4, <2>5, Structure
<1>2. \A n \in Nat : n = 0 \/ n - 1 \in Nat
  OBVIOUS
<1>3. \A n \in Nat : n = 0 \/ n - 1 \in S => n \in S
  BY <1>1
<1>4. Nat \subseteq S
  <2> HIDE DEF S
  <2> QED BY <1>2, <1>3, Induction
<1> QED BY <1>4

BuiltFrom == {Version, MessageRef, Transaction, Word("request_for_quote"), Agent("buyer"),
              Agent("seller"), Time(1), Time(2), Text(20), Text(5), Code, Amount(2, 0)}
BuiltKeys == {"specVersion", "messageId", "transactionId", "documentType", "sender", "recipient",
              "createdAt", "expiresAt", "idempotencyKey", "document",
              "currency", "deliveryLocation", "responseDeadline", "items",
              "lineId", "description", "quantity", "unit", "specifications"}

(* How deep what build_envelope makes nests.                               *)
LEMMA EnvelopeNests ==
  ASSUME NEW Keys, BuiltKeys \subseteq Keys,
         NEW V, NEW K, PlainKeys(Keys) \subseteq K, Nested(V, K), BuiltFrom \subseteq V[0],
         NEW d \in Nat, NEW s \in Over(V[d], K)
  PROVE  /\ Object(s) \in V[d + 1] /\ Object(Item(s)) \in V[d + 2]
         /\ List(<<Object(Item(s))>>) \in V[d + 3] /\ Rfq(s) \in V[d + 4]
         /\ BuildEnvelope(s) \in Over(V[d + 4], PlainKeys(Keys))
         /\ Object(BuildEnvelope(s)) \in V[d + 5]
<1>1. \A n \in Nat : /\ \A f \in Over(V[n], K) : Object(f) \in V[n + 1]
                     /\ \A q \in Seq(V[n]) : List(q) \in V[n + 1]
                     /\ BuiltFrom \subseteq V[n + 1]
  BY DEF Nested
<1>2. /\ d + 1 \in Nat /\ d + 2 \in Nat /\ d + 3 \in Nat /\ d + 4 \in Nat
      /\ (d + 1) + 1 = d + 2 /\ (d + 2) + 1 = d + 3 /\ (d + 3) + 1 = d + 4 /\ (d + 4) + 1 = d + 5
  OBVIOUS
<1>3. \A U, D, f : D \in PlainKeys(Keys) /\ f \in [D -> U] => f \in Over(U, PlainKeys(Keys)) /\ f \in Over(U, K)
  BY DEF Over
<1>4. Object(s) \in V[d + 1]
  BY <1>1
<1>5. Object(Item(s)) \in V[d + 2]
  <2> DEFINE D == {"lineId", "description", "quantity", "unit", "specifications"}
  <2>1. D \in PlainKeys(Keys)
    <3>1. D \in SUBSET Keys
      BY DEF BuiltKeys
    <3>2. "signature" \notin D /\ D \cap Astral = {}
      BY DEF Astral
    <3> QED BY <3>1, <3>2 DEF PlainKeys
  <2>2. Text(5) \in V[d + 1] /\ Amount(2, 0) \in V[d + 1]
    BY <1>1 DEF BuiltFrom
  <2>3. Item(s) \in [D -> V[d + 1]]
    BY <1>4, <2>2 DEF Item
  <2> QED BY <1>1, <1>2, <1>3, <2>1, <2>3
<1>6. List(<<Object(Item(s))>>) \in V[d + 3]
  <2>1. \A U, x : x \in U => <<x>> \in Seq(U)
    OBVIOUS
  <2>2. <<Object(Item(s))>> \in Seq(V[d + 2])
    BY <1>5, <2>1
  <2> QED BY <1>1, <1>2, <2>2
<1>7. Rfq(s) \in V[d + 4]
  <2> DEFINE D == {"currency", "deliveryLocation", "responseDeadline", "items"}
             f == [currency |-> Code, deliveryLocation |-> Text(5), responseDeadline |-> Time(2),
                   items |-> List(<<Object(Item(s))>>)]
  <2>1. D \in PlainKeys(Keys)
    <3>1. D \in SUBSET Keys
      BY DEF BuiltKeys
    <3>2. "signature" \notin D /\ D \cap Astral = {}
      BY DEF Astral
    <3> QED BY <3>1, <3>2 DEF PlainKeys
  <2>2. Code \in V[d + 3] /\ Text(5) \in V[d + 3] /\ Time(2) \in V[d + 3]
    BY <1>1, <1>2 DEF BuiltFrom
  <2>3. f \in [D -> V[d + 3]]
    BY <1>6, <2>2
  <2> QED BY <1>1, <1>2, <1>3, <2>1, <2>3 DEF Rfq
<1>8. BuildEnvelope(s) \in Over(V[d + 4], PlainKeys(Keys))
  <2> DEFINE D == {"specVersion", "messageId", "transactionId", "documentType", "sender", "recipient",
                   "createdAt", "expiresAt", "idempotencyKey", "document"}
  <2>1. D \in PlainKeys(Keys)
    <3>1. D \in SUBSET Keys
      BY DEF BuiltKeys
    <3>2. "signature" \notin D /\ D \cap Astral = {}
      BY DEF Astral
    <3> QED BY <3>1, <3>2 DEF PlainKeys
  <2>2. BuiltFrom \subseteq V[d + 4]
    BY <1>1, <1>2
  <2>3. BuildEnvelope(s) \in [D -> V[d + 4]]
    BY <1>7, <2>2 DEF BuiltFrom, BuildEnvelope
  <2> QED BY <1>3, <2>1, <2>3
<1>9. Object(BuildEnvelope(s)) \in V[d + 5]
  <2>1. BuildEnvelope(s) \in Over(V[d + 4], K)
    BY <1>8 DEF Over
  <2> QED BY <1>1, <1>2, <2>1
<1> QED BY <1>4, <1>5, <1>6, <1>7, <1>8, <1>9

(* The documents of Python senders, and what the network writes, are made  *)
(* of any values V; those of TypeScript senders of the values W without    *)
(* floats, dates, undefined, and keys that the languages treat apart.      *)
Ordinary(Keys, V, W, d) ==
    /\ Nested(V, SUBSET Keys) /\ Composed(V)
    /\ \A v \in V[0] : Scalar(v) \/ v \in Numbers(BOOLEAN)
    /\ Nested(W, PlainKeys(Keys))
    /\ \A v \in W[0] : Scalar(v) \/ v \in Numbers({FALSE})
    /\ BuiltKeys \subseteq Keys /\ BuiltFrom \subseteq W[0] /\ W[0] \subseteq V[0]
    /\ d \in Nat
    /\ Languages \subseteq {Python, TypeScript}
    /\ Python \in Languages => Documents(Python) \subseteq Over(V[d], SUBSET Keys)
    /\ TypeScript \in Languages => Documents(TypeScript) \subseteq Over(W[d], PlainKeys(Keys))
    /\ \A m \in Alterations \cup Rewritings : m[1] \in Keys /\ m[2] \in V[d] \cup {Absent}

LEMMA PlainIsAny ==
  ASSUME NEW Keys, NEW V, NEW W, NEW d, Ordinary(Keys, V, W, d)
  PROVE  \A n \in Nat : W[n] \subseteq V[n]
<1> DEFINE S == {n \in Nat : W[n] \subseteq V[n]}
<1>1. ASSUME NEW n \in Nat, n = 0 \/ n - 1 \in S PROVE W[n] \subseteq V[n]
  <2>1. CASE n = 0
    BY <2>1 DEF Ordinary
  <2>2. CASE n # 0
    <3>1. n - 1 \in Nat /\ (n - 1) + 1 = n /\ W[n - 1] \subseteq V[n - 1]
      BY <1>1, <2>2
    <3>2. Over(W[n - 1], PlainKeys(Keys)) \subseteq Over(V[n - 1], SUBSET Keys)
      BY <3>1 DEF Over, PlainKeys
    <3>3. Seq(W[n - 1]) \subseteq Seq(V[n - 1])
      BY <3>1
    <3>4. W[n] = W[0] \cup {Object(f) : f \in Over(W[n - 1], PlainKeys(Keys))} \cup {List(s) : s \in Seq(W[n - 1])}
      BY <3>1 DEF Ordinary, Nested
    <3>5. V[n] = V[0] \cup {Object(f) : f \in Over(V[n - 1], SUBSET Keys)} \cup {List(s) : s \in Seq(V[n - 1])}
      BY <3>1 DEF Ordinary, Nested
    <3>6. W[0] \subseteq V[0]
      BY DEF Ordinary
    <3> QED BY <3>2, <3>3, <3>4, <3>5, <3>6
  <2> QED BY <2>1, <2>2
<1>2. \A n \in Nat : n = 0 \/ n - 1 \in Nat
  OBVIOUS
<1>3. \A n \in Nat : n = 0 \/ n - 1 \in S => n \in S
  BY <1>1
<1>4. Nat \subseteq S
  <2> HIDE DEF S
  <2> QED BY <1>2, <1>3, Induction
<1> QED BY <1>4

(* What is posted is what was built, and Python reads its form.            *)
LEMMA OrdinaryPosts ==
  ASSUME NEW Keys, NEW V, NEW W, NEW d, Ordinary(Keys, V, W, d), NEW l \in Languages, NEW s \in Documents(l)
  PROVE  /\ s \in Over(V[d], SUBSET Keys)
         /\ JsonEnvelope(l, s) = BuildEnvelope(s)
         /\ CanonicalEnvelope(Python, BuildEnvelope(s)) = CanonicalEnvelope(l, BuildEnvelope(s))
<1> DEFINE e == BuildEnvelope(s)
<1>1. d \in Nat /\ d + 5 \in Nat /\ l \in {Python, TypeScript}
  BY DEF Ordinary
<1>2. PlainKeys(Keys) \subseteq SUBSET Keys /\ BuiltKeys \subseteq Keys
  BY DEF PlainKeys, Ordinary
<1>3. \A j : CanonicalEnvelope(j, e) = FormOf(j, Object(e))
  BY Unposted DEF CanonicalEnvelope, Unsigned
<1>4. CASE l = Python
  <2>1. s \in Over(V[d], SUBSET Keys)
    BY <1>4 DEF Ordinary
  <2>2. Nested(V, SUBSET Keys) /\ Composed(V) /\ BuiltFrom \subseteq V[0]
        /\ \A v \in V[0] : Scalar(v) \/ v \in Numbers(BOOLEAN)
    BY DEF Ordinary
  <2>3. Object(e) \in V[d + 5]
    BY <1>1, <1>2, <2>1, <2>2, EnvelopeNests
  <2>4. JsonOf(l, Object(e)) = Object(e)
    BY <1>1, <1>4, <2>2, <2>3, JsonKept
  <2> QED BY <1>4, <2>1, <2>4, Kinds DEF JsonEnvelope
<1>5. CASE l = TypeScript
  <2>1. s \in Over(W[d], PlainKeys(Keys))
    BY <1>5 DEF Ordinary
  <2>2. \A n \in Nat : W[n] \subseteq V[n]
    BY PlainIsAny
  <2>3. /\ Nested(W, PlainKeys(Keys)) /\ BuiltFrom \subseteq W[0]
        /\ \A v \in W[0] : Scalar(v) \/ v \in Numbers({FALSE})
    BY DEF Ordinary
  <2>4. Composed(W)
    BY <2>2 DEF Composed, Ordinary
  <2>5. Object(e) \in W[d + 5]
    BY <1>1, <1>2, <2>1, <2>3, EnvelopeNests
  <2>6. JsonOf(l, Object(e)) = Object(e)
    <3>1. \A v \in W[0] : Scalar(v) \/ v \in Numbers(IF l = Python THEN BOOLEAN ELSE {FALSE})
      BY <1>5, <2>3 DEF Python, TypeScript
    <3> QED BY <1>1, <2>3, <2>4, <2>5, <3>1, JsonKept
  <2>7. FormOf(TypeScript, Object(e)) = FormOf(Python, Object(e))
    BY <1>1, <2>3, <2>4, <2>5, PlainForms
  <2>8. s \in Over(V[d], SUBSET Keys)
    BY <1>1, <2>1, <2>2 DEF Over, PlainKeys
  <2> QED BY <1>3, <1>5, <2>6, <2>7, <2>8, Kinds DEF JsonEnvelope
<1> QED BY <1>1, <1>4, <1>5

LEMMA OrdinaryAgree ==
  ASSUME NEW Keys, NEW V, NEW W, NEW d, Ordinary(Keys, V, W, d)
  PROVE  FormsAgree
<1>1. \A s : Specifications(BuildEnvelope(s)) = s
  <2> SUFFICES ASSUME NEW s PROVE Specifications(BuildEnvelope(s)) = s
    OBVIOUS
  <2>1. BuildEnvelope(s)["document"] = Rfq(s)
    BY DEF BuildEnvelope
  <2>2. Fields(Rfq(s))["items"] = List(<<Object(Item(s))>>)
    BY DEF Rfq, Object, Fields
  <2>3. Items(List(<<Object(Item(s))>>))[1] = Object(Item(s))
    BY DEF List, Items
  <2>4. Item(s)["specifications"] = Object(s)
    BY DEF Item
  <2> QED BY <2>1, <2>2, <2>3, <2>4, Kinds DEF Specifications
<1> QED BY <1>1, OrdinaryPosts DEF FormsAgree

(* What may arrive, but for its signature: no two of it have one form.     *)
Arriving(Keys, U, n) ==
    {e \in Over(U[n + 4], {D \in SUBSET Keys : "signature" \notin D /\ "document" \in D}) :
        \E s \in Over(U[n], SUBSET Keys) : e["document"] = Rfq(s)}

LEMMA ArrivingInjective ==
  ASSUME NEW Keys, NEW V, NEW W, NEW d, Ordinary(Keys, V, W, d)
  PROVE  Injective(Arriving(Keys, V, d))
<1> SUFFICES ASSUME NEW e \in Arriving(Keys, V, d), NEW f \in Arriving(Keys, V, d),
                    CanonicalEnvelope(Python, e) = CanonicalEnvelope(Python, f)
             PROVE  e = f
  BY DEF Injective
<1>1. d + 4 \in Nat /\ d + 5 \in Nat /\ (d + 4) + 1 = d + 5
  BY DEF Ordinary
<1>2. ASSUME NEW x \in Arriving(Keys, V, d)
      PROVE  Object(x) \in V[d + 5] /\ CanonicalEnvelope(Python, x) = FormOf(Python, Object(x))
  <2>1. PICK D \in SUBSET Keys : "signature" \notin D /\ x \in [D -> V[d + 4]]
    BY DEF Arriving, Over
  <2>2. Drop(x, {"signature"}) = x
    BY <2>1 DEF Drop
  <2>3. x \in Over(V[d + 4], SUBSET Keys)
    BY <2>1 DEF Over
  <2>4. V[d + 5] = V[0] \cup {Object(g) : g \in Over(V[d + 4], SUBSET Keys)} \cup {List(s) : s \in Seq(V[d + 4])}
    BY <1>1 DEF Ordinary, Nested
  <2> QED BY <2>2, <2>3, <2>4 DEF CanonicalEnvelope
<1>3. /\ Nested(V, SUBSET Keys) /\ Composed(V)
      /\ \A v \in V[0] : Scalar(v) \/ v \in Numbers(BOOLEAN)
  BY DEF Ordinary
<1>4. Object(e) = Object(f)
  BY <1>1, <1>2, <1>3, FormInjective
<1> QED BY <1>4, Kinds

LEMMA ArrivingClosed ==
  ASSUME NEW Keys, NEW V, NEW W, NEW d, Ordinary(Keys, V, W, d), NEW e \in Arriving(Keys, V, d)
  PROVE  /\ \A m \in Alterations : Altered(e, m[1], m[2]) \in Arriving(Keys, V, d)
         /\ \A m \in Rewritings :
               m[1] # "signature" => Set(e, m[1], m[2]) \in Arriving(Keys, V, d)
<1> DEFINE KE == {D \in SUBSET Keys : "signature" \notin D /\ "document" \in D}
<1>1. PICK D \in KE : e \in [D -> V[d + 4]]
  BY DEF Arriving, Over
<1>2. PICK s \in Over(V[d], SUBSET Keys) : e["document"] = Rfq(s)
  BY DEF Arriving
<1>3. d \in Nat /\ V[d] \subseteq V[d + 4]
  <2>1. d \in Nat /\ Nested(V, SUBSET Keys)
    BY DEF Ordinary
  <2>2. \A n \in Nat : V[n] \subseteq V[n + 1]
    BY <2>1, Deeper
  <2>3. /\ d + 1 \in Nat /\ d + 2 \in Nat /\ d + 3 \in Nat
        /\ (d + 1) + 1 = d + 2 /\ (d + 2) + 1 = d + 3 /\ (d + 3) + 1 = d + 4
    BY <2>1
  <2> QED BY <2>1, <2>2, <2>3
<1>4. \A m \in Alterations \cup Rewritings : m[1] \in Keys /\ (m[2] = Absent \/ m[2] \in V[d])
  BY DEF Ordinary
<1>5. ASSUME NEW m \in Alterations PROVE Altered(e, m[1], m[2]) \in Arriving(Keys, V, d)
  <2>1. Specifications(e) = s
    <3>1. Fields(Rfq(s))["items"] = List(<<Object(Item(s))>>)
      BY DEF Rfq, Object, Fields
    <3>2. Items(List(<<Object(Item(s))>>))[1] = Object(Item(s))
      BY DEF List, Items
    <3>3. Item(s)["specifications"] = Object(s)
      BY DEF Item
    <3> QED BY <1>2, <3>1, <3>2, <3>3, Kinds DEF Specifications
  <2> DEFINE t == Set(s, m[1], m[2])
  <2>2. t \in Over(V[d], SUBSET Keys)
    <3>1. PICK E \in SUBSET Keys : s \in [E -> V[d]]
      BY DEF Over
    <3>2. CASE m[2] = Absent
      <4>1. t \in [E \ {m[1]} -> V[d]]
        BY <3>1, <3>2 DEF Set, Drop
      <4> HIDE DEF t
      <4> QED BY <4>1 DEF Over
    <3>3. CASE m[2] # Absent
      <4>1. t \in [E \cup {m[1]} -> V[d]]
        BY <1>4, <3>1, <3>3 DEF Set, Put
      <4>2. E \cup {m[1]} \in SUBSET Keys
        BY <1>4
      <4> HIDE DEF t
      <4> QED BY <4>1, <4>2 DEF Over
    <3> QED BY <3>2, <3>3
  <2> HIDE DEF t
  <2>3. Rfq(t) \in V[d + 4]
    <3>1. /\ BuiltKeys \subseteq Keys /\ PlainKeys(Keys) \subseteq SUBSET Keys
          /\ Nested(V, SUBSET Keys) /\ BuiltFrom \subseteq V[0]
      BY DEF Ordinary, PlainKeys
    <3> QED BY <1>3, <2>2, <3>1, EnvelopeNests
  <2>4. Put(e, "document", Rfq(t)) \in [D -> V[d + 4]]
    BY <1>1, <2>3 DEF Put
  <2>5. Put(e, "document", Rfq(t))["document"] = Rfq(t)
    BY DEF Put
  <2>6. Put(e, "document", Rfq(t)) \in Over(V[d + 4], KE)
    BY <1>1, <2>4 DEF Over
  <2>7. Altered(e, m[1], m[2]) = Put(e, "document", Rfq(t))
    BY <2>1 DEF Altered, t
  <2> QED BY <2>2, <2>5, <2>6, <2>7 DEF Arriving
<1>6. ASSUME NEW m \in Rewritings, m[1] # "signature"
      PROVE  Set(e, m[1], m[2]) \in Arriving(Keys, V, d)
  <2> DEFINE f == Set(e, m[1], m[2])
  <2>1. m[1] # "document"
    BY UnforgedAssumption
  <2>2. f["document"] = Rfq(s)
    BY <1>1, <1>2, <2>1 DEF Set, Drop, Put
  <2>3. CASE m[2] = Absent
    <3>1. f \in [D \ {m[1]} -> V[d + 4]]
      BY <1>1, <2>3 DEF Set, Drop
    <3>2. D \ {m[1]} \in KE
      BY <2>1
    <3> HIDE DEF f, KE
    <3>3. f \in Over(V[d + 4], KE)
      BY <3>1, <3>2 DEF Over
    <3> QED BY <2>2, <3>3 DEF Arriving, f, KE
  <2>4. CASE m[2] # Absent
    <3>1. m[2] \in V[d + 4] /\ m[1] \in Keys
      BY <1>3, <1>4, <2>4
    <3>2. f \in [D \cup {m[1]} -> V[d + 4]]
      BY <1>1, <2>4, <3>1 DEF Set, Put
    <3>3. D \cup {m[1]} \in KE
      BY <1>6, <3>1
    <3> HIDE DEF f, KE
    <3>4. f \in Over(V[d + 4], KE)
      BY <3>2, <3>3 DEF Over
    <3> QED BY <2>2, <3>4 DEF Arriving, f, KE
  <2> QED BY <2>3, <2>4
<1> QED BY <1>5, <1>6

LEMMA ArrivingPosts ==
  ASSUME NEW Keys, NEW V, NEW W, NEW d, Ordinary(Keys, V, W, d), NEW l \in Languages, NEW s \in Documents(l)
  PROVE  JsonEnvelope(l, s) \in Arriving(Keys, V, d)
<1> DEFINE KE == {D \in SUBSET Keys : "signature" \notin D /\ "document" \in D}
           e  == BuildEnvelope(s)
<1>1. JsonEnvelope(l, s) = e /\ s \in Over(V[d], SUBSET Keys)
  BY OrdinaryPosts
<1>2. e \in Over(V[d + 4], PlainKeys(Keys))
  <2>1. /\ d \in Nat /\ BuiltKeys \subseteq Keys /\ PlainKeys(Keys) \subseteq SUBSET Keys
        /\ Nested(V, SUBSET Keys) /\ BuiltFrom \subseteq V[0]
    BY DEF Ordinary, PlainKeys
  <2> QED BY <1>1, <2>1, EnvelopeNests
<1>3. PICK D \in PlainKeys(Keys) : e \in [D -> V[d + 4]]
  BY <1>2 DEF Over
<1>4. "document" \in DOMAIN e /\ e["document"] = Rfq(s)
  BY DEF BuildEnvelope
<1> HIDE DEF e
<1>5. D \in KE
  BY <1>3, <1>4 DEF PlainKeys
<1>6. e \in Over(V[d + 4], KE)
  BY <1>3, <1>5 DEF Over
<1> QED BY <1>1, <1>4, <1>6 DEF Arriving

(* The forms agree, and tell what was altered.                             *)
THEOREM FormsTellApart ==
  ASSUME NEW Keys, NEW V, NEW W, NEW d, Ordinary(Keys, V, W, d)
  PROVE  Spec => []FormsTell
<1>1. FormsTell
  <2>1. ASSUME NEW l \in Languages, NEW s \in Documents(l), NEW f,
               \/ \E m \in Alterations : f = Altered(JsonEnvelope(l, s), m[1], m[2])
               \/ \E m \in Rewritings :
                     m[1] # "signature" /\ f = Set(JsonEnvelope(l, s), m[1], m[2]),
               CanonicalEnvelope(Python, f) = CanonicalEnvelope(Python, JsonEnvelope(l, s))
        PROVE  f = JsonEnvelope(l, s)
    <3>1. JsonEnvelope(l, s) \in Arriving(Keys, V, d)
      BY ArrivingPosts
    <3>2. f \in Arriving(Keys, V, d)
      BY <2>1, <3>1, ArrivingClosed
    <3> QED BY <2>1, <3>1, <3>2, ArrivingInjective DEF Injective
  <2> QED BY <2>1, OrdinaryAgree DEF FormsTell
<1> QED BY <1>1, PTL

(* The same of the canonical form that the code computes: what was signed  *)
(* is accepted ...                                                         *)
THEOREM CanonicalIsAccepted ==
  ASSUME NEW Keys, NEW V, NEW W, NEW d, Ordinary(Keys, V, W, d)
  PROVE  Spec => []SignedVerifies
BY OrdinaryAgree, SignedIsAccepted

(* ... and nothing else is.                                                *)
THEOREM CanonicalIsAuthentic ==
  ASSUME NEW Keys, NEW V, NEW W, NEW d, Ordinary(Keys, V, W, d)
  PROVE  Spec => []Authentic
<1> DEFINE S == [n \in 0 .. MaxAlterations |-> Arriving(Keys, V, d)]
<1>1. Covers(S)
  BY ArrivingPosts, ArrivingClosed, BoundAssumption DEF Covers
<1>2. Injective(UNION {S[n] : n \in 0 .. MaxAlterations})
  <2>1. UNION {S[n] : n \in 0 .. MaxAlterations} \subseteq Arriving(Keys, V, d)
    OBVIOUS
  <2> QED BY <2>1, ArrivingInjective DEF Injective
<1> HIDE DEF S
<1> QED BY <1>1, <1>2, OrdinaryAgree, NothingElseIsAccepted

(* What TypeScript signs is refused, though nobody altered it, whenever    *)
(* the specifications of an item have a member named signature.            *)
THEOREM SignatureMembersRefused ==
  ASSUME NEW Keys, BuiltKeys \subseteq Keys,
         NEW W, Nested(W, SUBSET Keys), Composed(W), BuiltFrom \subseteq W[0],
         \A v \in W[0] : Scalar(v) \/ v \in Numbers({FALSE}),
         NEW d \in Nat, NEW s \in Over(W[d], SUBSET Keys), "signature" \in DOMAIN s, NEW by
  PROVE  Receive(TypeScript, by, Posting(TypeScript, s, s)) # Passed
<1> DEFINE e == BuildEnvelope(s)
           x == Posting(TypeScript, s, s)
<1>1. SUFFICES ASSUME Receive(TypeScript, by, x) = Passed PROVE FALSE
  OBVIOUS
<1>2. /\ d + 1 \in Nat /\ d + 2 \in Nat /\ d + 3 \in Nat /\ d + 4 \in Nat /\ d + 5 \in Nat
      /\ Object(s) \in W[d + 1] /\ Object(Item(s)) \in W[d + 2]
      /\ List(<<Object(Item(s))>>) \in W[d + 3] /\ Rfq(s) \in W[d + 4] /\ Object(e) \in W[d + 5]
  <2>1. PlainKeys(Keys) \subseteq SUBSET Keys
    BY DEF PlainKeys
  <2> QED BY <2>1, EnvelopeNests
<1>3. JsonEnvelope(TypeScript, s) = e
  <2>1. \A v \in W[0] : Scalar(v) \/ v \in Numbers(IF TypeScript = Python THEN BOOLEAN ELSE {FALSE})
    BY DEF Python, TypeScript
  <2>2. JsonOf(TypeScript, Object(e)) = Object(e)
    BY <1>2, <2>1, JsonKept
  <2> QED BY <2>2, Kinds DEF JsonEnvelope
<1>4. FormOf(Python, Object(e)) = FormOf(TypeScript, Object(e))
  <2>1. Get(x, "signature") = Signature(CanonicalEnvelope(TypeScript, e))
    BY DEF Posting, Put, Get, SignatureOf
  <2>2. VerifySignature(x) = Passed
    BY <1>1, AcceptedVerifies
  <2>3. Signed(CanonicalEnvelope(TypeScript, e)).over = CanonicalEnvelope(Python, x)
    BY <2>1, <2>2, SignaturesParse, Verified
  <2>4. Unsigned(x) = e /\ Unsigned(e) = e
    BY <1>3, Unposted DEF Posting
  <2> QED BY <2>3, <2>4 DEF Signed, CanonicalEnvelope, Unsigned
<1>5. ASSUME NEW l \in {Python, TypeScript}
      PROVE  /\ FormOf(l, Object(e)).members["document"] = FormOf(l, Rfq(s))
             /\ FormOf(l, Rfq(s)).members["items"] = FormOf(l, List(<<Object(Item(s))>>))
             /\ FormOf(l, List(<<Object(Item(s))>>)).elements[1] = FormOf(l, Object(Item(s)))
             /\ FormOf(l, Object(Item(s))).members["specifications"] = FormOf(l, Object(s))
             /\ DOMAIN FormOf(l, Object(s)).members = SignedKeys(l, DOMAIN s)
  <2>1. ASSUME NEW f, NEW n \in Nat, Object(f) \in W[n]
        PROVE  FormOf(l, Object(f)).members = [k \in SignedKeys(l, DOMAIN f) |-> FormOf(l, f[k])]
    <3>1. FormOf(l, Object(f)) = FormOnce(l, Object(f))
      BY <2>1 DEF Composed
    <3> QED BY <3>1, FormOfKind
  <2>2. \A D : D \ {"signature"} \subseteq SignedKeys(l, D)
    BY DEF SignedKeys
  <2>3. FormOf(l, Object(e)).members["document"] = FormOf(l, Rfq(s))
    <3>1. "document" \in DOMAIN e /\ e["document"] = Rfq(s)
      BY DEF BuildEnvelope
    <3> HIDE DEF e
    <3>2. FormOf(l, Object(e)).members = [k \in SignedKeys(l, DOMAIN e) |-> FormOf(l, e[k])]
      BY <1>2, <2>1
    <3>3. "document" \in SignedKeys(l, DOMAIN e)
      BY <2>2, <3>1
    <3> QED BY <3>1, <3>2, <3>3
  <2>4. FormOf(l, Rfq(s)).members["items"] = FormOf(l, List(<<Object(Item(s))>>))
    <3> DEFINE f == [currency |-> Code, deliveryLocation |-> Text(5), responseDeadline |-> Time(2),
                     items |-> List(<<Object(Item(s))>>)]
    <3>1. Rfq(s) = Object(f)
      BY DEF Rfq
    <3>2. "items" \in DOMAIN f /\ f["items"] = List(<<Object(Item(s))>>)
      OBVIOUS
    <3> HIDE DEF f
    <3>3. FormOf(l, Object(f)).members = [k \in SignedKeys(l, DOMAIN f) |-> FormOf(l, f[k])]
      BY <1>2, <2>1, <3>1
    <3>4. "items" \in SignedKeys(l, DOMAIN f)
      BY <2>2, <3>2
    <3> QED BY <3>1, <3>2, <3>3, <3>4
  <2>5. FormOf(l, List(<<Object(Item(s))>>)).elements[1] = FormOf(l, Object(Item(s)))
    <3> DEFINE q == <<Object(Item(s))>>
    <3>1. FormOf(l, List(q)) = FormOnce(l, List(q))
      BY <1>2 DEF Composed
    <3>2. 1 \in DOMAIN q /\ q[1] = Object(Item(s))
      OBVIOUS
    <3> HIDE DEF q
    <3>3. FormOf(l, List(q)).elements = [i \in DOMAIN q |-> FormOf(l, q[i])]
      BY <3>1, FormOfKind
    <3>4. FormOf(l, List(q)).elements[1] = FormOf(l, Object(Item(s)))
      BY <3>2, <3>3
    <3> QED BY <3>4 DEF q
  <2>6. FormOf(l, Object(Item(s))).members["specifications"] = FormOf(l, Object(s))
    <3>1. "specifications" \in DOMAIN Item(s) /\ Item(s)["specifications"] = Object(s)
      BY DEF Item
    <3>2. FormOf(l, Object(Item(s))).members =
             [k \in SignedKeys(l, DOMAIN Item(s)) |-> FormOf(l, Item(s)[k])]
      BY <1>2, <2>1
    <3>3. "specifications" \in SignedKeys(l, DOMAIN Item(s))
      BY <2>2, <3>1
    <3> QED BY <3>1, <3>2, <3>3
  <2>7. DOMAIN FormOf(l, Object(s)).members = SignedKeys(l, DOMAIN s)
    BY <1>2, <2>1
  <2> QED BY <2>3, <2>4, <2>5, <2>6, <2>7
<1> HIDE DEF e
<1>6. SignedKeys(Python, DOMAIN s) = SignedKeys(TypeScript, DOMAIN s)
  BY <1>4, <1>5
<1> QED BY <1>6 DEF SignedKeys, Python, TypeScript
=============================================================================
