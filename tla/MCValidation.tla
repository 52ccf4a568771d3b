---------------------------- MODULE MCValidation ----------------------------
(***************************************************************************)
(* Envelopes a peer may send, as edits of valid ones: any one field of the *)
(* envelope, of the document or of one of its lines may be missing,        *)
(* unknown, of another type or out of bounds, or several amounts and lines *)
(* may be others.                                                          *)
(***************************************************************************)
EXTENDS Validation, Schemas, Models, TLC

CONSTANTS
    Types,       \* document types that are edited
    Values,      \* values that are put into one field of any kind
    Prices,      \* values that are put into amounts, one after the other
    MaxEdits     \* bound on the number of edits of one envelope

(* What json.loads makes of arrays and fields, what is known of words and  *)
(* decimals; no value is looked at deeper than the checks of one look.     *)
Formed(v) == /\ v.type = "array" => v.items \in Seq({v.items[i] : i \in DOMAIN v.items})
             /\ Is(v, "word") => v = Word(v.word)
             /\ IsAmount(v) => v = Amount(v.coef, v.places) /\ v.coef \in Nat /\ v.places \in Nat
FormedIn(f) == \A k \in DOMAIN f : f[k] # Absent /\ Formed(f[k])
Inner(v)  == FormedIn(Fields(v)) /\ \A i \in DOMAIN Items(v) : FormedIn(Fields(Items(v)[i]))
Parsed(v) == Formed(v) /\ Inner(v) /\ \A k \in DOMAIN Fields(v) : Inner(Fields(v)[k])
ASSUME ValuesAssumption == \A v \in Values \cup Prices : Parsed(v)

VARIABLES
    envelope,    \* the fields of the envelope
    edits        \* how often it was edited
vars == <<envelope, edits>>
-----------------------------------------------------------------------------
SampleAmount ==
    [quantity |-> Amount(2, 0), unitPrice |-> Amount(25, 0), lineTotal |-> Amount(50, 0),
     total |-> Amount(50, 0), subtotal |-> Amount(48, 0), tax |-> Amount(2, 0),
     amount |-> Amount(2, 0), agreedAmount |-> Amount(2, 0),
     acceptedQuantity |-> Amount(2, 0), rejectedQuantity |-> Amount(0, 0)]
LooseReferences == {"acceptanceMessageId", "paymentIntentMessageId", "paymentResultMessageId",
                    "againstMessageId", "disputeMessageId"}

SampleField(k, kind, word) ==
    CASE k \in DOMAIN SampleAmount -> SampleAmount[k]
      [] k \in LooseReferences     -> MessageRef
      [] k = "approver"            -> Agent("buyer")
      [] k = "currency"            -> Code
      [] OTHER -> CASE kind.is \in {"any", "string"} -> Text(5)
                    [] kind.is = "time"    -> Time(2)
                    [] kind.is = "ref"     -> MessageRef
                    [] kind.is = "word"    -> Word(word)
                    [] kind.is = "boolean" -> Bool(word = "yes")
                    [] OTHER               -> Object(NoFields)

(* A row or a document, with its optional fields or without them.          *)
SampleFields(s, full, word) ==
    LET ks == DOMAIN s.required \cup IF full THEN DOMAIN s.optional ELSE {}
        Value(k) == LET kind == Properties(s)[k]
                    IN IF kind.is # "rows" THEN SampleField(k, kind, word)
                       ELSE LET rs == DOMAIN kind.required
                            IN List(<<Object([r \in rs |->
                                        SampleField(r, kind.required[r], word)])>>)
    IN [k \in ks |-> Value(k)]

Choices(type) ==
    LET s == Schema[type].required
        enums == {k \in DOMAIN s : s[k].is = "word"}
    IN IF enums = {} THEN {"yes", "no"} ELSE UNION {s[k].words : k \in enums}

Sample(type, full, word) ==
    LET e == [specVersion |-> Version, messageId |-> MessageRef, transactionId |-> Transaction,
              documentType |-> Word(type), sender |-> Agent("buyer"),
              recipient |-> Agent("seller"), createdAt |-> Time(1), expiresAt |-> Time(2),
              idempotencyKey |-> Text(5),
              document |-> Object(SampleFields(Schema[type], full, word))]
    IN IF type = "request_for_quote" THEN e ELSE Put(e, "inReplyTo", MessageRef)

Type     == envelope["documentType"].word
Document == envelope["document"].fields
Edit(e)  == envelope' = e

(* Absent removes the field.                                               *)
Set(f, k, v) == IF v = Absent THEN Drop(f, {k}) ELSE Put(f, k, v)

Init == /\ \E type \in Types, full \in BOOLEAN : \E word \in Choices(type) :
              envelope = Sample(type, full, word)
        /\ edits = 0

EditEnvelope(k, v) == Edit(Set(envelope, k, v))

(* The document is still an object of a known type.                        *)
Sound == /\ Get(envelope, "documentType") \in {Word(t) : t \in DocumentTypes}
         /\ Get(envelope, "document").type = "object"

EditDocument(k, v) ==
    Sound /\ Edit(Put(envelope, "document", Object(Set(Document, k, v))))

ListKeys == {k \in DOMAIN Document : Document[k].type = "array"}
Replace(k, i, line) ==
    Edit(Put(envelope, "document", Object(Put(Document, k, List([Document[k].items EXCEPT ![i] = line])))))

EditLine(k, v) ==
    /\ Sound
    /\ \E r \in ListKeys : \E i \in DOMAIN Document[r].items :
          /\ Document[r].items[i].type = "object"
          /\ Replace(r, i, Object(Set(Document[r].items[i].fields, k, v)))

(* A line that is not an object, and one more line, as the first one.      *)
BreakLine(v) == Sound /\ \E r \in ListKeys : \E i \in DOMAIN Document[r].items : Replace(r, i, v)
AddLine ==
    /\ Sound
    /\ \E r \in ListKeys :
        /\ Document[r].items # <<>>
        /\ Edit(Put(envelope, "document", Object(Put(Document, r,
                    List(Append(Document[r].items, Document[r].items[1]))))))

KeysOf(s)  == DOMAIN Properties(s) \cup {"unknown"}
LineKeys(type) ==
    LET rows == {k \in DOMAIN Schema[type].required : Schema[type].required[k].is = "rows"}
    IN UNION {KeysOf(Schema[type].required[k]) : k \in rows}

PricedTypes == {"quotation", "quotation_counteroffer", "purchase_order", "invoice", "credit_note"}

(* Any one field gets any value, and that is all.                          *)
AnyEdit ==
    \/ \E k \in EnvelopeFields \cup {"unknown"}, v \in Values : EditEnvelope(k, v)
    \/ Sound /\ \E k \in KeysOf(Schema[Type]), v \in Values : EditDocument(k, v)
    \/ Sound /\ \E k \in LineKeys(Type), v \in Values : EditLine(k, v)
    \/ \E v \in Values : BreakLine(v)

(* An amount of a priced document, or what tells its lines apart.          *)
MoneyFields == {"quantity", "unitPrice", "lineTotal", "total", "subtotal", "tax", "rfqLineId"}
MoneyEdit ==
    /\ Sound /\ Type \in PricedTypes
    /\ \/ \E k \in MoneyFields \cap KeysOf(Schema[Type]), v \in Prices : EditDocument(k, v)
       \/ \E k \in MoneyFields \cap LineKeys(Type), v \in Prices : EditLine(k, v)

Next == \/ edits = 0 /\ edits' = MaxEdits /\ AnyEdit
        \/ edits < MaxEdits /\ edits' = edits + 1 /\ (MoneyEdit \/ AddLine)

Spec == Init /\ [][Next]_vars
-----------------------------------------------------------------------------
Verdict  == ValidateEnvelope(Object(envelope))
Accepted == Verdict = Passed

(* Fields whose shape the validator does not check.                        *)
Loose ==
    [request_for_quote |-> {"deliveryLocation", "lineId", "sku", "description", "unit",
                            "specifications"},
     quotation |-> {"rfqLineId", "unit", "paymentTerms", "deliveryTerms"},
     quotation_counteroffer |-> {"rfqLineId", "unit", "paymentTerms", "deliveryTerms"},
     shipment_notice |-> {"carrier", "trackingReference"},
     goods_receipt |-> {"note"},
     approval_evidence |-> {"reason"},
     order_acknowledgement |-> {"expectedDeliveryAt"},
     payment_result |-> {"failureReason"},
     settlement_confirmation |-> {"reason"},
     dispute_resolved |-> {"note"}]
Unchecked(type) == IF type \in DOMAIN Loose THEN Loose[type] ELSE {}

(* The envelope without the nulls that the validator reads as an absent    *)
(* inReplyTo, acn.network or reservationEvidence.                          *)
WithoutNulls(f) == Drop(f, {k \in DOMAIN f : f[k] = Null})
NullsRead(e) ==
    LET x == Fields(Get(e, "extensions"))
        n == Get(x, "acn.network")
        network == IF n.type = "object" THEN Object(WithoutNulls(n.fields)) ELSE n
    IN [k \in DOMAIN e \ {j \in {"inReplyTo"} : Get(e, j) = Null} |->
          IF k = "extensions" /\ n = Null THEN Object(Drop(x, {"acn.network"}))
          ELSE IF k = "extensions" /\ n # Absent THEN Object(Put(x, "acn.network", network))
          ELSE e[k]]

(* Valid to the library means valid to the schemas, but for the fields     *)
(* above, those nulls and the signature.                                   *)
AcceptedFitsSchema ==
    Accepted => /\ DocumentFaults(Type, Document) \subseteq Unchecked(Type)
                /\ FieldFaults(EnvelopeSchema, NullsRead(envelope)) \subseteq {"signature"}

(* The field of a document that is looked up in a set of words, and the    *)
(* lines whose references are, before anything is known of their type; the *)
(* documents with these lines match the pattern of currency as early.      *)
LookedUp ==
    [fulfillment_status |-> "status", approval_evidence |-> "decision",
     payment_result |-> "status", settlement_confirmation |-> "status",
     dispute_opened |-> "category", dispute_resolved |-> "resolution"]
EarlyRefs ==
    [request_for_quote |-> [list |-> "items", ref |-> "lineId"],
     quotation |-> [list |-> "lines", ref |-> "rfqLineId"],
     quotation_counteroffer |-> [list |-> "lines", ref |-> "rfqLineId"]]

Expected(type, d) ==
    /\ type \in DOMAIN LookedUp => Hashable(Get(d, LookedUp[type]))
    /\ type \in DOMAIN EarlyRefs =>
         /\ Has(d, "currency") => IsString(d["currency"])
         /\ LET ls == Lines(d, EarlyRefs[type].list)
            IN \A i \in DOMAIN ls : Hashable(Get(ls[i], EarlyRefs[type].ref))

(* No product, sum or running total of the document overflows.             *)
Product(f)   == Computed(<<Get(f, "quantity"), Get(f, "unitPrice")>>,
                         Times(Get(f, "quantity"), Get(f, "unitPrice")))
Sum(f, j, k) == Computed(<<Get(f, j), Get(f, k)>>, Plus(Get(f, j), Get(f, k)))
InRange(d) ==
    LET ls == Lines(d, "lines")
    IN /\ Sum(d, "subtotal", "tax") = Passed
       /\ \A i \in DOMAIN ls : /\ Product(ls[i]) = Passed /\ Added(ls, i) = Passed
                               /\ Sum(ls[i], "acceptedQuantity", "rejectedQuantity") = Passed

Categories ==
    Items(Get(Fields(Get(Fields(Get(envelope, "extensions")), "acn.network")),
              "productCategories"))
Handled ==
    /\ Hashable(Get(envelope, "documentType"))
    /\ \A i \in DOMAIN Categories : Hashable(Categories[i])
    /\ Sound => Expected(Type, Document) /\ InRange(Document)

(* "rejects every invalid envelope ... with self.assertRaises              *)
(* (ContractError)": whatever is missing, unknown, of another JSON type,   *)
(* empty, too long or out of range, and however fields disagree, no other  *)
(* error is raised, but for arrays and objects in the places that are      *)
(* looked up, a currency that is no string and amounts that overflow.      *)
OnlyContractErrors == Handled => Verdict # Crashed

(* "Totals MUST be exact": an accepted total is the sum of the products    *)
(* of the quantities and unit prices themselves, if those need no more     *)
(* digits than the Decimal context keeps.                                  *)
LineProducts(d) ==
    [i \in 1 .. Len(Lines(d, "lines")) |->
        ExactProduct(Lines(d, "lines")[i]["quantity"], Lines(d, "lines")[i]["unitPrice"])]
InContext(amounts) == \A x \in amounts : Digits(x.coef) <= Precision
TotalsExact ==
    Accepted =>
        /\ {"lines", "total"} \subseteq DOMAIN Document =>
             LET products == LineProducts(Document)
                 sum      == ExactTotal(products)
             IN InContext({products[i] : i \in DOMAIN products} \cup {sum})
                  => Same(Document["total"], sum)
        /\ {"subtotal", "tax", "total"} \subseteq DOMAIN Document =>
             LET sum == ExactSum(Document["subtotal"], Document["tax"])
             IN InContext({sum}) => Same(Document["total"], sum)

(* What is accepted goes back to the wire as something that is accepted,   *)
(* and going back once more changes nothing.                               *)
WireStable ==
    Accepted => /\ ValidateEnvelope(Object(ToWire(envelope))) = Passed
                /\ ToWire(ToWire(envelope)) = ToWire(envelope)
-----------------------------------------------------------------------------
AllTypes == DocumentTypes

Texts == {Text(n) : n \in {0, 5, 33, 129, 256, 501, 1001}}
Odd   == {Absent, Null, Number, Bool(TRUE), Bool(FALSE), List(<<>>), Object(NoFields),
          List(<<Object(NoFields)>>)}
Forms == {MessageRef, Transaction, Code, Agent("buyer"), Word("other"), Word("rejected"),
          Time(0), Time(1), Time(3), TimeAs(2, "millis"), LocalTime}
SomeAmounts == {Amount(0, 0), Amount(200, 2), Amount(2000, 3), Amount(1, 0), Amount(99, 0)}
Networks ==
    LET evidence == [reservationId |-> Text(5), quotationMessageId |-> MessageRef,
                     provider |-> Text(5), expiresAt |-> Time(2), evidenceHash |-> Key("hash")]
        Cats(s) == "productCategories" :> List(s)
        Proof(e) == "reservationEvidence" :> e
    IN {Cats(<<Key("category")>>), Cats(<<Key("category"), Key("category")>>),
        Cats(<<Text(5)>>), Cats(<<List(<<>>)>>), "productCategories" :> Null,
        Proof(Object(evidence)), Proof(Null), Proof(Number), "unknown" :> Null}
       \cup {Proof(Object(Drop(evidence, {k}))) : k \in Evidence}
       \cup {Proof(Object(Put(evidence, k, Text(0)))) : k \in Evidence}
       \cup {Proof(Object(Put(evidence, k, Number))) : k \in Evidence}
Extensions == {Object(k :> v) : k \in {"vendor.x", "unnamespaced"}, v \in {Null, Number}}
              \cup {Object("acn.network" :> Object(n)) : n \in Networks}
              \cup {Object("acn.network" :> Null)}
Signatures == {Object([keyId |-> k, algorithm |-> Key("Ed25519"), createdAt |-> Time(2),
                       value |-> String("signature", 86)]) : k \in {Key("key id"), Text(5)}}
AllValues == Texts \cup Odd \cup Forms \cup SomeAmounts \cup Extensions \cup Signatures

ShortAmounts == {Amount(0, 0), Amount(1, 0), Amount(2, 0), Amount(10, 0), Amount(50, 0),
                 Amount(52, 0), Amount(25, 1), Amount(225, 2), Amount(502, 1), Text(6)}
=============================================================================
