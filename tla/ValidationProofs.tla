--------------------------- MODULE ValidationProofs ---------------------------
(***************************************************************************)
(* validate_envelope against the published schemas: what it accepts they   *)
(* describe, what it rejects it rejects with ContractError, what it        *)
(* accepts survives the way to the wire and back, and has exact totals.    *)
(***************************************************************************)
EXTENDS MCValidation, CheckProofs

(* What a check of one value makes sure of, in the schemas' terms.         *)
LEMMA Kinds ==
  /\ \A v, lo, hi : Length(v, lo, hi) => FitsField(Str(lo, hi), v)
  /\ \A v : IsString(v) => FitsField(Instant, v)
  /\ \A v : IsString(v) => FitsField(AnyString, v)
  /\ \A v : Is(v, "message") => FitsField(Ref, v)
  /\ \A v : Is(v, "currency") => FitsField(MoneyCode, v)
  /\ \A v, p : IsAmount(v) /\ v.places <= p => FitsField(Dec(p), v)
  /\ \A v, w : Is(v, "word") /\ v.word \in w => FitsField(OneOf(w), v)
  /\ \A v : v.type = "boolean" => FitsField(Flag, v)
  /\ \A v : v.type = "object" => FitsField(AnyObject, v)
<1>1. \A v, lo, hi : Length(v, lo, hi) => FitsField(Str(lo, hi), v)
  BY DEF FitsField, Str
<1>2. \A v : IsString(v) => FitsField(Instant, v)
  BY DEF FitsField, Instant
<1>3. \A v : IsString(v) => FitsField(AnyString, v)
  BY DEF FitsField, AnyString
<1>4. \A v : Is(v, "message") => FitsField(Ref, v)
  BY DEF FitsField, Ref
<1>5. \A v : Is(v, "currency") => FitsField(MoneyCode, v)
  BY DEF FitsField, MoneyCode
<1>6. \A v, p : IsAmount(v) /\ v.places <= p => FitsField(Dec(p), v)
  BY DEF FitsField, Dec
<1>7. \A v, w : Is(v, "word") /\ v.word \in w => FitsField(OneOf(w), v)
  BY DEF FitsField, OneOf
<1>8. \A v : v.type = "boolean" => FitsField(Flag, v)
  BY DEF FitsField, Flag
<1>9. \A v : v.type = "object" => FitsField(AnyObject, v)
  BY DEF FitsField, AnyObject
<1> QED BY <1>1, <1>2, <1>3, <1>4, <1>5, <1>6, <1>7, <1>8, <1>9

(* What a check of one field makes sure of, in the schemas' terms.         *)
LEMMA CheckFits ==
  ASSUME NEW d, NEW k
  PROVE /\ \A n : Nonempty(d, k, n) = Passed
              => k \in DOMAIN d /\ FitsField(Name(n), d[k]) /\ FitsField(Str(0, n), d[k])
                 /\ FitsField(AnyString, d[k])
        /\ \A n : OptionalText(d, k, n) = Passed /\ k \in DOMAIN d
              => FitsField(Name(n), d[k]) /\ FitsField(Str(0, n), d[k])
                 /\ FitsField(AnyString, d[k])
        /\ Reference(d, k) = Passed => FitsField(Ref, d[k]) /\ FitsField(AnyString, d[k])
        /\ Timestamp(d, k) = Passed => FitsField(Instant, d[k])
        /\ \A t : After(d, k, t) = Passed => FitsField(Instant, d[k])
        /\ \A p : Decimal(d, k, p) = Passed
              => FitsField(Dec(p), d[k]) /\ FitsField(AnyString, d[k])
        /\ \A p : Positive(d, k, p) = Passed
              => FitsField(Dec(p), d[k]) /\ FitsField(AnyString, d[k])
        /\ Currency(d) = Passed
              => FitsField(MoneyCode, d["currency"])
                 /\ FitsField(AnyString, d["currency"])
        /\ \A w : In(Get(d, k), w) = Passed => FitsField(OneOf(w), d[k])
        /\ Require(Get(d, k).type = "boolean") = Passed => FitsField(Flag, d[k])
        /\ Require(Is(Get(d, k), "agent")) = Passed => FitsField(AnyString, d[k])
        /\ RejectionReason(d) = Passed /\ "rejectionReason" \in DOMAIN d
             => FitsField(Name(500), d["rejectionReason"])
        /\ Match(Get(d, k), "currency") = Passed => FitsField(MoneyCode, d[k])
        /\ LinesTotal(d) = Passed
              => FitsField(Dec(2), d["total"]) /\ FitsField(AnyString, d["total"])
        /\ \A ks : Known(d, ks) = Passed => DOMAIN d \subseteq ks
        /\ \A ks : Given(d, ks) = Passed => ks \subseteq DOMAIN d
        /\ \A r, o : ExactFields(d, r, o) = Passed
              => r \subseteq DOMAIN d /\ DOMAIN d \subseteq r \cup o
<1> USE DEF Require, Passed, Refused, Crashed, Get, Absent, Is, IsString
<1>1. \A n : Nonempty(d, k, n) = Passed
         => k \in DOMAIN d /\ FitsField(Name(n), d[k]) /\ FitsField(Str(0, n), d[k])
            /\ FitsField(AnyString, d[k])
  BY Kinds DEF Nonempty, Length, Name
<1>2. \A n : OptionalText(d, k, n) = Passed /\ k \in DOMAIN d
         => FitsField(Name(n), d[k]) /\ FitsField(Str(0, n), d[k])
            /\ FitsField(AnyString, d[k])
  BY <1>1 DEF OptionalText, Has
<1>3. Reference(d, k) = Passed => FitsField(Ref, d[k]) /\ FitsField(AnyString, d[k])
  BY Kinds DEF Reference
<1>4. Timestamp(d, k) = Passed => FitsField(Instant, d[k])
  BY Kinds DEF Timestamp
<1>5. \A t : After(d, k, t) = Passed => FitsField(Instant, d[k])
  BY Kinds DEF After
<1>6. \A p : Decimal(d, k, p) = Passed
         => FitsField(Dec(p), d[k]) /\ FitsField(AnyString, d[k])
  BY Kinds DEF Decimal, IsAmount
<1>7. \A p : Positive(d, k, p) = Passed
         => FitsField(Dec(p), d[k]) /\ FitsField(AnyString, d[k])
  BY Kinds DEF Positive, IsAmount
<1>8. Currency(d) = Passed
         => FitsField(MoneyCode, d["currency"]) /\ FitsField(AnyString, d["currency"])
  BY Kinds DEF Currency
<1>9. \A w : In(Get(d, k), w) = Passed => FitsField(OneOf(w), d[k])
  BY Kinds DEF In
<1>10. Require(Get(d, k).type = "boolean") = Passed => FitsField(Flag, d[k])
  BY Kinds
<1>11. Require(Is(Get(d, k), "agent")) = Passed => FitsField(AnyString, d[k])
  BY Kinds
<1>12. \A r, o : ExactFields(d, r, o) = Passed
          => r \subseteq DOMAIN d /\ DOMAIN d \subseteq r \cup o
  BY DEF ExactFields
<1>13. RejectionReason(d) = Passed /\ "rejectionReason" \in DOMAIN d
         => FitsField(Name(500), d["rejectionReason"])
  <2>1. RejectionReason(d) = Passed /\ Has(d, "rejectionReason")
        => Nonempty(d, "rejectionReason", 500) = Passed
    BY DEF RejectionReason, Require, Passed, Refused
  <2>2. Nonempty(d, "rejectionReason", 500) = Passed /\ Has(d, "rejectionReason")
        => Length(d["rejectionReason"], 1, 500)
    BY DEF Nonempty, Get, Has, Require, Passed, Refused
  <2> QED BY <2>1, <2>2, Kinds DEF Has, Name
<1>14. \A ks : Known(d, ks) = Passed => DOMAIN d \subseteq ks
  BY DEF Known
<1>15. \A ks : Given(d, ks) = Passed => ks \subseteq DOMAIN d
  BY DEF Given, Truthy
<1>16. Match(Get(d, k), "currency") = Passed => FitsField(MoneyCode, d[k])
  BY Kinds DEF Match
<1>17. LinesTotal(d) = Passed
          => FitsField(Dec(2), d["total"]) /\ FitsField(AnyString, d["total"])
  BY First2, Kinds DEF LinesTotal, Decimal, IsAmount
<1> QED BY <1>1, <1>2, <1>3, <1>4, <1>5, <1>6, <1>7, <1>8, <1>9, <1>10, <1>11, <1>12,
           <1>13, <1>14, <1>15, <1>16, <1>17

(* The fields of a line are those of the object in the list.               *)
LEMMA LinesAre ==
  ASSUME NEW d, NEW k, Formed(Get(d, k))
  PROVE LET n == Len(Items(Get(d, k)))
        IN /\ n \in Nat /\ DOMAIN Items(Get(d, k)) = 1 .. n
           /\ Len(Lines(d, k)) = n /\ DOMAIN Lines(d, k) = 1 .. n
           /\ \A i \in 1 .. n : Lines(d, k)[i] = Fields(Items(Get(d, k))[i])
BY DEF Formed, Lines, Items
-----------------------------------------------------------------------------
(* What the fields of d, but for those in U, are to the schema s.          *)
Fits(s, d, U) ==
    /\ DOMAIN s.required \subseteq DOMAIN d
    /\ DOMAIN d \subseteq DOMAIN s.required \cup DOMAIN s.optional
    /\ \A k \in DOMAIN s.required :
          k \in U \/ s.required[k].is = "rows" \/ FitsField(s.required[k], d[k])
    /\ \A k \in DOMAIN s.optional : k \in DOMAIN d =>
          k \in U \/ k \in DOMAIN s.required \/ FitsField(s.optional[k], d[k])

LEMMA FieldsFit ==
  ASSUME NEW s, NEW d, NEW U, Fits(s, d, U)
  PROVE  FieldFaults(s, d) \subseteq U
BY DEF Fits, FieldFaults, Properties

LEMMA DocumentFits ==
  ASSUME NEW type, NEW s, NEW d, NEW U, s = Schema[type], Fits(s, d, U),
         \A k \in DOMAIN s.required :
            s.required[k].is = "rows" => RowFaults(s.required[k], d[k]) \subseteq U
  PROVE  DocumentFaults(type, d) \subseteq U
<1>1. FieldFaults(s, d) \subseteq U
  BY FieldsFit
<1> QED BY <1>1 DEF DocumentFaults

LEMMA NotRows ==
  /\ \A n : Name(n).is # "rows"
  /\ \A w : OneOf(w).is # "rows"
  /\ \A p : Dec(p).is # "rows"
  /\ Instant.is # "rows" /\ AnyString.is # "rows" /\ Ref.is # "rows"
  /\ MoneyCode.is # "rows" /\ Flag.is # "rows"
BY DEF Name, Str, OneOf, Dec, Instant, AnyString, Ref, MoneyCode, Flag

LEMMA SchemaOf ==
  /\ Schema["transaction_cancellation"] = TransactionCancellationSchema
  /\ Schema["order_cancellation_request"] = OrderCancellationRequestSchema
  /\ Schema["order_cancellation_response"] = OrderCancellationResponseSchema
  /\ Schema["quotation_acceptance"] = QuotationAcceptanceSchema
  /\ Schema["order_acknowledgement"] = OrderAcknowledgementSchema
  /\ Schema["fulfillment_status"] = FulfillmentStatusSchema
  /\ Schema["invoice"] = InvoiceSchema
  /\ Schema["payment_intent"] = PaymentIntentSchema
  /\ Schema["approval_evidence"] = ApprovalEvidenceSchema
  /\ Schema["payment_result"] = PaymentResultSchema
  /\ Schema["settlement_confirmation"] = SettlementConfirmationSchema
  /\ Schema["dispute_opened"] = DisputeOpenedSchema
  /\ Schema["dispute_resolved"] = DisputeResolvedSchema
  /\ Schema["credit_note"] = CreditNoteSchema
BY DEF Schema

(* The documents without lines: what the validator passes fits the schema. *)
LEMMA TransactionCancellationFits ==
  ASSUME NEW d, ValidateTransactionCancellation(d) = Passed
  PROVE  DocumentFaults("transaction_cancellation", d)
            \subseteq Unchecked("transaction_cancellation")
<1>1. Fits(TransactionCancellationSchema, d, Unchecked("transaction_cancellation"))
  BY First4, CheckFits DEF ValidateTransactionCancellation, TransactionCancellationSchema,
     Fits, Doc, Unchecked, Loose
<1>2. \A k \in DOMAIN TransactionCancellationSchema.required :
         TransactionCancellationSchema.required[k].is # "rows"
  BY NotRows DEF TransactionCancellationSchema, Doc
<1> QED BY <1>1, <1>2, SchemaOf, DocumentFits

LEMMA OrderCancellationRequestFits ==
  ASSUME NEW d, ValidateOrderCancellationRequest(d) = Passed
  PROVE  DocumentFaults("order_cancellation_request", d)
            \subseteq Unchecked("order_cancellation_request")
<1>1. Fits(OrderCancellationRequestSchema, d, Unchecked("order_cancellation_request"))
  BY First5, CheckFits DEF ValidateOrderCancellationRequest,
     OrderCancellationRequestSchema, Fits, Doc, Unchecked, Loose
<1>2. \A k \in DOMAIN OrderCancellationRequestSchema.required :
         OrderCancellationRequestSchema.required[k].is # "rows"
  BY NotRows DEF OrderCancellationRequestSchema, Doc
<1> QED BY <1>1, <1>2, SchemaOf, DocumentFits

LEMMA OrderCancellationResponseFits ==
  ASSUME NEW d, ValidateOrderCancellationResponse(d) = Passed
  PROVE  DocumentFaults("order_cancellation_response", d)
            \subseteq Unchecked("order_cancellation_response")
<1>1. Fits(OrderCancellationResponseSchema, d, Unchecked("order_cancellation_response"))
  BY First6, CheckFits DEF ValidateOrderCancellationResponse,
     OrderCancellationResponseSchema, Fits, Doc, Unchecked, Loose
<1>2. \A k \in DOMAIN OrderCancellationResponseSchema.required :
         OrderCancellationResponseSchema.required[k].is # "rows"
  BY NotRows DEF OrderCancellationResponseSchema, Doc
<1> QED BY <1>1, <1>2, SchemaOf, DocumentFits

LEMMA AcceptanceFits ==
  ASSUME NEW d, ValidateAcceptance(d) = Passed
  PROVE  DocumentFaults("quotation_acceptance", d)
            \subseteq Unchecked("quotation_acceptance")
<1>1. Fits(QuotationAcceptanceSchema, d, Unchecked("quotation_acceptance"))
  BY First2, CheckFits DEF ValidateAcceptance, QuotationAcceptanceSchema, Fits, Doc,
     Unchecked, Loose
<1>2. \A k \in DOMAIN QuotationAcceptanceSchema.required :
         QuotationAcceptanceSchema.required[k].is # "rows"
  BY NotRows DEF QuotationAcceptanceSchema, Doc
<1> QED BY <1>1, <1>2, SchemaOf, DocumentFits

LEMMA OrderAcknowledgementFits ==
  ASSUME NEW d, NEW created, ValidateOrderAcknowledgement(d, created) = Passed
  PROVE  DocumentFaults("order_acknowledgement", d)
            \subseteq Unchecked("order_acknowledgement")
<1>1. Fits(OrderAcknowledgementSchema, d, Unchecked("order_acknowledgement"))
  BY First6, CheckFits DEF ValidateOrderAcknowledgement, OrderAcknowledgementSchema, Fits,
     Doc, Unchecked, Loose
<1>2. \A k \in DOMAIN OrderAcknowledgementSchema.required :
         OrderAcknowledgementSchema.required[k].is # "rows"
  BY NotRows DEF OrderAcknowledgementSchema, Doc
<1> QED BY <1>1, <1>2, SchemaOf, DocumentFits

LEMMA FulfillmentFits ==
  ASSUME NEW d, ValidateFulfillment(d) = Passed
  PROVE  DocumentFaults("fulfillment_status", d) \subseteq Unchecked("fulfillment_status")
<1>1. Fits(FulfillmentStatusSchema, d, Unchecked("fulfillment_status"))
  BY First7, CheckFits DEF ValidateFulfillment, FulfillmentStatusSchema, Fits, Doc,
     Unchecked, Loose
<1>2. \A k \in DOMAIN FulfillmentStatusSchema.required :
         FulfillmentStatusSchema.required[k].is # "rows"
  BY NotRows DEF FulfillmentStatusSchema, Doc
<1> QED BY <1>1, <1>2, SchemaOf, DocumentFits

LEMMA InvoiceFits ==
  ASSUME NEW d, NEW created, ValidateInvoice(d, created) = Passed
  PROVE  DocumentFaults("invoice", d) \subseteq Unchecked("invoice")
<1>1. Fits(InvoiceSchema, d, Unchecked("invoice"))
  BY First9, CheckFits DEF ValidateInvoice, InvoiceSchema, Fits, Doc, Unchecked, Loose
<1>2. \A k \in DOMAIN InvoiceSchema.required : InvoiceSchema.required[k].is # "rows"
  BY NotRows DEF InvoiceSchema, Doc
<1> QED BY <1>1, <1>2, SchemaOf, DocumentFits

LEMMA PaymentIntentFits ==
  ASSUME NEW d, ValidatePaymentIntent(d) = Passed
  PROVE  DocumentFaults("payment_intent", d) \subseteq Unchecked("payment_intent")
<1>1. Fits(PaymentIntentSchema, d, Unchecked("payment_intent"))
  BY First7, CheckFits DEF ValidatePaymentIntent, PaymentIntentSchema, Fits, Doc,
     Unchecked, Loose
<1>2. \A k \in DOMAIN PaymentIntentSchema.required :
         PaymentIntentSchema.required[k].is # "rows"
  BY NotRows DEF PaymentIntentSchema, Doc
<1> QED BY <1>1, <1>2, SchemaOf, DocumentFits

LEMMA ApprovalEvidenceFits ==
  ASSUME NEW d, ValidateApprovalEvidence(d) = Passed
  PROVE  DocumentFaults("approval_evidence", d) \subseteq Unchecked("approval_evidence")
<1>1. Fits(ApprovalEvidenceSchema, d, Unchecked("approval_evidence"))
  BY First8, CheckFits DEF ValidateApprovalEvidence, ApprovalEvidenceSchema, Fits, Doc,
     Unchecked, Loose
<1>2. \A k \in DOMAIN ApprovalEvidenceSchema.required :
         ApprovalEvidenceSchema.required[k].is # "rows"
  BY NotRows DEF ApprovalEvidenceSchema, Doc
<1> QED BY <1>1, <1>2, SchemaOf, DocumentFits

LEMMA PaymentResultFits ==
  ASSUME NEW d, ValidatePaymentResult(d) = Passed
  PROVE  DocumentFaults("payment_result", d) \subseteq Unchecked("payment_result")
<1>1. Fits(PaymentResultSchema, d, Unchecked("payment_result"))
  BY First9, CheckFits DEF ValidatePaymentResult, PaymentResultSchema, Fits, Doc,
     Unchecked, Loose
<1>2. \A k \in DOMAIN PaymentResultSchema.required :
         PaymentResultSchema.required[k].is # "rows"
  BY NotRows DEF PaymentResultSchema, Doc
<1> QED BY <1>1, <1>2, SchemaOf, DocumentFits

LEMMA SettlementFits ==
  ASSUME NEW d, ValidateSettlement(d) = Passed
  PROVE  DocumentFaults("settlement_confirmation", d)
            \subseteq Unchecked("settlement_confirmation")
<1>1. Fits(SettlementConfirmationSchema, d, Unchecked("settlement_confirmation"))
  BY First8, CheckFits DEF ValidateSettlement, SettlementConfirmationSchema, Fits, Doc,
     Unchecked, Loose
<1>2. \A k \in DOMAIN SettlementConfirmationSchema.required :
         SettlementConfirmationSchema.required[k].is # "rows"
  BY NotRows DEF SettlementConfirmationSchema, Doc
<1> QED BY <1>1, <1>2, SchemaOf, DocumentFits

LEMMA DisputeOpenedFits ==
  ASSUME NEW d, ValidateDisputeOpened(d) = Passed
  PROVE  DocumentFaults("dispute_opened", d) \subseteq Unchecked("dispute_opened")
<1>1. Fits(DisputeOpenedSchema, d, Unchecked("dispute_opened"))
  BY First6, CheckFits, First3 DEF ValidateDisputeOpened, DisputeOpenedSchema, Fits, Doc,
     Unchecked, Loose, OptionalMoney
<1>2. \A k \in DOMAIN DisputeOpenedSchema.required :
         DisputeOpenedSchema.required[k].is # "rows"
  BY NotRows DEF DisputeOpenedSchema, Doc
<1> QED BY <1>1, <1>2, SchemaOf, DocumentFits

LEMMA DisputeResolvedFits ==
  ASSUME NEW d, ValidateDisputeResolved(d) = Passed
  PROVE  DocumentFaults("dispute_resolved", d) \subseteq Unchecked("dispute_resolved")
<1>1. Fits(DisputeResolvedSchema, d, Unchecked("dispute_resolved"))
  BY First6, CheckFits, First3 DEF ValidateDisputeResolved, DisputeResolvedSchema, Fits,
     Doc, Unchecked, Loose, OptionalMoney
<1>2. \A k \in DOMAIN DisputeResolvedSchema.required :
         DisputeResolvedSchema.required[k].is # "rows"
  BY NotRows DEF DisputeResolvedSchema, Doc
<1> QED BY <1>1, <1>2, SchemaOf, DocumentFits

LEMMA CreditNoteFits ==
  ASSUME NEW d, ValidateCreditNote(d) = Passed
  PROVE  DocumentFaults("credit_note", d) \subseteq Unchecked("credit_note")
<1>1. Fits(CreditNoteSchema, d, Unchecked("credit_note"))
  BY First11, CheckFits DEF ValidateCreditNote, CreditNoteSchema, Fits, Doc, Unchecked,
     Loose
<1>2. \A k \in DOMAIN CreditNoteSchema.required : CreditNoteSchema.required[k].is # "rows"
  BY NotRows DEF CreditNoteSchema, Doc
<1> QED BY <1>1, <1>2, SchemaOf, DocumentFits
-----------------------------------------------------------------------------
(* The checks of each line pass when the list passes.                      *)
LEMMA LinesPass ==
  ASSUME NEW d, NEW k, Formed(Get(d, k))
  PROVE  /\ \A rows : DOMAIN rows = 1 .. Len(Lines(d, k)) =>
               /\ First(rows) = Passed
                     <=> \A i \in 1 .. Len(Items(Get(d, k))) : rows[i] = Passed
               /\ First(rows) = Crashed
                     => \E i \in 1 .. Len(Items(Get(d, k))) : rows[i] = Crashed
         /\ \A i \in 1 .. Len(Items(Get(d, k))) :
               Lines(d, k)[i] = Fields(Items(Get(d, k))[i])
BY LinesAre, FirstPassed, FirstCrashed

LEMMA RowsFit ==
  ASSUME NEW d, NEW k, NEW kind, NEW U, Formed(Get(d, k)), LineList(d, k) = Passed,
         \A i \in 1 .. Len(Items(Get(d, k))) :
            /\ Items(Get(d, k))[i].type = "object"
            /\ Fits(kind, Lines(d, k)[i], U)
  PROVE  k \in DOMAIN d /\ RowFaults(kind, d[k]) \subseteq U
<1> DEFINE v == Get(d, k)
<1>1. v.type = "array" /\ Len(v.items) \in 1 .. MaxLines /\ Items(v) = v.items
  BY DEF LineList, Require, Passed, Refused, Items
<1>2. k \in DOMAIN d /\ v = d[k]
  BY <1>1 DEF Get, Absent
<1>3. DOMAIN v.items = 1 .. Len(v.items)
  BY <1>1 DEF Formed
<1>4. \A i \in DOMAIN v.items :
         v.items[i].type = "object" /\ FieldFaults(kind, v.items[i].fields) \subseteq U
  BY <1>1, <1>3, FieldsFit, LinesPass DEF Fields
<1> QED BY <1>1, <1>2, <1>4 DEF RowFaults

(* A line of each kind that passes fits the schema of the rows.            *)
LEMMA RfqItemFits ==
  ASSUME NEW d, NEW i, RfqItem(d, i) = Passed
  PROVE  /\ Items(Get(d, "items"))[i].type = "object"
         /\ Fits(RequestForQuoteSchema.required["items"], Lines(d, "items")[i],
                 Unchecked("request_for_quote"))
<1> DEFINE line == Lines(d, "items")[i]
<1>1. /\ IsLine(d, "items", i) = Passed
      /\ Known(line, {"lineId", "sku", "description", "quantity", "unit",
                      "specifications"}) = Passed
      /\ Given(line, {"lineId", "description", "quantity", "unit"}) = Passed
      /\ Positive(line, "quantity", 6) = Passed
  BY First5 DEF RfqItem
<1>2. Items(Get(d, "items"))[i].type = "object"
  BY <1>1 DEF IsLine, Require, Passed, Refused
<1> HIDE DEF line
<1> DEFINE kind == RequestForQuoteSchema.required["items"]
<1>3. /\ DOMAIN kind.required = {"lineId", "description", "quantity", "unit"}
      /\ DOMAIN kind.optional = {"sku", "specifications"}
      /\ kind.required["quantity"] = Dec(6)
  BY DEF RequestForQuoteSchema, Doc, Rows
<1>4. DOMAIN line \subseteq {"lineId", "sku", "description", "quantity", "unit",
                             "specifications"}
  BY <1>1 DEF Known, Require, Passed, Refused
<1>5. {"lineId", "description", "quantity", "unit"} \subseteq DOMAIN line
  BY <1>1, Zenon DEF Given, Get, Truthy, Require, Passed, Refused
<1>6. FitsField(Dec(6), line["quantity"])
  BY <1>1, CheckFits
<1> HIDE DEF kind
<1>7. Fits(kind, line, Unchecked("request_for_quote"))
  BY <1>3, <1>4, <1>5, <1>6 DEF Fits, Unchecked, Loose
<1> QED BY <1>2, <1>7 DEF line, kind

LEMMA QuotationLineFits ==
  ASSUME NEW d, NEW i, QuotationLine(d, i) = Passed
  PROVE  /\ Items(Get(d, "lines"))[i].type = "object"
         /\ Fits(Priced(FALSE), Lines(d, "lines")[i], {"rfqLineId", "unit"})
<1> DEFINE line == Lines(d, "lines")[i]
<1>1. /\ IsLine(d, "lines", i) = Passed
      /\ Known(line, PricedFields) = Passed
      /\ Given(line, PricedFields) = Passed
      /\ Positive(line, "quantity", 6) = Passed
      /\ Decimal(line, "unitPrice", 6) = Passed
      /\ Decimal(line, "lineTotal", 2) = Passed
  BY First6, First5 DEF QuotationLine, LineAmounts
<1>2. Items(Get(d, "lines"))[i].type = "object"
  BY <1>1 DEF IsLine, Require, Passed, Refused
<1> HIDE DEF line
<1>3. DOMAIN line = PricedFields
  BY <1>1 DEF Known, Given, Get, Truthy, PricedFields, Require, Passed, Refused
<1>4. Fits(Priced(FALSE), line, {"rfqLineId", "unit"})
  BY <1>1, <1>3, CheckFits DEF Fits, Priced, PricedFields, Rows, NoFields
<1> QED BY <1>2, <1>4 DEF line

LEMMA OrderLineFits ==
  ASSUME NEW d, NEW i, OrderLine(d, i) = Passed
  PROVE  /\ Items(Get(d, "lines"))[i].type = "object"
         /\ Fits(Priced(TRUE), Lines(d, "lines")[i], {})
<1> DEFINE line == Lines(d, "lines")[i]
<1>1. /\ IsLine(d, "lines", i) = Passed
      /\ ExactFields(line, PricedFields, {}) = Passed
      /\ Nonempty(line, "rfqLineId", 128) = Passed
      /\ Nonempty(line, "unit", 32) = Passed
      /\ Positive(line, "quantity", 6) = Passed
      /\ Decimal(line, "unitPrice", 6) = Passed
      /\ Decimal(line, "lineTotal", 2) = Passed
  BY First7, First5 DEF OrderLine, LineAmounts
<1>2. Items(Get(d, "lines"))[i].type = "object"
  BY <1>1 DEF IsLine, Require, Passed, Refused
<1> HIDE DEF line
<1>3. Fits(Priced(TRUE), line, {})
  BY <1>1, CheckFits DEF Fits, ExactFields, Known, Require, Passed, Refused, Priced,
     PricedFields, Rows, NoFields
<1> QED BY <1>2, <1>3 DEF line

LEMMA ShippedLineFits ==
  ASSUME NEW d, NEW i, ShippedLine(d, i) = Passed
  PROVE  /\ Items(Get(d, "lines"))[i].type = "object"
         /\ Fits(ShipmentNoticeSchema.required["lines"], Lines(d, "lines")[i], {})
<1> DEFINE line == Lines(d, "lines")[i]
<1>1. /\ IsLine(d, "lines", i) = Passed
      /\ ExactFields(line, {"rfqLineId", "quantity", "unit"}, {}) = Passed
      /\ Nonempty(line, "rfqLineId", 128) = Passed
      /\ Positive(line, "quantity", 6) = Passed
      /\ Nonempty(line, "unit", 32) = Passed
  BY First6 DEF ShippedLine
<1>2. Items(Get(d, "lines"))[i].type = "object"
  BY <1>1 DEF IsLine, Require, Passed, Refused
<1> HIDE DEF line
<1> DEFINE kind == ShipmentNoticeSchema.required["lines"]
<1>3. /\ kind.required = [rfqLineId |-> Name(128), quantity |-> Dec(6), unit |-> Name(32)]
      /\ kind.optional = NoFields
  BY DEF ShipmentNoticeSchema, Doc, Rows
<1> HIDE DEF kind
<1>4. DOMAIN line = {"rfqLineId", "quantity", "unit"}
  BY <1>1 DEF ExactFields, Require, Passed, Refused
<1>5. Fits(kind, line, {})
  BY <1>1, <1>3, <1>4, CheckFits DEF Fits, NoFields
<1> QED BY <1>2, <1>5 DEF line, kind

LEMMA ReceivedLineFits ==
  ASSUME NEW d, NEW i, ReceivedLine(d, i) = Passed
  PROVE  /\ Items(Get(d, "lines"))[i].type = "object"
         /\ Fits(GoodsReceiptSchema.required["lines"], Lines(d, "lines")[i], {})
BY First10, CheckFits, SMTT(40) DEF ReceivedLine, IsLine, Has, Require, Passed, Refused, Fits,
   GoodsReceiptSchema, Doc, Rows, NoFields

LEMMA ReturnLineFits ==
  ASSUME NEW d, NEW i, ReturnLine(d, i) = Passed
  PROVE  /\ Items(Get(d, "lines"))[i].type = "object"
         /\ Fits(Returned, Lines(d, "lines")[i], {})
<1> DEFINE line == Lines(d, "lines")[i]
<1>1. /\ IsLine(d, "lines", i) = Passed
      /\ ExactFields(line, {"rfqLineId", "quantity", "unit"}, {"reason"}) = Passed
      /\ Nonempty(line, "rfqLineId", 128) = Passed
      /\ Positive(line, "quantity", 6) = Passed
      /\ Nonempty(line, "unit", 32) = Passed
      /\ OptionalText(line, "reason", 500) = Passed
  BY First7 DEF ReturnLine
<1>2. Items(Get(d, "lines"))[i].type = "object"
  BY <1>1 DEF IsLine, Require, Passed, Refused
<1> HIDE DEF line
<1>3. Fits(Returned, line, {})
  BY <1>1, CheckFits DEF Fits, ExactFields, Known, Require, Passed, Refused, Returned,
     Rows, NoFields
<1> QED BY <1>2, <1>3 DEF line

(* The documents with lines.                                               *)
LEMMA RfqFits ==
  ASSUME NEW d, NEW created, Formed(Get(d, "items")), ValidateRfq(d, created) = Passed
  PROVE  DocumentFaults("request_for_quote", d) \subseteq Unchecked("request_for_quote")
<1> DEFINE rows == [i \in 1 .. Len(Lines(d, "items")) |-> RfqItem(d, i)]
<1>1. ValidateRfq(d, created)
         = First(<<ExactFields(d,
                               {"currency", "deliveryLocation", "responseDeadline",
                                "items"}, {}),
                        Match(Get(d, "currency"), "currency"),
                        After(d, "responseDeadline", created),
                        LineList(d, "items"), First(rows)>>)
  BY DEF ValidateRfq, Each
<1>2. DOMAIN rows = 1 .. Len(Lines(d, "items")) /\ \A i \in DOMAIN rows :
         rows[i] = RfqItem(d, i)
  OBVIOUS
<1> HIDE DEF rows
<1>3. /\ ExactFields(d, {"currency", "deliveryLocation", "responseDeadline", "items"}, {}) = Passed
      /\ Match(Get(d, "currency"), "currency") = Passed
      /\ After(d, "responseDeadline", created) = Passed
      /\ LineList(d, "items") = Passed
      /\ First(rows) = Passed
  BY <1>1, First5
<1>4. RowFaults(RequestForQuoteSchema.required["items"], d["items"])
         \subseteq Unchecked("request_for_quote")
  <2>1. \A i \in 1 .. Len(Items(Get(d, "items"))) : RfqItem(d, i) = Passed
    BY <1>2, <1>3, LinesPass, LinesAre
  <2> DEFINE kind == RequestForQuoteSchema.required["items"]
             U    == Unchecked("request_for_quote")
  <2>2. \A i \in 1 .. Len(Items(Get(d, "items"))) :
          Items(Get(d, "items"))[i].type = "object" /\ Fits(kind, Lines(d, "items")[i], U)
    BY <2>1, RfqItemFits DEF RequestForQuoteSchema, Doc
  <2> HIDE DEF kind, U
  <2>3. RowFaults(kind, d["items"]) \subseteq U
    BY <1>3, <2>2, RowsFit
  <2> QED BY <2>3 DEF kind, U, Unchecked, Loose
<1>5. Fits(RequestForQuoteSchema, d, Unchecked("request_for_quote"))
  BY <1>3, CheckFits DEF RequestForQuoteSchema, Fits, Doc, Priced, Rows, Unchecked, Loose
<1>6. \A k \in DOMAIN RequestForQuoteSchema.required :
         RequestForQuoteSchema.required[k].is = "rows" => k = "items"
  BY NotRows DEF RequestForQuoteSchema, Doc
<1>7. Schema["request_for_quote"] = RequestForQuoteSchema
  BY DEF Schema
<1> QED BY <1>4, <1>5, <1>6, <1>7, DocumentFits

LEMMA QuotationParts ==
  ASSUME NEW d, NEW created, Formed(Get(d, "lines")), ValidateQuotation(d, created) = Passed
  PROVE  /\ Fits(QuotationSchema, d, Unchecked("quotation"))
         /\ RowFaults(QuotationSchema.required["lines"], d["lines"])
               \subseteq Unchecked("quotation")
<1> DEFINE rows == [i \in 1 .. Len(Lines(d, "lines")) |-> QuotationLine(d, i)]
<1>1. ValidateQuotation(d, created)
         = First(<<ExactFields(d, {"currency", "validUntil", "lines", "total"},
                               {"paymentTerms", "deliveryTerms"}),
                        Match(Get(d, "currency"), "currency"),
                        After(d, "validUntil", created),
                        LineList(d, "lines"), First(rows), LinesTotal(d)>>)
  BY DEF ValidateQuotation, Each
<1>2. DOMAIN rows = 1 .. Len(Lines(d, "lines")) /\ \A i \in DOMAIN rows :
         rows[i] = QuotationLine(d, i)
  OBVIOUS
<1> HIDE DEF rows
<1>3. /\ ExactFields(d, {"currency", "validUntil", "lines", "total"},
                     {"paymentTerms", "deliveryTerms"}) = Passed
      /\ Match(Get(d, "currency"), "currency") = Passed
      /\ After(d, "validUntil", created) = Passed
      /\ LineList(d, "lines") = Passed
      /\ First(rows) = Passed
      /\ LinesTotal(d) = Passed
  BY <1>1, First6
<1>4. RowFaults(QuotationSchema.required["lines"], d["lines"])
         \subseteq Unchecked("quotation")
  <2>1. \A i \in 1 .. Len(Items(Get(d, "lines"))) : QuotationLine(d, i) = Passed
    BY <1>2, <1>3, LinesPass, LinesAre
  <2> DEFINE kind == QuotationSchema.required["lines"]
             U    == {"rfqLineId", "unit"}
  <2>2. \A i \in 1 .. Len(Items(Get(d, "lines"))) :
          Items(Get(d, "lines"))[i].type = "object" /\ Fits(kind, Lines(d, "lines")[i], U)
    BY <2>1, QuotationLineFits DEF QuotationSchema, Doc
  <2> HIDE DEF kind, U
  <2>3. RowFaults(kind, d["lines"]) \subseteq U
    BY <1>3, <2>2, RowsFit
  <2> QED BY <2>3 DEF kind, U, Unchecked, Loose
<1>5. Fits(QuotationSchema, d, Unchecked("quotation"))
  BY <1>3, CheckFits DEF QuotationSchema, Fits, Doc, Priced, Rows, Unchecked, Loose
<1> QED BY <1>4, <1>5

LEMMA QuotationFits ==
  ASSUME NEW d, NEW created, Formed(Get(d, "lines")), ValidateQuotation(d, created) = Passed
  PROVE  DocumentFaults("quotation", d) \subseteq Unchecked("quotation")
<1>1. \A k \in DOMAIN QuotationSchema.required : QuotationSchema.required[k].is = "rows"
         => k = "lines"
  BY NotRows DEF QuotationSchema, Doc
<1>2. Schema["quotation"] = QuotationSchema
  BY DEF Schema
<1> QED BY <1>1, <1>2, QuotationParts, DocumentFits

LEMMA OrderFits ==
  ASSUME NEW d, Formed(Get(d, "lines")), ValidateOrder(d) = Passed
  PROVE  DocumentFaults("purchase_order", d) \subseteq Unchecked("purchase_order")
<1> DEFINE rows == [i \in 1 .. Len(Lines(d, "lines")) |-> OrderLine(d, i)]
<1>1. ValidateOrder(d) = First(<<ExactFields(d,
                                             {"orderNumber", "quotationMessageId",
                                                "currency", "deliveryLocation", "lines",
                                                   "total"}, {}),
                        Nonempty(d, "orderNumber", 128),
                        Reference(d, "quotationMessageId"), Currency(d),
                        Nonempty(d, "deliveryLocation", 500),
                        LineList(d, "lines"), First(rows), LinesTotal(d)>>)
  BY DEF ValidateOrder, Each
<1>2. DOMAIN rows = 1 .. Len(Lines(d, "lines")) /\ \A i \in DOMAIN rows :
         rows[i] = OrderLine(d, i)
  OBVIOUS
<1> HIDE DEF rows
<1>3. /\ ExactFields(d, {"orderNumber", "quotationMessageId", "currency",
                         "deliveryLocation", "lines", "total"}, {}) = Passed
      /\ Nonempty(d, "orderNumber", 128) = Passed
      /\ Reference(d, "quotationMessageId") = Passed
      /\ Currency(d) = Passed
      /\ Nonempty(d, "deliveryLocation", 500) = Passed
      /\ LineList(d, "lines") = Passed
      /\ First(rows) = Passed
      /\ LinesTotal(d) = Passed
  BY <1>1, First8
<1>4. RowFaults(PurchaseOrderSchema.required["lines"], d["lines"])
         \subseteq Unchecked("purchase_order")
  <2>1. \A i \in 1 .. Len(Items(Get(d, "lines"))) : OrderLine(d, i) = Passed
    BY <1>2, <1>3, LinesPass, LinesAre
  <2> DEFINE kind == PurchaseOrderSchema.required["lines"]
             U    == {}
  <2>2. \A i \in 1 .. Len(Items(Get(d, "lines"))) :
          Items(Get(d, "lines"))[i].type = "object" /\ Fits(kind, Lines(d, "lines")[i], U)
    BY <2>1, OrderLineFits DEF PurchaseOrderSchema, Doc
  <2> HIDE DEF kind, U
  <2>3. RowFaults(kind, d["lines"]) \subseteq U
    BY <1>3, <2>2, RowsFit
  <2> QED BY <2>3 DEF kind, U, Unchecked, Loose
<1>5. Fits(PurchaseOrderSchema, d, Unchecked("purchase_order"))
  BY <1>3, CheckFits DEF PurchaseOrderSchema, Fits, Doc, Priced, Rows, Unchecked, Loose
<1>6. \A k \in DOMAIN PurchaseOrderSchema.required :
         PurchaseOrderSchema.required[k].is = "rows" => k = "lines"
  BY NotRows DEF PurchaseOrderSchema, Doc
<1>7. Schema["purchase_order"] = PurchaseOrderSchema
  BY DEF Schema
<1> QED BY <1>4, <1>5, <1>6, <1>7, DocumentFits

LEMMA ShipmentNoticeFits ==
  ASSUME NEW d, Formed(Get(d, "lines")), ValidateShipmentNotice(d) = Passed
  PROVE  DocumentFaults("shipment_notice", d) \subseteq Unchecked("shipment_notice")
<1> DEFINE rows == [i \in 1 .. Len(Lines(d, "lines")) |-> ShippedLine(d, i)]
<1>1. ValidateShipmentNotice(d)
         = First(<<ExactFields(d,
                               {"shipmentId", "purchaseOrderMessageId", "orderNumber",
                                "shippedAt", "lines"}, {"carrier", "trackingReference"}),
                        Nonempty(d, "shipmentId", 128),
                        Reference(d, "purchaseOrderMessageId"),
                        Nonempty(d, "orderNumber", 128),
                        Timestamp(d, "shippedAt"), LineList(d, "lines"),
                        First(rows)>>)
  BY DEF ValidateShipmentNotice, Each
<1>2. DOMAIN rows = 1 .. Len(Lines(d, "lines")) /\ \A i \in DOMAIN rows :
         rows[i] = ShippedLine(d, i)
  OBVIOUS
<1> HIDE DEF rows
<1>3. /\ ExactFields(d, {"shipmentId", "purchaseOrderMessageId", "orderNumber",
                         "shippedAt", "lines"}, {"carrier", "trackingReference"}) = Passed
      /\ Nonempty(d, "shipmentId", 128) = Passed
      /\ Reference(d, "purchaseOrderMessageId") = Passed
      /\ Nonempty(d, "orderNumber", 128) = Passed
      /\ Timestamp(d, "shippedAt") = Passed
      /\ LineList(d, "lines") = Passed
      /\ First(rows) = Passed
  BY <1>1, First7
<1>4. RowFaults(ShipmentNoticeSchema.required["lines"], d["lines"])
         \subseteq Unchecked("shipment_notice")
  <2>1. \A i \in 1 .. Len(Items(Get(d, "lines"))) : ShippedLine(d, i) = Passed
    BY <1>2, <1>3, LinesPass, LinesAre
  <2> DEFINE kind == ShipmentNoticeSchema.required["lines"]
             U    == {}
  <2>2. \A i \in 1 .. Len(Items(Get(d, "lines"))) :
          Items(Get(d, "lines"))[i].type = "object" /\ Fits(kind, Lines(d, "lines")[i], U)
    BY <2>1, ShippedLineFits DEF ShipmentNoticeSchema, Doc
  <2> HIDE DEF kind, U
  <2>3. RowFaults(kind, d["lines"]) \subseteq U
    BY <1>3, <2>2, RowsFit
  <2> QED BY <2>3 DEF kind, U, Unchecked, Loose
<1>5. Fits(ShipmentNoticeSchema, d, Unchecked("shipment_notice"))
  BY <1>3, CheckFits DEF ShipmentNoticeSchema, Fits, Doc, Priced, Rows, Unchecked, Loose
<1>6. \A k \in DOMAIN ShipmentNoticeSchema.required :
         ShipmentNoticeSchema.required[k].is = "rows" => k = "lines"
  BY NotRows DEF ShipmentNoticeSchema, Doc
<1>7. Schema["shipment_notice"] = ShipmentNoticeSchema
  BY DEF Schema
<1> QED BY <1>4, <1>5, <1>6, <1>7, DocumentFits

LEMMA GoodsReceiptFits ==
  ASSUME NEW d, Formed(Get(d, "lines")), ValidateGoodsReceipt(d) = Passed
  PROVE  DocumentFaults("goods_receipt", d) \subseteq Unchecked("goods_receipt")
<1> DEFINE rows == [i \in 1 .. Len(Lines(d, "lines")) |-> ReceivedLine(d, i)]
<1>1. ValidateGoodsReceipt(d)
         = First(<<ExactFields(d,
                               {"receiptId", "shipmentNoticeMessageId", "orderNumber",
                                "receivedAt", "lines"}, {"note"}),
                        Nonempty(d, "receiptId", 128),
                        Reference(d, "shipmentNoticeMessageId"),
                        Nonempty(d, "orderNumber", 128),
                        Timestamp(d, "receivedAt"), LineList(d, "lines"),
                        First(rows)>>)
  BY DEF ValidateGoodsReceipt, Each
<1>2. DOMAIN rows = 1 .. Len(Lines(d, "lines")) /\ \A i \in DOMAIN rows :
         rows[i] = ReceivedLine(d, i)
  OBVIOUS
<1> HIDE DEF rows
<1>3. /\ ExactFields(d, {"receiptId", "shipmentNoticeMessageId", "orderNumber",
                         "receivedAt", "lines"}, {"note"}) = Passed
      /\ Nonempty(d, "receiptId", 128) = Passed
      /\ Reference(d, "shipmentNoticeMessageId") = Passed
      /\ Nonempty(d, "orderNumber", 128) = Passed
      /\ Timestamp(d, "receivedAt") = Passed
      /\ LineList(d, "lines") = Passed
      /\ First(rows) = Passed
  BY <1>1, First7
<1>4. RowFaults(GoodsReceiptSchema.required["lines"], d["lines"])
         \subseteq Unchecked("goods_receipt")
  <2>1. \A i \in 1 .. Len(Items(Get(d, "lines"))) : ReceivedLine(d, i) = Passed
    BY <1>2, <1>3, LinesPass, LinesAre
  <2> DEFINE kind == GoodsReceiptSchema.required["lines"]
             U    == {}
  <2>2. \A i \in 1 .. Len(Items(Get(d, "lines"))) :
          Items(Get(d, "lines"))[i].type = "object" /\ Fits(kind, Lines(d, "lines")[i], U)
    BY <2>1, ReceivedLineFits DEF GoodsReceiptSchema, Doc
  <2> HIDE DEF kind, U
  <2>3. RowFaults(kind, d["lines"]) \subseteq U
    BY <1>3, <2>2, RowsFit
  <2> QED BY <2>3 DEF kind, U, Unchecked, Loose
<1>5. Fits(GoodsReceiptSchema, d, Unchecked("goods_receipt"))
  BY <1>3, CheckFits DEF GoodsReceiptSchema, Fits, Doc, Priced, Rows, Unchecked, Loose
<1>6. \A k \in DOMAIN GoodsReceiptSchema.required :
         GoodsReceiptSchema.required[k].is = "rows" => k = "lines"
  BY NotRows DEF GoodsReceiptSchema, Doc
<1>7. Schema["goods_receipt"] = GoodsReceiptSchema
  BY DEF Schema
<1> QED BY <1>4, <1>5, <1>6, <1>7, DocumentFits

(* A counteroffer is a quotation but for two fields.                       *)
LEMMA CounterofferFits ==
  ASSUME NEW d, NEW created, Formed(Get(d, "lines")), ValidateCounteroffer(d, created) = Passed
  PROVE  DocumentFaults("quotation_counteroffer", d)
            \subseteq Unchecked("quotation_counteroffer")
<1> DEFINE q == Drop(d, {"quotationMessageId", "reason"})
           s == QuotationSchema
           c == QuotationCounterofferSchema
           U == Unchecked("quotation_counteroffer")
<1>1. /\ Reference(d, "quotationMessageId") = Passed
      /\ ValidateQuotation(q, created) = Passed
      /\ OptionalText(d, "reason", 500) = Passed
  BY First3 DEF ValidateCounteroffer
<1>2. /\ DOMAIN q = DOMAIN d \ {"quotationMessageId", "reason"}
      /\ \A k \in DOMAIN q : q[k] = d[k]
      /\ Get(q, "lines") = Get(d, "lines")
  BY DEF Drop, Get
<1>3. /\ DOMAIN s.required \subseteq DOMAIN q
      /\ DOMAIN q \subseteq DOMAIN s.required \cup DOMAIN s.optional
      /\ \A k \in DOMAIN s.required :
            k \in U \/ s.required[k].is = "rows" \/ FitsField(s.required[k], d[k])
      /\ \A k \in DOMAIN s.optional : k \in U
      /\ RowFaults(s.required["lines"], d["lines"]) \subseteq U
  <2>1. /\ Fits(s, q, Unchecked("quotation"))
        /\ RowFaults(s.required["lines"], q["lines"]) \subseteq Unchecked("quotation")
    BY <1>1, <1>2, QuotationParts
  <2>2. Unchecked("quotation") = U
    BY DEF Unchecked, Loose
  <2>3. DOMAIN s.optional \subseteq U
    BY DEF QuotationSchema, Doc, Unchecked, Loose
  <2>4. "lines" \in DOMAIN s.required
    BY DEF QuotationSchema, Doc
  <2> QED BY <1>2, <2>1, <2>2, <2>3, <2>4 DEF Fits
<1>4. /\ "quotationMessageId" \in DOMAIN d /\ FitsField(Ref, d["quotationMessageId"])
      /\ "reason" \in DOMAIN d => FitsField(Str(0, 500), d["reason"])
  BY <1>1, CheckFits DEF Reference, Get, Absent, Is, IsString, Require, Passed, Refused
<1>5. /\ DOMAIN c.required = DOMAIN s.required \cup {"quotationMessageId"}
      /\ DOMAIN c.optional = DOMAIN s.optional \cup {"reason"}
      /\ \A k \in DOMAIN s.required : c.required[k] = s.required[k]
      /\ c.required["quotationMessageId"] = Ref
      /\ c.optional["reason"] = Str(0, 500)
  <2> USE DEF QuotationSchema, QuotationCounterofferSchema, Doc
  <2>1. DOMAIN s.required = {"currency", "validUntil", "lines", "total"}
    OBVIOUS
  <2>2. DOMAIN c.required = {"currency", "validUntil", "lines", "total",
                             "quotationMessageId"}
    OBVIOUS
  <2>3. DOMAIN c.optional = DOMAIN s.optional \cup {"reason"}
    OBVIOUS
  <2>4. c.required["quotationMessageId"] = Ref /\ c.optional["reason"] = Str(0, 500)
    OBVIOUS
  <2>5. /\ c.required["currency"] = s.required["currency"]
        /\ c.required["validUntil"] = s.required["validUntil"]
        /\ c.required["lines"] = s.required["lines"]
        /\ c.required["total"] = s.required["total"]
    OBVIOUS
  <2> HIDE DEF s, c
  <2> QED BY <2>1, <2>2, <2>3, <2>4, <2>5
<1>6. \A k \in DOMAIN c.required : c.required[k].is = "rows" => k = "lines"
  BY NotRows DEF QuotationCounterofferSchema, Doc
<1>7. Schema["quotation_counteroffer"] = c
  BY DEF Schema
<1>8. "lines" \in DOMAIN s.required
  BY DEF QuotationSchema, Doc
<1> HIDE DEF q, s, c, U
<1>9. Fits(c, d, U)
  BY <1>2, <1>3, <1>4, <1>5 DEF Fits
<1> QED BY <1>3, <1>5, <1>6, <1>7, <1>8, <1>9, DocumentFits DEF U

LEMMA ReturnLinesFit ==
  ASSUME NEW d, Formed(Get(d, "lines")), ValidateReturnLines(d) = Passed
  PROVE  RowFaults(Returned, d["lines"]) \subseteq {}
<1> DEFINE rows == [i \in 1 .. Len(Lines(d, "lines")) |-> ReturnLine(d, i)]
           U    == {}
<1>1. ValidateReturnLines(d) = First(<<LineList(d, "lines"), First(rows)>>)
  BY DEF ValidateReturnLines, Each
<1>2. DOMAIN rows = 1 .. Len(Lines(d, "lines")) /\ \A i \in DOMAIN rows :
         rows[i] = ReturnLine(d, i)
  OBVIOUS
<1> HIDE DEF rows
<1>3. LineList(d, "lines") = Passed /\ First(rows) = Passed
  BY <1>1, First2
<1>4. \A i \in 1 .. Len(Items(Get(d, "lines"))) : ReturnLine(d, i) = Passed
  BY <1>2, <1>3, LinesPass, LinesAre
<1>5. \A i \in 1 .. Len(Items(Get(d, "lines"))) :
         Items(Get(d, "lines"))[i].type = "object"
            /\ Fits(Returned, Lines(d, "lines")[i], U)
  BY <1>4, ReturnLineFits
<1> HIDE DEF U
<1>6. RowFaults(Returned, d["lines"]) \subseteq U
  BY <1>3, <1>5, RowsFit
<1> QED BY <1>6 DEF U

LEMMA ReturnAuthorizationFits ==
  ASSUME NEW d, NEW created, Formed(Get(d, "lines")),
            ValidateReturnAuthorization(d, created) = Passed
  PROVE  DocumentFaults("return_authorization", d)
            \subseteq Unchecked("return_authorization")
<1>1. Fits(ReturnAuthorizationSchema, d, Unchecked("return_authorization"))
  BY First7, CheckFits DEF ValidateReturnAuthorization, ReturnAuthorizationSchema, Fits,
     Doc, Returned, Rows, Unchecked, Loose
<1>2. RowFaults(Returned, d["lines"]) \subseteq Unchecked("return_authorization")
  BY First7, ReturnLinesFit DEF ValidateReturnAuthorization
<1>3. /\ ReturnAuthorizationSchema.required["lines"] = Returned
      /\ \A k \in DOMAIN ReturnAuthorizationSchema.required :
            ReturnAuthorizationSchema.required[k].is = "rows" => k = "lines"
  BY NotRows DEF ReturnAuthorizationSchema, Doc
<1>4. Schema["return_authorization"] = ReturnAuthorizationSchema
  BY DEF Schema
<1> QED BY <1>1, <1>2, <1>3, <1>4, DocumentFits

LEMMA ReturnReceiptFits ==
  ASSUME NEW d, Formed(Get(d, "lines")), ValidateReturnReceipt(d) = Passed
  PROVE  DocumentFaults("return_receipt", d) \subseteq Unchecked("return_receipt")
<1>1. Fits(ReturnReceiptSchema, d, Unchecked("return_receipt"))
  BY First6, CheckFits DEF ValidateReturnReceipt, ReturnReceiptSchema, Fits, Doc,
     Returned, Rows, Unchecked, Loose
<1>2. RowFaults(Returned, d["lines"]) \subseteq Unchecked("return_receipt")
  BY First6, ReturnLinesFit DEF ValidateReturnReceipt
<1>3. /\ ReturnReceiptSchema.required["lines"] = Returned
      /\ \A k \in DOMAIN ReturnReceiptSchema.required :
            ReturnReceiptSchema.required[k].is = "rows" => k = "lines"
  BY NotRows DEF ReturnReceiptSchema, Doc
<1>4. Schema["return_receipt"] = ReturnReceiptSchema
  BY DEF Schema
<1> QED BY <1>1, <1>2, <1>3, <1>4, DocumentFits
-----------------------------------------------------------------------------
LEMMA FormedGet ==
  ASSUME NEW f, NEW k, FormedIn(f)
  PROVE  Formed(Get(f, k))
BY DEF FormedIn, Get, Absent, Formed, Is, IsString, IsAmount

LEMMA DocumentTypesAre == DocumentTypes = ReplyDocuments \cup {"request_for_quote"}
BY DEF DocumentTypes, Schema, ReplyDocuments

(* The validator of each document type, and what it makes sure of.         *)
LEMMA ValidatorIs ==
  ASSUME NEW d, NEW created
  PROVE  /\ Validator("request_for_quote", d, created) = ValidateRfq(d, created)
         /\ Validator("quotation", d, created) = ValidateQuotation(d, created)
         /\ Validator("quotation_counteroffer", d, created)
               = ValidateCounteroffer(d, created)
         /\ Validator("transaction_cancellation", d, created)
               = ValidateTransactionCancellation(d)
         /\ Validator("order_cancellation_request", d, created)
               = ValidateOrderCancellationRequest(d)
         /\ Validator("order_cancellation_response", d, created)
               = ValidateOrderCancellationResponse(d)
         /\ Validator("shipment_notice", d, created) = ValidateShipmentNotice(d)
         /\ Validator("goods_receipt", d, created) = ValidateGoodsReceipt(d)
         /\ Validator("quotation_acceptance", d, created) = ValidateAcceptance(d)
         /\ Validator("purchase_order", d, created) = ValidateOrder(d)
         /\ Validator("order_acknowledgement", d, created)
               = ValidateOrderAcknowledgement(d, created)
         /\ Validator("fulfillment_status", d, created) = ValidateFulfillment(d)
         /\ Validator("invoice", d, created) = ValidateInvoice(d, created)
         /\ Validator("payment_intent", d, created) = ValidatePaymentIntent(d)
         /\ Validator("approval_evidence", d, created) = ValidateApprovalEvidence(d)
         /\ Validator("payment_result", d, created) = ValidatePaymentResult(d)
         /\ Validator("settlement_confirmation", d, created) = ValidateSettlement(d)
         /\ Validator("dispute_opened", d, created) = ValidateDisputeOpened(d)
         /\ Validator("dispute_resolved", d, created) = ValidateDisputeResolved(d)
         /\ Validator("return_authorization", d, created)
               = ValidateReturnAuthorization(d, created)
         /\ Validator("return_receipt", d, created) = ValidateReturnReceipt(d)
         /\ Validator("credit_note", d, created) = ValidateCreditNote(d)
BY DEF Validator

LEMMA ValidatorFits ==
  ASSUME NEW type \in DocumentTypes, NEW d, NEW created, FormedIn(d),
            Validator(type, d, created) = Passed
  PROVE  DocumentFaults(type, d) \subseteq Unchecked(type)
<1>1. Formed(Get(d, "lines")) /\ Formed(Get(d, "items"))
  BY FormedGet
<1>2. CASE type = "request_for_quote"
  BY <1>1, <1>2, ValidatorIs, RfqFits
<1>3. CASE type = "quotation"
  BY <1>1, <1>3, ValidatorIs, QuotationFits
<1>4. CASE type = "quotation_counteroffer"
  BY <1>1, <1>4, ValidatorIs, CounterofferFits
<1>5. CASE type = "transaction_cancellation"
  BY <1>1, <1>5, ValidatorIs, TransactionCancellationFits
<1>6. CASE type = "order_cancellation_request"
  BY <1>1, <1>6, ValidatorIs, OrderCancellationRequestFits
<1>7. CASE type = "order_cancellation_response"
  BY <1>1, <1>7, ValidatorIs, OrderCancellationResponseFits
<1>8. CASE type = "shipment_notice"
  BY <1>1, <1>8, ValidatorIs, ShipmentNoticeFits
<1>9. CASE type = "goods_receipt"
  BY <1>1, <1>9, ValidatorIs, GoodsReceiptFits
<1>10. CASE type = "quotation_acceptance"
  BY <1>1, <1>10, ValidatorIs, AcceptanceFits
<1>11. CASE type = "purchase_order"
  BY <1>1, <1>11, ValidatorIs, OrderFits
<1>12. CASE type = "order_acknowledgement"
  BY <1>1, <1>12, ValidatorIs, OrderAcknowledgementFits
<1>13. CASE type = "fulfillment_status"
  BY <1>1, <1>13, ValidatorIs, FulfillmentFits
<1>14. CASE type = "invoice"
  BY <1>1, <1>14, ValidatorIs, InvoiceFits
<1>15. CASE type = "payment_intent"
  BY <1>1, <1>15, ValidatorIs, PaymentIntentFits
<1>16. CASE type = "approval_evidence"
  BY <1>1, <1>16, ValidatorIs, ApprovalEvidenceFits
<1>17. CASE type = "payment_result"
  BY <1>1, <1>17, ValidatorIs, PaymentResultFits
<1>18. CASE type = "settlement_confirmation"
  BY <1>1, <1>18, ValidatorIs, SettlementFits
<1>19. CASE type = "dispute_opened"
  BY <1>1, <1>19, ValidatorIs, DisputeOpenedFits
<1>20. CASE type = "dispute_resolved"
  BY <1>1, <1>20, ValidatorIs, DisputeResolvedFits
<1>21. CASE type = "return_authorization"
  BY <1>1, <1>21, ValidatorIs, ReturnAuthorizationFits
<1>22. CASE type = "return_receipt"
  BY <1>1, <1>22, ValidatorIs, ReturnReceiptFits
<1>23. CASE type = "credit_note"
  BY <1>1, <1>23, ValidatorIs, CreditNoteFits
<1> QED
  BY DocumentTypesAre, <1>2, <1>3, <1>4, <1>5, <1>6, <1>7, <1>8, <1>9, <1>10, <1>11,
     <1>12, <1>13, <1>14, <1>15, <1>16, <1>17, <1>18, <1>19, <1>20, <1>21, <1>22, <1>23
     DEF ReplyDocuments

(* The fields of the acn.network extension.                                *)
LEMMA NetworkFits ==
  ASSUME NEW n, NEW type, n \notin {Absent, Null}, FormedIn(Fields(n)),
            NetworkExtension(n, type) = Passed
  PROVE  n.type = "object" /\ FitsNetwork(Object(WithoutNulls(n.fields)))
<1> DEFINE f          == Fields(n)
           categories == IF Has(f, "productCategories")
              THEN f["productCategories"] ELSE List(<<>>)
           cs         == Items(categories)
           evidence   == Get(f, "reservationEvidence")
           e          == Fields(evidence)
           more       == First(<<
               Require(type = Word("purchase_order")),
               Require(evidence.type = "object" /\ DOMAIN e = Evidence),
               Nonempty(e, "reservationId", 255), Nonempty(e, "provider", 255),
               Reference(e, "quotationMessageId"),
                  Require(Is(Get(e, "evidenceHash"), "hash")),
               Timestamp(e, "expiresAt")>>)
<1> USE DEF Require, Passed, Refused
<1>1. /\ n.type = "object" /\ DOMAIN f
            \subseteq {"productCategories", "reservationEvidence"}
      /\ categories.type = "array" /\ Len(cs) <= 100
      /\ \A i \in 1 .. Len(cs) : Is(cs[i], "category") /\ \A j \in 1 .. i - 1 :
            cs[j] # cs[i]
      /\ evidence \notin {Absent, Null} => more = Passed
  BY First5 DEF NetworkExtension
<1>2. /\ f = n.fields
      /\ Has(f, "productCategories") =>
            f["productCategories"].type = "array" /\ cs = f["productCategories"].items
  BY <1>1 DEF Fields, Items
<1>3. ASSUME evidence \notin {Absent, Null}
      PROVE  /\ evidence.type = "object" /\ e = evidence.fields /\ DOMAIN e = Evidence
             /\ Length(e["reservationId"], 1, 255) /\ Length(e["provider"], 1, 255)
             /\ Is(e["quotationMessageId"], "message") /\ Is(e["evidenceHash"], "hash")
             /\ IsString(e["expiresAt"])
  <2>1. /\ evidence.type = "object" /\ DOMAIN e = Evidence
        /\ Length(Get(e, "reservationId"), 1, 255) /\ Length(Get(e, "provider"), 1, 255)
        /\ Is(Get(e, "quotationMessageId"), "message")
        /\ Is(Get(e, "evidenceHash"), "hash")
        /\ IsString(Get(e, "expiresAt"))
    BY <1>1, <1>3, First7 DEF Nonempty, Reference, Timestamp, Is
  <2> QED BY <2>1 DEF Get, Evidence, Fields
<1> DEFINE w == WithoutNulls(n.fields)
<1>4. /\ DOMAIN w \subseteq DOMAIN f
      /\ \A k \in DOMAIN w : w[k] = f[k] /\ w[k] # Null
  BY <1>2 DEF WithoutNulls, Drop
<1>5. Has(w, "reservationEvidence") =>
         /\ evidence \notin {Absent, Null}
         /\ w["reservationEvidence"] = evidence
  BY <1>4 DEF Has, Get, FormedIn
<1>6. Has(w, "productCategories")
         => Has(f, "productCategories") /\ w["productCategories"] = f["productCategories"]
  BY <1>4 DEF Has
<1> HIDE DEF w, f, cs, evidence, e, categories
<1>7. FitsNetwork(Object(w))
  BY <1>1, <1>2, <1>3, <1>4, <1>5, <1>6, SMTT(40) DEF FitsNetwork, Object, Evidence, cs, e,
     categories, Items
<1> QED BY <1>1, <1>7 DEF w
-----------------------------------------------------------------------------
(* The fields of the envelope: what _validate_envelope passes fits the     *)
(* envelope schema, but for nulls and the signature.                       *)
LEMMA EnvelopeFits ==
  ASSUME NEW e, FormedIn(e), \A k \in DOMAIN e :
            Parsed(e[k]), ValidateEnvelope(Object(e)) = Passed
  PROVE  FieldFaults(EnvelopeSchema, NullsRead(e)) \subseteq {"signature"}
<1> DEFINE x == Fields(Get(e, "extensions"))
           n == Get(x, "acn.network")
           N == NullsRead(e)
           s == EnvelopeSchema
<1>1. /\ DOMAIN N = DOMAIN e \ {j \in {"inReplyTo"} : Get(e, j) = Null}
      /\ \A k \in DOMAIN N : k # "extensions" => N[k] = e[k]
      /\ "extensions" \in DOMAIN N =>
            N["extensions"] =
               IF n = Null THEN Object(Drop(x, {"acn.network"}))
               ELSE IF n # Absent
                    THEN Object(Put(x, "acn.network",
                                    IF n.type = "object"
                                       THEN Object(WithoutNulls(n.fields)) ELSE n))
               ELSE e["extensions"]
  BY DEF NullsRead
<1>2. /\ DOMAIN e \subseteq EnvelopeFields
      /\ {"specVersion", "messageId", "transactionId", "documentType", "sender",
          "recipient",
          "createdAt", "expiresAt", "idempotencyKey", "document"} \subseteq DOMAIN e
      /\ Is(e["specVersion"], "0.1") /\ Is(e["transactionId"], "transaction")
      /\ Is(e["sender"], "agent") /\ Is(e["recipient"], "agent")
      /\ FitsField(Ref, e["messageId"]) /\ FitsField(Name(255), e["idempotencyKey"])
      /\ FitsField(Instant, e["createdAt"]) /\ FitsField(Instant, e["expiresAt"])
      /\ FitsField(OneOf(DOMAIN Schema), e["documentType"])
      /\ FitsField(AnyObject, e["document"])
  <2> DEFINE created == Get(e, "createdAt")
             type    == Get(e, "documentType")
  <2>1. /\ Known(e, EnvelopeFields) = Passed
        /\ Get(e, "specVersion") = Version
        /\ Reference(e, "messageId") = Passed
        /\ Is(Get(e, "transactionId"), "transaction")
        /\ Is(Get(e, "sender"), "agent") /\ Is(Get(e, "recipient"), "agent")
        /\ Nonempty(e, "idempotencyKey", 255) = Passed
        /\ Is(created, "time")
        /\ After(e, "expiresAt", created.at) = Passed
        /\ Get(e, "document").type = "object"
        /\ Is(type, "word") /\ type.word \in DocumentTypes
    BY EnvelopeChecks, DocumentTypesAre
  <2>2. \A k : IsString(Get(e, k)) => k \in DOMAIN e /\ Get(e, k) = e[k]
    BY DEF Get, IsString, Absent
  <2>3. /\ IsString(Get(e, "specVersion")) /\ IsString(Get(e, "messageId"))
        /\ IsString(Get(e, "transactionId")) /\ IsString(Get(e, "sender"))
        /\ IsString(Get(e, "recipient")) /\ IsString(Get(e, "idempotencyKey"))
        /\ IsString(created) /\ IsString(Get(e, "expiresAt")) /\ IsString(type)
    BY <2>1 DEF Is, IsString, Version, String, Reference, Nonempty, Length, After,
       Require, Passed, Refused
  <2>4. "document" \in DOMAIN e /\ e["document"].type = "object"
    BY <2>1 DEF Get, Absent
  <2>5. DOMAIN e \subseteq EnvelopeFields
    BY <2>1 DEF Known, Require, Passed, Refused
  <2>6. Is(e["specVersion"], "0.1")
    BY <2>1, <2>2, <2>3 DEF Version, String, Is, IsString
  <2>7. /\ Is(e["transactionId"], "transaction") /\ Is(e["sender"], "agent")
        /\ Is(e["recipient"], "agent")
    BY <2>1, <2>2, <2>3
  <2>8. /\ FitsField(Ref, e["messageId"]) /\ FitsField(Name(255), e["idempotencyKey"])
        /\ FitsField(Instant, e["expiresAt"])
    BY <2>1, CheckFits
  <2>9. /\ FitsField(Instant, e["createdAt"]) /\ FitsField(AnyObject, e["document"])
        /\ FitsField(OneOf(DOMAIN Schema), e["documentType"])
    BY <2>1, <2>2, <2>3, <2>4, Kinds DEF DocumentTypes
  <2> QED BY <2>2, <2>3, <2>4, <2>5, <2>6, <2>7, <2>8, <2>9
<1>3. "inReplyTo" \in DOMAIN N => FitsField(Ref, N["inReplyTo"])
  <2>1. ASSUME "inReplyTo" \in DOMAIN N PROVE FitsField(Ref, e["inReplyTo"])
    <3>1. Get(e, "inReplyTo") = e["inReplyTo"] /\ e["inReplyTo"] \notin {Absent, Null}
      BY <1>1, <2>1 DEF FormedIn, Get
    <3>2. Dispatch(e, Get(e, "createdAt").at) = Passed
      BY EnvelopeChecks
    <3>3. Reference(e, "inReplyTo") = Passed
      BY <3>1, <3>2, DispatchPassed
    <3> QED BY <3>3, CheckFits
  <2> QED BY <1>1, <2>1
<1>4. "extensions" \in DOMAIN N => FitsExtensions(N["extensions"])
  <2> SUFFICES ASSUME "extensions" \in DOMAIN N PROVE FitsExtensions(N["extensions"])
    OBVIOUS
  <2>1. /\ Get(e, "extensions") = e["extensions"]
        /\ e["extensions"].type = "object" /\ x = e["extensions"].fields
        /\ "unnamespaced" \notin DOMAIN x
        /\ NetworkExtension(n, Get(e, "documentType")) = Passed
    <3>1. "extensions" \in DOMAIN e /\ Get(e, "extensions") = e["extensions"]
      BY <1>1 DEF Get
    <3>2. e["extensions"].type = "object" /\ "unnamespaced" \notin DOMAIN x
          /\ NetworkExtension(n, Get(e, "documentType")) = Passed
      BY <3>1, EnvelopeChecks DEF Has
    <3> QED BY <3>1, <3>2 DEF Fields
  <2>2. Parsed(e["extensions"]) /\ x = Fields(e["extensions"])
    BY <1>1, <2>1
  <2>3. /\ n = Absent => "acn.network" \notin DOMAIN x
        /\ n # Absent => FormedIn(Fields(n))
    BY <2>2 DEF Parsed, Inner, FormedIn, Get
  <2>4. n \notin {Absent, Null}
           => n.type = "object" /\ FitsNetwork(Object(WithoutNulls(n.fields)))
    BY <2>1, <2>3, NetworkFits
  <2>5. \A f : /\ "unnamespaced" \notin DOMAIN f
               /\ "acn.network" \in DOMAIN f => FitsNetwork(f["acn.network"])
               => FitsExtensions(Object(f))
    BY DEF FitsExtensions, Object, Has
  <2>6. CASE n = Null
    <3>1. N["extensions"] = Object(Drop(x, {"acn.network"}))
      BY <1>1, <2>6
    <3>2. "unnamespaced" \notin DOMAIN Drop(x, {"acn.network"})
             /\ "acn.network" \notin DOMAIN Drop(x, {"acn.network"})
      BY <2>1 DEF Drop
    <3> QED BY <2>5, <3>1, <3>2
  <2>7. CASE n \notin {Absent, Null}
    <3> DEFINE f == Put(x, "acn.network", Object(WithoutNulls(n.fields)))
    <3>1. N["extensions"] = Object(f)
      BY <1>1, <2>4, <2>7
    <3>2. "unnamespaced" \notin DOMAIN f
             /\ f["acn.network"] = Object(WithoutNulls(n.fields))
      BY <2>1 DEF Put
    <3> HIDE DEF f
    <3> QED BY <2>4, <2>5, <2>7, <3>1, <3>2
  <2>8. CASE n = Absent
    <3>1. N["extensions"] = e["extensions"]
      BY <1>1, <2>8 DEF Absent, Null
    <3> QED BY <2>1, <2>3, <2>8, <3>1 DEF FitsExtensions, Has
  <2> QED BY <2>6, <2>7, <2>8
<1> HIDE DEF N, s
<1>5. Fits(s, N, {"signature"})
  <2>1. /\ DOMAIN s.required = {"specVersion", "messageId", "transactionId",
                                "documentType", "sender", "recipient",
                              "createdAt", "expiresAt", "idempotencyKey", "document"}
        /\ DOMAIN s.optional = {"inReplyTo", "extensions", "signature"}
    BY DEF s, EnvelopeSchema, Doc
  <2>2. /\ DOMAIN s.required \subseteq DOMAIN N
        /\ DOMAIN N \subseteq DOMAIN s.required \cup DOMAIN s.optional
    BY <1>1, <1>2, <2>1 DEF EnvelopeFields
  <2>3. /\ \A k \in DOMAIN s.required : N[k] = e[k]
        /\ \A v : Is(v, "0.1") => FitsField(s.required["specVersion"], v)
        /\ \A v : Is(v, "transaction") => FitsField(s.required["transactionId"], v)
        /\ \A v : Is(v, "agent")
              => FitsField(s.required["sender"], v)
                 /\ FitsField(s.required["recipient"], v)
    <3>1. \A k \in DOMAIN s.required : N[k] = e[k]
      BY <1>1, <2>1, <2>2
    <3>2. /\ s.required["specVersion"] = [is |-> "0.1"]
          /\ s.required["transactionId"] = [is |-> "transaction"]
          /\ s.required["sender"] = [is |-> "agent"]
          /\ s.required["recipient"] = [is |-> "agent"]
      BY DEF s, EnvelopeSchema, Doc
    <3>3. \A v, form : Is(v, form) /\ form \in {"0.1", "transaction", "agent"}
             => FitsField([is |-> form], v)
      BY DEF FitsField
    <3> QED BY <3>1, <3>2, <3>3
  <2>4. /\ s.required["messageId"] = Ref /\ s.required["idempotencyKey"] = Name(255)
        /\ s.required["createdAt"] = Instant /\ s.required["expiresAt"] = Instant
        /\ s.required["documentType"] = OneOf(DOMAIN Schema)
        /\ s.required["document"] = AnyObject
    BY DEF s, EnvelopeSchema, Doc
  <2>5. \A k \in DOMAIN s.required : FitsField(s.required[k], N[k])
    BY <1>2, <2>1, <2>3, <2>4
  <2>6. /\ s.optional["inReplyTo"] = Ref
        /\ \A v : FitsExtensions(v) => FitsField(s.optional["extensions"], v)
    <3>1. s.optional["inReplyTo"] = Ref
             /\ s.optional["extensions"] = [is |-> "extensions"]
      BY DEF s, EnvelopeSchema, Doc
    <3>2. \A v : FitsExtensions(v) => FitsField([is |-> "extensions"], v)
      BY DEF FitsField
    <3> QED BY <3>1, <3>2
  <2> QED BY <1>3, <1>4, <2>1, <2>2, <2>5, <2>6 DEF Fits
<1> QED BY <1>5, FieldsFit DEF s, N
-----------------------------------------------------------------------------
(* The invariant: what the envelope holds was parsed from JSON.            *)
ParsedEnvelope == \A k \in DOMAIN envelope : envelope[k] # Absent /\ Parsed(envelope[k])

(* Strings, words, amounts and empty objects are JSON values.              *)
LEMMA PlainParsed ==
  /\ \A form, n : form \notin {"word", "decimal"}
                     => String(form, n) # Absent /\ Parsed(String(form, n))
  /\ \A w : Word(w) # Absent /\ Parsed(Word(w))
  /\ \A a : Agent(a) # Absent /\ Parsed(Agent(a))
  /\ \A t : Time(t) # Absent /\ Parsed(Time(t))
  /\ \A c, p \in Nat : Amount(c, p) # Absent /\ Parsed(Amount(c, p))
  /\ \A b : Bool(b) # Absent /\ Parsed(Bool(b))
  /\ Object(NoFields) # Absent /\ Parsed(Object(NoFields))
<1> USE DEF Absent, Parsed, Inner, Formed, FormedIn, Fields, Items, NoFields,
            Is, IsString, IsAmount
<1>1. \A form, n : form \notin {"word", "decimal"}
                      => String(form, n) # Absent /\ Parsed(String(form, n))
  BY DEF String
<1>2. \A w : Word(w) # Absent /\ Parsed(Word(w))
  BY DEF Word
<1>3. \A a : Agent(a) # Absent /\ Parsed(Agent(a))
  BY DEF Agent
<1>4. \A t : Time(t) # Absent /\ Parsed(Time(t))
  BY DEF Time, TimeAs
<1>5. \A c, p \in Nat : Amount(c, p) # Absent /\ Parsed(Amount(c, p))
  BY DEF Amount
<1>6. \A b : Bool(b) # Absent /\ Parsed(Bool(b))
  BY DEF Bool
<1>7. Object(NoFields) # Absent /\ Parsed(Object(NoFields))
  BY DEF Object
<1> QED BY <1>1, <1>2, <1>3, <1>4, <1>5, <1>6, <1>7

LEMMA ObjectParsed ==
  ASSUME NEW g
  PROVE  Parsed(Object(g)) <=> \A j \in DOMAIN g :
            g[j] # Absent /\ Formed(g[j]) /\ Inner(g[j])
<1>1. Fields(Object(g)) = g /\ Formed(Object(g)) /\ Items(Object(g)) = <<>>
  BY DEF Object, Fields, Items, Formed, Is, IsString, IsAmount
<1>2. Parsed(Object(g)) <=> FormedIn(g) /\ \A k \in DOMAIN g : Inner(g[k])
  BY <1>1 DEF Parsed, Inner
<1>3. FormedIn(g) <=> \A j \in DOMAIN g : g[j] # Absent /\ Formed(g[j])
  BY DEF FormedIn
<1> QED BY <1>2, <1>3

LEMMA ListParsed ==
  ASSUME NEW s, NEW S, s \in Seq(S), \A i \in DOMAIN s : FormedIn(Fields(s[i]))
  PROVE  List(s) # Absent /\ Formed(List(s)) /\ Inner(List(s))
<1>1. s \in Seq({s[i] : i \in DOMAIN s})
  OBVIOUS
<1>2. List(s) # Absent /\ Formed(List(s))
  BY <1>1 DEF List, Absent, Formed, Is, IsString, IsAmount
<1>3. Items(List(s)) = s /\ Fields(List(s)) = NoFields
  BY DEF List, Items, Fields
<1> QED BY <1>2, <1>3 DEF Inner, FormedIn, NoFields

(* The sample envelopes are JSON.                                          *)
LEMMA SampleFieldParsed ==
  ASSUME NEW k, NEW kind, NEW word
  PROVE  SampleField(k, kind, word) # Absent /\ Parsed(SampleField(k, kind, word))
<1>1. ASSUME NEW j \in DOMAIN SampleAmount
      PROVE  SampleAmount[j] # Absent /\ Parsed(SampleAmount[j])
  BY PlainParsed DEF SampleAmount
<1>2. /\ Text(5) # Absent /\ Parsed(Text(5)) /\ MessageRef # Absent /\ Parsed(MessageRef)
      /\ Code # Absent /\ Parsed(Code)
  BY PlainParsed DEF Text, MessageRef, Code
<1> QED BY <1>1, <1>2, PlainParsed, Zenon DEF SampleField

LEMMA SampleParsed ==
  ASSUME NEW type, NEW full, NEW word
  PROVE  LET e == Sample(type, full, word)
         IN \A k \in DOMAIN e : e[k] # Absent /\ Parsed(e[k])
<1> DEFINE s == Schema[type]
           d == SampleFields(s, full, word)
<1>1. \A k \in DOMAIN d : d[k] # Absent /\ Formed(d[k]) /\ Inner(d[k])
  <2> SUFFICES ASSUME NEW k \in DOMAIN d
               PROVE  d[k] # Absent /\ Formed(d[k]) /\ Inner(d[k])
    OBVIOUS
  <2> DEFINE kind == Properties(s)[k]
             rs   == DOMAIN kind.required
             row  == [r \in rs |-> SampleField(r, kind.required[r], word)]
  <2>1. d[k] = IF kind.is # "rows" THEN SampleField(k, kind, word)
               ELSE List(<<Object(row)>>)
    BY DEF SampleFields
  <2>2. CASE kind.is # "rows"
    BY <2>1, <2>2, SampleFieldParsed DEF Parsed
  <2>3. CASE kind.is = "rows"
    <3>1. FormedIn(row)
      BY SampleFieldParsed DEF FormedIn, Parsed
    <3> HIDE DEF row
    <3>2. Fields(Object(row)) = row
      BY DEF Fields, Object
    <3> DEFINE o == Object(row)
    <3> HIDE DEF o
    <3>3. /\ <<o>> \in Seq({o}) /\ \A i \in DOMAIN <<o>> : <<o>>[i] = o
      OBVIOUS
    <3>4. \A i \in DOMAIN <<o>> : FormedIn(Fields(<<o>>[i]))
      BY <3>1, <3>2, <3>3 DEF o
    <3>5. List(<<o>>) # Absent /\ Formed(List(<<o>>)) /\ Inner(List(<<o>>))
      BY <3>3, <3>4, ListParsed
    <3> QED BY <2>1, <2>3, <3>5 DEF o
  <2> QED BY <2>2, <2>3
<1>2. Object(d) # Absent /\ Parsed(Object(d))
  <2> HIDE DEF d
  <2>1. Object(d) # Absent
    BY DEF Object, Absent
  <2> QED BY <1>1, <2>1, ObjectParsed
<1> DEFINE e == [specVersion |-> Version, messageId |-> MessageRef,
                 transactionId |-> Transaction, documentType |-> Word(type),
                 sender |-> Agent("buyer"), recipient |-> Agent("seller"),
                 createdAt |-> Time(1), expiresAt |-> Time(2),
                 idempotencyKey |-> Text(5), document |-> Object(d)]
<1>3. /\ Version # Absent /\ Parsed(Version) /\ MessageRef # Absent /\ Parsed(MessageRef)
      /\ Transaction # Absent /\ Parsed(Transaction)
      /\ Text(5) # Absent /\ Parsed(Text(5))
  BY PlainParsed DEF Version, MessageRef, Transaction, Text
<1>4. \A k \in DOMAIN e : e[k] # Absent /\ Parsed(e[k])
  <2> HIDE DEF d
  <2> QED BY <1>2, <1>3, PlainParsed
<1>5. \/ Sample(type, full, word) = e
      \/ Sample(type, full, word) = Put(e, "inReplyTo", MessageRef)
  BY DEF Sample
<1> HIDE DEF e, d
<1> QED BY <1>3, <1>4, <1>5 DEF Put

(* An edit leaves JSON.                                                    *)
LEMMA ParsedSet ==
  ASSUME NEW f, NEW k, NEW v \in Values \cup Prices
  PROVE  /\ (\A j \in DOMAIN f : f[j] # Absent /\ Parsed(f[j]))
              => \A j \in DOMAIN Set(f, k, v) :
                 Set(f, k, v)[j] # Absent /\ Parsed(Set(f, k, v)[j])
         /\ Parsed(Object(f)) => Parsed(Object(Set(f, k, v)))
         /\ FormedIn(f) => FormedIn(Set(f, k, v))
<1>1. Parsed(v) /\ Formed(v) /\ Inner(v)
  BY ValuesAssumption DEF Parsed
<1> USE DEF Set, Drop, Put
<1>2. \A j \in DOMAIN Set(f, k, v) :
         (j \in DOMAIN f /\ Set(f, k, v)[j] = f[j]) \/ (v # Absent /\ Set(f, k, v)[j] = v)
  OBVIOUS
<1>3. \A g : Parsed(Object(g))
         <=> \A j \in DOMAIN g : g[j] # Absent /\ Formed(g[j]) /\ Inner(g[j])
  BY ObjectParsed
<1> HIDE DEF Set
<1> QED BY <1>1, <1>2, <1>3 DEF FormedIn

(* Another document leaves the other fields of the envelope as they are.   *)
LEMMA ParsedDocument ==
  ASSUME NEW d, ParsedEnvelope, Parsed(Object(d)),
         Edit(Put(envelope, "document", Object(d)))
  PROVE  ParsedEnvelope'
<1>1. Object(d) # Absent
  BY DEF Object, Absent
<1> QED BY <1>1 DEF Edit, Put, ParsedEnvelope

LEMMA DocumentParsed ==
  ASSUME ParsedEnvelope, Sound
  PROVE  /\ Parsed(Object(Document))
         /\ \A k \in ListKeys :
               /\ \E S : Document[k].items \in Seq(S)
               /\ \A i \in DOMAIN Document[k].items : FormedIn(Fields(Document[k].items[i]))
<1>1. "document" \in DOMAIN envelope /\ envelope["document"].type = "object"
  BY DEF Sound, Get, Absent
<1>2. Parsed(envelope["document"]) /\ Fields(envelope["document"]) = Document
  BY <1>1 DEF ParsedEnvelope, Fields, Document
<1>3. FormedIn(Document) /\ \A k \in DOMAIN Document : Inner(Document[k])
  BY <1>2 DEF Parsed, Inner
<1>4. Parsed(Object(Document))
  BY <1>3, ObjectParsed DEF FormedIn
<1>5. ASSUME NEW k \in ListKeys
      PROVE  /\ \E S : Document[k].items \in Seq(S)
             /\ \A i \in DOMAIN Document[k].items : FormedIn(Fields(Document[k].items[i]))
  <2>1. k \in DOMAIN Document /\ Document[k].type = "array"
        /\ Items(Document[k]) = Document[k].items
    BY DEF ListKeys, Items
  <2>2. Formed(Document[k]) /\ Inner(Document[k])
    BY <1>3, <2>1 DEF FormedIn
  <2>3. \E S : Document[k].items \in Seq(S)
    BY <2>1, <2>2 DEF Formed
  <2> QED BY <2>1, <2>2, <2>3 DEF Inner
<1> QED BY <1>4, <1>5

LEMMA ParsedReplace ==
  ASSUME NEW k \in ListKeys, NEW s, NEW S, s \in Seq(S), ParsedEnvelope, Sound,
         \A i \in DOMAIN s : FormedIn(Fields(s[i])),
         Edit(Put(envelope, "document", Object(Put(Document, k, List(s)))))
  PROVE  ParsedEnvelope'
<1>1. List(s) # Absent /\ Formed(List(s)) /\ Inner(List(s))
  BY ListParsed
<1>2. Parsed(Object(Document))
  BY DocumentParsed
<1>3. \A g : Parsed(Object(g))
         <=> \A j \in DOMAIN g : g[j] # Absent /\ Formed(g[j]) /\ Inner(g[j])
  BY ObjectParsed
<1>4. Parsed(Object(Put(Document, k, List(s))))
  BY <1>1, <1>2, <1>3 DEF Put
<1> QED BY <1>4, ParsedDocument

(* Every envelope that is validated came from JSON: no field is absent,    *)
(* its lists are sequences and its amounts decimals.                       *)
THEOREM EnvelopesParsed == Spec => []ParsedEnvelope
<1>1. Init => ParsedEnvelope
  BY SampleParsed DEF Init, ParsedEnvelope
<1>2. ParsedEnvelope /\ [Next]_vars => ParsedEnvelope'
  <2> SUFFICES ASSUME ParsedEnvelope, [Next]_vars PROVE ParsedEnvelope'
    OBVIOUS
  <2>1. ASSUME NEW k, NEW v \in Values \cup Prices, EditEnvelope(k, v)
        PROVE  ParsedEnvelope'
    BY <2>1, ParsedSet DEF EditEnvelope, Edit, ParsedEnvelope
  <2>2. ASSUME NEW k, NEW v \in Values \cup Prices, EditDocument(k, v)
        PROVE  ParsedEnvelope'
    <3>1. Parsed(Object(Set(Document, k, v)))
      BY <2>2, DocumentParsed, ParsedSet DEF EditDocument
    <3> QED BY <2>2, <3>1, ParsedDocument DEF EditDocument
  <2>3. ASSUME NEW k \in ListKeys, NEW i \in DOMAIN Document[k].items, NEW line, Sound,
               FormedIn(Fields(line)), Replace(k, i, line)
        PROVE  ParsedEnvelope'
    <3> DEFINE old == Document[k].items
               new == [old EXCEPT ![i] = line]
    <3>1. PICK S : old \in Seq(S)
      BY <2>3, DocumentParsed
    <3>2. \A j \in DOMAIN old : FormedIn(Fields(old[j]))
      BY <2>3, DocumentParsed
    <3>3. new \in Seq(S \cup {line}) /\ \A j \in DOMAIN new : FormedIn(Fields(new[j]))
      BY <2>3, <3>1, <3>2
    <3> QED BY <2>3, <3>3, ParsedReplace DEF Replace
  <2>4. ASSUME NEW k, NEW v \in Values \cup Prices, EditLine(k, v) PROVE ParsedEnvelope'
    <3>1. PICK r \in ListKeys : \E i \in DOMAIN Document[r].items :
             /\ Document[r].items[i].type = "object"
             /\ Replace(r, i, Object(Set(Document[r].items[i].fields, k, v)))
      BY <2>4 DEF EditLine
    <3>2. PICK i \in DOMAIN Document[r].items :
             /\ Document[r].items[i].type = "object"
             /\ Replace(r, i, Object(Set(Document[r].items[i].fields, k, v)))
      BY <3>1
    <3> DEFINE f == Document[r].items[i].fields
    <3>3. FormedIn(f)
      BY <2>4, <3>2, DocumentParsed DEF EditLine, Fields
    <3>4. FormedIn(Set(f, k, v)) /\ \A g : Fields(Object(g)) = g
      BY <3>3, ParsedSet DEF Fields, Object
    <3> QED BY <2>3, <2>4, <3>2, <3>4 DEF EditLine
  <2>5. ASSUME NEW v \in Values, BreakLine(v) PROVE ParsedEnvelope'
    <3>1. FormedIn(Fields(v))
      BY ValuesAssumption DEF Parsed, Inner
    <3> QED BY <2>3, <2>5, <3>1 DEF BreakLine
  <2>6. ASSUME AddLine PROVE ParsedEnvelope'
    <3>1. PICK r \in ListKeys :
             /\ Document[r].items # <<>>
             /\ Edit(Put(envelope, "document", Object(Put(Document, r,
                    List(Append(Document[r].items, Document[r].items[1]))))))
      BY <2>6 DEF AddLine
    <3> DEFINE old == Document[r].items
               new == Append(old, old[1])
    <3>2. PICK S : old \in Seq(S)
      BY <2>6, DocumentParsed DEF AddLine
    <3>3. \A j \in DOMAIN old : FormedIn(Fields(old[j]))
      BY <2>6, DocumentParsed DEF AddLine
    <3>4. old # <<>>
      BY <3>1
    <3>5. /\ new \in Seq(S)
          /\ \A j \in DOMAIN new : \/ j \in DOMAIN old /\ new[j] = old[j]
                                   \/ 1 \in DOMAIN old /\ new[j] = old[1]
      <4> HIDE DEF old
      <4> QED BY <3>2, <3>4
    <3>6. \A j \in DOMAIN new : FormedIn(Fields(new[j]))
      BY <3>3, <3>5
    <3> QED BY <2>6, <3>1, <3>5, <3>6, ParsedReplace DEF AddLine
  <2>7. CASE AnyEdit
    BY <2>1, <2>2, <2>4, <2>5, <2>7 DEF AnyEdit
  <2>8. CASE MoneyEdit
    BY <2>2, <2>4, <2>8 DEF MoneyEdit
  <2>9. CASE UNCHANGED vars
    BY <2>9 DEF vars, ParsedEnvelope
  <2> QED BY <2>6, <2>7, <2>8, <2>9 DEF Next
<1> QED BY <1>1, <1>2, PTL DEF Spec

(* The document of an accepted envelope has passed its validator.          *)
LEMMA AcceptedDocument ==
  ASSUME ParsedEnvelope, Accepted
  PROVE  /\ Type \in DocumentTypes
         /\ Validator(Type, Document, Get(envelope, "createdAt").at) = Passed
         /\ FormedIn(Document) /\ Inner(Get(Document, "lines"))
<1>1. ValidateEnvelope(Object(envelope)) = Passed
  BY DEF Accepted, Verdict
<1>2. /\ Get(envelope, "documentType").word \in DocumentTypes
      /\ IsString(Get(envelope, "documentType"))
      /\ Get(envelope, "document").type = "object"
      /\ Dispatch(envelope, Get(envelope, "createdAt").at) = Passed
  BY <1>1, EnvelopeChecks, DocumentTypesAre DEF Is
<1>3. /\ Get(envelope, "documentType") = envelope["documentType"]
      /\ Get(envelope, "document") = envelope["document"]
      /\ "document" \in DOMAIN envelope
  BY <1>2 DEF Get, Absent, IsString
<1>4. Validator(Type, Document, Get(envelope, "createdAt").at) = Passed
  BY <1>2, <1>3, DispatchPassed DEF Type, Document, Fields
<1>5. Parsed(envelope["document"]) /\ Fields(envelope["document"]) = Document
  BY <1>2, <1>3 DEF ParsedEnvelope, Fields, Document
<1>6. FormedIn(Document) /\ \A k \in DOMAIN Document : Inner(Document[k])
  BY <1>5 DEF Parsed, Inner
<1>7. Inner(Get(Document, "lines"))
  BY <1>6 DEF Get, Absent, Inner, Fields, Items, FormedIn, NoFields
<1> QED BY <1>2, <1>3, <1>4, <1>6, <1>7 DEF Type

(* What the library accepts is valid to the schemas, but for the listed    *)
(* fields and nulls: validate_envelope agrees with the schema of the       *)
(* envelope and those of the 22 document types.                            *)
THEOREM AcceptedFits == Spec => []AcceptedFitsSchema
<1>1. ParsedEnvelope => AcceptedFitsSchema
  <2> SUFFICES ASSUME ParsedEnvelope, Accepted
               PROVE  /\ DocumentFaults(Type, Document) \subseteq Unchecked(Type)
                      /\ FieldFaults(EnvelopeSchema, NullsRead(envelope))
                            \subseteq {"signature"}
    BY DEF AcceptedFitsSchema
  <2>1. ValidateEnvelope(Object(envelope)) = Passed
    BY DEF Accepted, Verdict
  <2>2. FormedIn(envelope) /\ \A k \in DOMAIN envelope : Parsed(envelope[k])
    BY DEF ParsedEnvelope, FormedIn, Parsed
  <2>3. FieldFaults(EnvelopeSchema, NullsRead(envelope)) \subseteq {"signature"}
    BY <2>1, <2>2, EnvelopeFits
  <2> QED BY <2>3, AcceptedDocument, ValidatorFits
<1> QED BY <1>1, EnvelopesParsed, PTL
-----------------------------------------------------------------------------
(* No check but In, Match, UniqueRef and Computed can crash.               *)
LEMMA ChecksSafe ==
  /\ \A d, k, n : Nonempty(d, k, n) # Crashed
  /\ \A d, k, n : OptionalText(d, k, n) # Crashed
  /\ \A d, k : Reference(d, k) # Crashed
  /\ \A d, k : Timestamp(d, k) # Crashed
  /\ \A d : Currency(d) # Crashed
  /\ \A d, k, t : After(d, k, t) # Crashed
  /\ \A d, k, p : Decimal(d, k, p) # Crashed
  /\ \A d, k, p : Positive(d, k, p) # Crashed
  /\ \A d, r, o : ExactFields(d, r, o) # Crashed
  /\ \A d, ks : Known(d, ks) # Crashed
  /\ \A d, ks : Given(d, ks) # Crashed
  /\ \A d, k : LineList(d, k) # Crashed
  /\ \A d, k, i : IsLine(d, k, i) # Crashed
  /\ \A d : Sum(d, "subtotal", "tax") = Passed => TaxedTotal(d) # Crashed
  /\ \A d : RejectionReason(d) # Crashed
  /\ \A d, f, w, k : Explained(d, f, w, k) # Crashed
  /\ \A d : LinesTotal(d) # Crashed
  /\ \A d : Product(d) = Passed => LineAmounts(d) # Crashed
  /\ \A d, k, amount : amount # Crashed => OptionalMoney(d, k, amount) # Crashed
<1> USE RequireSafe
<1>1. \A d, k, n : Nonempty(d, k, n) # Crashed
  BY DEF Nonempty
<1>2. \A d, k, n : OptionalText(d, k, n) # Crashed
  BY <1>1 DEF OptionalText, Passed, Crashed
<1>3. (\A d, k : Reference(d, k) # Crashed) /\ (\A d, k : Timestamp(d, k) # Crashed)
  BY DEF Reference, Timestamp
<1>4. (\A d : Currency(d) # Crashed) /\ (\A d, k, t : After(d, k, t) # Crashed)
  BY DEF Currency, After
<1>5. (\A d, k, p : Decimal(d, k, p) # Crashed)
         /\ (\A d, k, p : Positive(d, k, p) # Crashed)
  BY DEF Decimal, Positive
<1>6. \A d, r, o : ExactFields(d, r, o) # Crashed
  BY DEF ExactFields
<1>7. (\A d, ks : Known(d, ks) # Crashed) /\ (\A d, ks : Given(d, ks) # Crashed)
  BY DEF Known, Given
<1>8. (\A d, k : LineList(d, k) # Crashed) /\ (\A d, k, i : IsLine(d, k, i) # Crashed)
  BY DEF LineList, IsLine
<1>9. /\ \A d : Sum(d, "subtotal", "tax") = Passed => TaxedTotal(d) # Crashed
      /\ \A d : RejectionReason(d) # Crashed
  BY First2 DEF TaxedTotal, Sum, RejectionReason, Nonempty
<1>10. \A d, f, w, k : Explained(d, f, w, k) # Crashed
  BY <1>1 DEF Explained, Passed, Crashed
<1>11. \A d : LinesTotal(d) # Crashed
  BY <1>5, First2 DEF LinesTotal
<1>12. \A d : Product(d) = Passed => LineAmounts(d) # Crashed
  BY <1>5, First5 DEF LineAmounts, Product
<1>13. \A d, k, amount : amount # Crashed => OptionalMoney(d, k, amount) # Crashed
  BY <1>4, First3 DEF OptionalMoney, Passed, Crashed
<1> QED BY <1>1, <1>2, <1>3, <1>4, <1>5, <1>6, <1>7, <1>8, <1>9, <1>10, <1>11, <1>12,
           <1>13

(* The first three cannot crash on a value of the type they expect.        *)
LEMMA TypedSafe ==
  /\ \A v, words : Hashable(v) => In(v, words) # Crashed
  /\ \A v, form : IsString(v) => Match(v, form) # Crashed
  /\ \A lines, i, ref : Hashable(Get(lines[i], ref)) => UniqueRef(lines, i, ref) # Crashed
BY RequireSafe DEF In, Match, UniqueRef

(* A third check that refuses hides what the later ones would raise.       *)
LEMMA RefusedEarly ==
  ASSUME NEW n \in Nat, NEW checks, DOMAIN checks = 1 .. n, 3 \in DOMAIN checks,
         checks[1] # Crashed, checks[2] # Crashed, checks[3] \notin {Passed, Crashed}
  PROVE  First(checks) # Crashed
<1> SUFFICES ASSUME First(checks) = Crashed
             PROVE  FALSE
  OBVIOUS
<1>1. PICK i \in 1 .. n : checks[i] = Crashed /\ \A j \in 1 .. i - 1 : checks[j] = Passed
  BY FirstCrashed
<1>2. i \notin 1 .. 3 /\ 3 \notin 1 .. i - 1
  BY <1>1
<1> QED BY <1>2

(* A line's reference is hashed after it is known to be a string, but in   *)
(* RFQ items and quotation lines.                                          *)
LEMMA LinesSafe ==
  ASSUME NEW d, NEW i
  PROVE  LET item == Lines(d, "items")[i]
             line == Lines(d, "lines")[i]
         IN /\ Hashable(Get(item, "lineId")) => RfqItem(d, i) # Crashed
            /\ /\ Hashable(Get(line, "rfqLineId")) /\ Product(line) = Passed
               /\ Added(Lines(d, "lines"), i) = Passed
               => QuotationLine(d, i) # Crashed
            /\ Product(line) = Passed /\ Added(Lines(d, "lines"), i) = Passed
               => OrderLine(d, i) # Crashed
            /\ ShippedLine(d, i) # Crashed /\ ReturnLine(d, i) # Crashed
            /\ Sum(line, "acceptedQuantity", "rejectedQuantity") = Passed
               => ReceivedLine(d, i) # Crashed
<1> USE RequireSafe, ChecksSafe, TypedSafe
<1> DEFINE item == Lines(d, "items")[i]
           ls   == Lines(d, "lines")
           line == ls[i]
           ref  == Get(line, "rfqLineId")
<1>1. Hashable(Get(item, "lineId")) => RfqItem(d, i) # Crashed
  BY First5 DEF RfqItem
<1>2. Hashable(ref) /\ Product(line) = Passed /\ Added(ls, i) = Passed
      => QuotationLine(d, i) # Crashed
  BY First6 DEF QuotationLine
<1>3. /\ IsString(ref) => Hashable(ref)
      /\ ~IsString(ref) => Nonempty(line, "rfqLineId", 128) # Passed
  BY DEF IsString, Hashable, Nonempty, Length, Require, Passed, Refused
<1>4. Product(line) = Passed /\ Added(ls, i) = Passed => OrderLine(d, i) # Crashed
  <2> DEFINE s == <<IsLine(d, "lines", i), ExactFields(line, PricedFields, {}),
                    Nonempty(line, "rfqLineId", 128), UniqueRef(ls, i, "rfqLineId"),
                    Nonempty(line, "unit", 32), LineAmounts(line), Added(ls, i)>>
  <2>1. CASE IsString(ref)
    BY <1>3, <2>1, First7 DEF OrderLine
  <2>2. CASE ~IsString(ref)
    <3>1. /\ DOMAIN s = 1 .. 7 /\ s[1] = IsLine(d, "lines", i)
          /\ s[2] = ExactFields(line, PricedFields, {})
          /\ s[3] = Nonempty(line, "rfqLineId", 128)
          /\ OrderLine(d, i) = First(s)
      BY DEF OrderLine
    <3> HIDE DEF s
    <3>2. s[1] # Crashed /\ s[2] # Crashed /\ s[3] \notin {Passed, Crashed}
      BY <1>3, <2>2, <3>1
    <3>3. 7 \in Nat /\ 3 \in 1 .. 7
      OBVIOUS
    <3>4. First(s) # Crashed
      BY <3>1, <3>2, <3>3, RefusedEarly
    <3> QED BY <3>1, <3>4
  <2> QED BY <2>1, <2>2
<1>5. ShippedLine(d, i) # Crashed
  <2> DEFINE s == <<IsLine(d, "lines", i), ExactFields(line, {"rfqLineId", "quantity", "unit"}, {}),
                    Nonempty(line, "rfqLineId", 128), UniqueRef(ls, i, "rfqLineId"),
                    Positive(line, "quantity", 6), Nonempty(line, "unit", 32)>>
  <2>1. CASE IsString(ref)
    BY <1>3, <2>1, First6 DEF ShippedLine
  <2>2. CASE ~IsString(ref)
    <3>1. /\ DOMAIN s = 1 .. 6 /\ s[1] = IsLine(d, "lines", i)
          /\ s[2] = ExactFields(line, {"rfqLineId", "quantity", "unit"}, {})
          /\ s[3] = Nonempty(line, "rfqLineId", 128)
          /\ ShippedLine(d, i) = First(s)
      BY DEF ShippedLine
    <3> HIDE DEF s
    <3>2. s[1] # Crashed /\ s[2] # Crashed /\ s[3] \notin {Passed, Crashed}
      BY <1>3, <2>2, <3>1
    <3>3. 6 \in Nat /\ 3 \in 1 .. 6
      OBVIOUS
    <3>4. First(s) # Crashed
      BY <3>1, <3>2, <3>3, RefusedEarly
    <3> QED BY <3>1, <3>4
  <2> QED BY <2>1, <2>2
<1>6. ReturnLine(d, i) # Crashed
  <2> DEFINE s == <<IsLine(d, "lines", i),
                    ExactFields(line, {"rfqLineId", "quantity", "unit"}, {"reason"}),
                    Nonempty(line, "rfqLineId", 128), UniqueRef(ls, i, "rfqLineId"),
                    Positive(line, "quantity", 6), Nonempty(line, "unit", 32),
                    OptionalText(line, "reason", 500)>>
  <2>1. CASE IsString(ref)
    BY <1>3, <2>1, First7 DEF ReturnLine
  <2>2. CASE ~IsString(ref)
    <3>1. /\ DOMAIN s = 1 .. 7 /\ s[1] = IsLine(d, "lines", i)
          /\ s[2] = ExactFields(line, {"rfqLineId", "quantity", "unit"}, {"reason"})
          /\ s[3] = Nonempty(line, "rfqLineId", 128)
          /\ ReturnLine(d, i) = First(s)
      BY DEF ReturnLine
    <3> HIDE DEF s
    <3>2. s[1] # Crashed /\ s[2] # Crashed /\ s[3] \notin {Passed, Crashed}
      BY <1>3, <2>2, <3>1
    <3>3. 7 \in Nat /\ 3 \in 1 .. 7
      OBVIOUS
    <3>4. First(s) # Crashed
      BY <3>1, <3>2, <3>3, RefusedEarly
    <3> QED BY <3>1, <3>4
  <2> QED BY <2>1, <2>2
<1>7. Sum(line, "acceptedQuantity", "rejectedQuantity") = Passed => ReceivedLine(d, i) # Crashed
  <2> DEFINE accepted == Get(line, "acceptedQuantity")
             rejected == Get(line, "rejectedQuantity")
             some     == Require(IsAmount(accepted) /\ IsAmount(rejected)
                                 => Plus(accepted, rejected).coef > 0)
             reason   == IF IsAmount(rejected) /\ rejected.coef > 0
                         THEN Nonempty(line, "rejectionReason", 500)
                         ELSE Require(~Has(line, "rejectionReason"))
             exact    == ExactFields(line, {"rfqLineId", "acceptedQuantity",
                                            "rejectedQuantity", "unit"}, {"rejectionReason"})
             s == <<IsLine(d, "lines", i), exact,
                    Nonempty(line, "rfqLineId", 128), UniqueRef(ls, i, "rfqLineId"),
                    Decimal(line, "acceptedQuantity", 6), Decimal(line, "rejectedQuantity", 6),
                    Sum(line, "acceptedQuantity", "rejectedQuantity"), some,
                    Nonempty(line, "unit", 32), reason>>
  <2>1. ReceivedLine(d, i) = First(s)
    BY DEF ReceivedLine, Sum
  <2>2. exact # Crashed /\ some # Crashed /\ reason # Crashed
    OBVIOUS
  <2> HIDE DEF some, reason, exact
  <2>3. CASE IsString(ref)
    BY <1>3, <2>1, <2>2, <2>3, First10
  <2>4. CASE ~IsString(ref)
    <3>1. /\ DOMAIN s = 1 .. 10 /\ s[1] = IsLine(d, "lines", i) /\ s[2] = exact
          /\ s[3] = Nonempty(line, "rfqLineId", 128)
      OBVIOUS
    <3> HIDE DEF s
    <3>2. s[1] # Crashed /\ s[2] # Crashed /\ s[3] \notin {Passed, Crashed}
      BY <1>3, <2>2, <2>4, <3>1
    <3>3. 10 \in Nat /\ 3 \in 1 .. 10
      OBVIOUS
    <3>4. First(s) # Crashed
      BY <3>1, <3>2, <3>3, RefusedEarly
    <3> QED BY <2>1, <3>4
  <2> QED BY <2>3, <2>4
<1> QED BY <1>1, <1>2, <1>4, <1>5, <1>6, <1>7

(* The documents without lines.                                            *)
LEMMA TransactionCancellationSafe ==
  ASSUME NEW d
  PROVE  ValidateTransactionCancellation(d) # Crashed
BY First4, RequireSafe, ChecksSafe DEF ValidateTransactionCancellation

LEMMA OrderCancellationRequestSafe ==
  ASSUME NEW d
  PROVE  ValidateOrderCancellationRequest(d) # Crashed
BY First5, RequireSafe, ChecksSafe DEF ValidateOrderCancellationRequest

LEMMA OrderCancellationResponseSafe ==
  ASSUME NEW d
  PROVE  ValidateOrderCancellationResponse(d) # Crashed
BY First6, RequireSafe, ChecksSafe DEF ValidateOrderCancellationResponse

LEMMA AcceptanceSafe ==
  ASSUME NEW d
  PROVE  ValidateAcceptance(d) # Crashed
BY First2, RequireSafe, ChecksSafe DEF ValidateAcceptance

LEMMA OrderAcknowledgementSafe ==
  ASSUME NEW d, NEW created
  PROVE  ValidateOrderAcknowledgement(d, created) # Crashed
<1> DEFINE last == IF Get(d, "accepted") = Bool(TRUE) /\ Has(d, "expectedDeliveryAt")
                   THEN After(d, "expectedDeliveryAt", created) ELSE Passed
<1>1. ValidateOrderAcknowledgement(d, created) = First(<<
        ExactFields(d, {"purchaseOrderMessageId", "orderNumber", "accepted"},
                       {"expectedDeliveryAt", "rejectionReason"}),
        Reference(d, "purchaseOrderMessageId"), Nonempty(d, "orderNumber", 128),
        Require(Get(d, "accepted").type = "boolean"), RejectionReason(d), last>>)
  BY DEF ValidateOrderAcknowledgement
<1>2. last # Crashed
  BY RequireSafe, ChecksSafe
<1> HIDE DEF last
<1> QED BY <1>1, <1>2, First6, RequireSafe, ChecksSafe

LEMMA FulfillmentSafe ==
  ASSUME NEW d, Hashable(Get(d, "status"))
  PROVE  ValidateFulfillment(d) # Crashed
BY First7, RequireSafe, ChecksSafe, TypedSafe DEF ValidateFulfillment

LEMMA InvoiceSafe ==
  ASSUME NEW d, NEW created, Sum(d, "subtotal", "tax") = Passed
  PROVE  ValidateInvoice(d, created) # Crashed
BY First9, RequireSafe, ChecksSafe DEF ValidateInvoice

LEMMA PaymentIntentSafe ==
  ASSUME NEW d
  PROVE  ValidatePaymentIntent(d) # Crashed
BY First7, RequireSafe, ChecksSafe DEF ValidatePaymentIntent

LEMMA ApprovalEvidenceSafe ==
  ASSUME NEW d, Hashable(Get(d, "decision"))
  PROVE  ValidateApprovalEvidence(d) # Crashed
BY First8, RequireSafe, ChecksSafe, TypedSafe DEF ValidateApprovalEvidence

LEMMA PaymentResultSafe ==
  ASSUME NEW d, Hashable(Get(d, "status"))
  PROVE  ValidatePaymentResult(d) # Crashed
BY First9, RequireSafe, ChecksSafe, TypedSafe DEF ValidatePaymentResult

LEMMA SettlementSafe ==
  ASSUME NEW d, Hashable(Get(d, "status"))
  PROVE  ValidateSettlement(d) # Crashed
BY First8, RequireSafe, ChecksSafe, TypedSafe DEF ValidateSettlement

LEMMA DisputeOpenedSafe ==
  ASSUME NEW d, Hashable(Get(d, "category"))
  PROVE  ValidateDisputeOpened(d) # Crashed
BY First6, RequireSafe, ChecksSafe, TypedSafe DEF ValidateDisputeOpened

LEMMA DisputeResolvedSafe ==
  ASSUME NEW d, Hashable(Get(d, "resolution"))
  PROVE  ValidateDisputeResolved(d) # Crashed
BY First6, RequireSafe, ChecksSafe, TypedSafe DEF ValidateDisputeResolved

LEMMA CreditNoteSafe ==
  ASSUME NEW d, Sum(d, "subtotal", "tax") = Passed
  PROVE  ValidateCreditNote(d) # Crashed
BY First11, RequireSafe, ChecksSafe DEF ValidateCreditNote

(* The documents with lines.                                               *)
LEMMA RfqSafe ==
  ASSUME NEW d, NEW created, Formed(Get(d, "items")),
         "currency" \in DOMAIN d => IsString(d["currency"]),
         \A i \in DOMAIN Lines(d, "items") : Hashable(Get(Lines(d, "items")[i], "lineId"))
  PROVE  ValidateRfq(d, created) # Crashed
<1> DEFINE rows == [i \in 1 .. Len(Lines(d, "items")) |-> RfqItem(d, i)]
<1>1. ValidateRfq(d, created)
         = First(<<ExactFields(d,
                               {"currency", "deliveryLocation", "responseDeadline",
                                "items"}, {}),
                        Match(Get(d, "currency"), "currency"),
                        After(d, "responseDeadline", created),
                        LineList(d, "items"), First(rows)>>)
  BY DEF ValidateRfq, Each
<1>2. DOMAIN rows = 1 .. Len(Lines(d, "items")) /\ \A i \in DOMAIN rows :
         rows[i] = RfqItem(d, i)
  OBVIOUS
<1> HIDE DEF rows
<1>3. First(rows) # Crashed
  BY <1>2, LinesPass, LinesAre, LinesSafe
<1>4. ExactFields(d, {"currency", "deliveryLocation", "responseDeadline", "items"}, {})
         = Passed => Match(Get(d, "currency"), "currency") # Crashed
  BY TypedSafe DEF ExactFields, Get, Require, Passed, Refused
<1> QED BY <1>1, <1>3, <1>4, First5, ChecksSafe

LEMMA QuotationSafe ==
  ASSUME NEW d, NEW created, Formed(Get(d, "lines")),
         "currency" \in DOMAIN d => IsString(d["currency"]),
         \A i \in DOMAIN Lines(d, "lines") :
            Hashable(Get(Lines(d, "lines")[i], "rfqLineId")),
         \A i \in DOMAIN Lines(d, "lines") :
            Product(Lines(d, "lines")[i]) = Passed /\ Added(Lines(d, "lines"), i) = Passed
  PROVE  ValidateQuotation(d, created) # Crashed
<1> DEFINE rows == [i \in 1 .. Len(Lines(d, "lines")) |-> QuotationLine(d, i)]
<1>1. ValidateQuotation(d, created)
         = First(<<ExactFields(d, {"currency", "validUntil", "lines", "total"},
                               {"paymentTerms", "deliveryTerms"}),
                        Match(Get(d, "currency"), "currency"),
                        After(d, "validUntil", created),
                        LineList(d, "lines"), First(rows), LinesTotal(d)>>)
  BY DEF ValidateQuotation, Each
<1>2. DOMAIN rows = 1 .. Len(Lines(d, "lines")) /\ \A i \in DOMAIN rows :
         rows[i] = QuotationLine(d, i)
  OBVIOUS
<1> HIDE DEF rows
<1>3. First(rows) # Crashed
  BY <1>2, LinesPass, LinesAre, LinesSafe
<1>4. ExactFields(d, {"currency", "validUntil", "lines", "total"},
                  {"paymentTerms", "deliveryTerms"}) = Passed
                     => Match(Get(d, "currency"), "currency") # Crashed
  BY TypedSafe DEF ExactFields, Get, Require, Passed, Refused
<1> QED BY <1>1, <1>3, <1>4, First6, ChecksSafe

LEMMA OrderSafe ==
  ASSUME NEW d, Formed(Get(d, "lines")),
         \A i \in DOMAIN Lines(d, "lines") :
            Product(Lines(d, "lines")[i]) = Passed /\ Added(Lines(d, "lines"), i) = Passed
  PROVE  ValidateOrder(d) # Crashed
<1> DEFINE rows == [i \in 1 .. Len(Lines(d, "lines")) |-> OrderLine(d, i)]
<1>1. ValidateOrder(d) = First(<<ExactFields(d,
                                             {"orderNumber", "quotationMessageId",
                                                "currency", "deliveryLocation", "lines",
                                                   "total"}, {}),
                        Nonempty(d, "orderNumber", 128),
                        Reference(d, "quotationMessageId"), Currency(d),
                        Nonempty(d, "deliveryLocation", 500),
                        LineList(d, "lines"), First(rows), LinesTotal(d)>>)
  BY DEF ValidateOrder, Each
<1>2. DOMAIN rows = 1 .. Len(Lines(d, "lines")) /\ \A i \in DOMAIN rows :
         rows[i] = OrderLine(d, i)
  OBVIOUS
<1> HIDE DEF rows
<1>3. First(rows) # Crashed
  BY <1>2, LinesPass, LinesAre, LinesSafe
<1> QED BY <1>1, <1>3, First8, ChecksSafe

LEMMA ShipmentNoticeSafe ==
  ASSUME NEW d, Formed(Get(d, "lines"))
  PROVE  ValidateShipmentNotice(d) # Crashed
<1> DEFINE rows == [i \in 1 .. Len(Lines(d, "lines")) |-> ShippedLine(d, i)]
<1>1. ValidateShipmentNotice(d)
         = First(<<ExactFields(d,
                               {"shipmentId", "purchaseOrderMessageId", "orderNumber",
                                "shippedAt", "lines"}, {"carrier", "trackingReference"}),
                        Nonempty(d, "shipmentId", 128),
                        Reference(d, "purchaseOrderMessageId"),
                        Nonempty(d, "orderNumber", 128),
                        Timestamp(d, "shippedAt"), LineList(d, "lines"),
                        First(rows)>>)
  BY DEF ValidateShipmentNotice, Each
<1>2. DOMAIN rows = 1 .. Len(Lines(d, "lines")) /\ \A i \in DOMAIN rows :
         rows[i] = ShippedLine(d, i)
  OBVIOUS
<1> HIDE DEF rows
<1>3. First(rows) # Crashed
  BY <1>2, LinesPass, LinesAre, LinesSafe
<1> QED BY <1>1, <1>3, First7, ChecksSafe

LEMMA GoodsReceiptSafe ==
  ASSUME NEW d, Formed(Get(d, "lines")),
         \A i \in DOMAIN Lines(d, "lines") :
            Sum(Lines(d, "lines")[i], "acceptedQuantity", "rejectedQuantity") = Passed
  PROVE  ValidateGoodsReceipt(d) # Crashed
<1> DEFINE rows == [i \in 1 .. Len(Lines(d, "lines")) |-> ReceivedLine(d, i)]
<1>1. ValidateGoodsReceipt(d)
         = First(<<ExactFields(d,
                               {"receiptId", "shipmentNoticeMessageId", "orderNumber",
                                "receivedAt", "lines"}, {"note"}),
                        Nonempty(d, "receiptId", 128),
                        Reference(d, "shipmentNoticeMessageId"),
                        Nonempty(d, "orderNumber", 128),
                        Timestamp(d, "receivedAt"), LineList(d, "lines"),
                        First(rows)>>)
  BY DEF ValidateGoodsReceipt, Each
<1>2. DOMAIN rows = 1 .. Len(Lines(d, "lines")) /\ \A i \in DOMAIN rows :
         rows[i] = ReceivedLine(d, i)
  OBVIOUS
<1> HIDE DEF rows
<1>3. First(rows) # Crashed
  BY <1>2, LinesPass, LinesAre, LinesSafe
<1> QED BY <1>1, <1>3, First7, ChecksSafe

LEMMA ReturnLinesSafe ==
  ASSUME NEW d, Formed(Get(d, "lines"))
  PROVE  ValidateReturnLines(d) # Crashed
<1> DEFINE rows == [i \in 1 .. Len(Lines(d, "lines")) |-> ReturnLine(d, i)]
<1>1. ValidateReturnLines(d) = First(<<LineList(d, "lines"), First(rows)>>)
  BY DEF ValidateReturnLines, Each
<1>2. DOMAIN rows = 1 .. Len(Lines(d, "lines")) /\ \A i \in DOMAIN rows :
         rows[i] = ReturnLine(d, i)
  OBVIOUS
<1> HIDE DEF rows
<1>3. First(rows) # Crashed
  BY <1>2, LinesPass, LinesAre, LinesSafe
<1> QED BY <1>1, <1>3, First2, ChecksSafe

LEMMA ReturnAuthorizationSafe ==
  ASSUME NEW d, NEW created, Formed(Get(d, "lines"))
  PROVE  ValidateReturnAuthorization(d, created) # Crashed
BY First7, ReturnLinesSafe, ChecksSafe DEF ValidateReturnAuthorization

LEMMA ReturnReceiptSafe ==
  ASSUME NEW d, Formed(Get(d, "lines"))
  PROVE  ValidateReturnReceipt(d) # Crashed
BY First6, ReturnLinesSafe, ChecksSafe DEF ValidateReturnReceipt

LEMMA CounterofferSafe ==
  ASSUME NEW d, NEW created, Formed(Get(d, "lines")),
         "currency" \in DOMAIN d => IsString(d["currency"]),
         \A i \in DOMAIN Lines(d, "lines") :
            Hashable(Get(Lines(d, "lines")[i], "rfqLineId")),
         \A i \in DOMAIN Lines(d, "lines") :
            Product(Lines(d, "lines")[i]) = Passed /\ Added(Lines(d, "lines"), i) = Passed
  PROVE  ValidateCounteroffer(d, created) # Crashed
<1> DEFINE q == Drop(d, {"quotationMessageId", "reason"})
<1>1. Get(q, "lines") = Get(d, "lines") /\ Lines(q, "lines") = Lines(d, "lines")
      /\ ("currency" \in DOMAIN q
            => "currency" \in DOMAIN d /\ q["currency"] = d["currency"])
  BY DEF Drop, Get, Lines
<1>2. ValidateQuotation(q, created) # Crashed
  <2> HIDE DEF q
  <2> QED BY <1>1, QuotationSafe
<1> QED BY <1>2, First3, ChecksSafe DEF ValidateCounteroffer

(* No validator crashes on a document whose looked up fields are such that *)
(* they can be, and whose amounts are in range, nor does the check of the  *)
(* extensions.                                                             *)
LEMMA ValidatorSafe ==
  ASSUME NEW type \in DocumentTypes, NEW d, NEW created, FormedIn(d),
         Expected(type, d), InRange(d)
  PROVE  Validator(type, d, created) # Crashed
<1>1. Formed(Get(d, "lines")) /\ Formed(Get(d, "items"))
  BY FormedGet
<1>2. /\ Sum(d, "subtotal", "tax") = Passed
      /\ \A i \in DOMAIN Lines(d, "lines") :
            /\ Product(Lines(d, "lines")[i]) = Passed /\ Added(Lines(d, "lines"), i) = Passed
            /\ Sum(Lines(d, "lines")[i], "acceptedQuantity", "rejectedQuantity") = Passed
  BY DEF InRange
<1>3. /\ type = "fulfillment_status" => Hashable(Get(d, "status"))
      /\ type = "approval_evidence" => Hashable(Get(d, "decision"))
      /\ type = "payment_result" => Hashable(Get(d, "status"))
      /\ type = "settlement_confirmation" => Hashable(Get(d, "status"))
      /\ type = "dispute_opened" => Hashable(Get(d, "category"))
      /\ type = "dispute_resolved" => Hashable(Get(d, "resolution"))
  BY DEF Expected, LookedUp
<1>4. /\ type \in {"request_for_quote", "quotation", "quotation_counteroffer"}
         => ("currency" \in DOMAIN d => IsString(d["currency"]))
      /\ type = "request_for_quote" => \A i \in DOMAIN Lines(d, "items") :
            Hashable(Get(Lines(d, "items")[i], "lineId"))
      /\ type \in {"quotation", "quotation_counteroffer"}
         => \A i \in DOMAIN Lines(d, "lines") :
               Hashable(Get(Lines(d, "lines")[i], "rfqLineId"))
  BY DEF Expected, EarlyRefs, Has
<1>5. CASE type \in {"request_for_quote", "quotation", "quotation_counteroffer"}
  BY <1>1, <1>2, <1>4, <1>5, ValidatorIs, RfqSafe, QuotationSafe, CounterofferSafe
<1>6. CASE type \in {"transaction_cancellation", "order_cancellation_request",
                     "order_cancellation_response", "quotation_acceptance",
                     "order_acknowledgement", "payment_intent"}
  BY <1>6, ValidatorIs, TransactionCancellationSafe, OrderCancellationRequestSafe,
     OrderCancellationResponseSafe, AcceptanceSafe, OrderAcknowledgementSafe,
     PaymentIntentSafe
<1>7. CASE type \in {"shipment_notice", "goods_receipt", "purchase_order",
                     "return_authorization", "return_receipt"}
  BY <1>1, <1>2, <1>7, ValidatorIs, ShipmentNoticeSafe, GoodsReceiptSafe, OrderSafe,
     ReturnAuthorizationSafe, ReturnReceiptSafe
<1>8. CASE type \in {"fulfillment_status", "approval_evidence", "payment_result",
                     "settlement_confirmation", "dispute_opened", "dispute_resolved"}
  BY <1>3, <1>8, ValidatorIs, FulfillmentSafe, ApprovalEvidenceSafe, PaymentResultSafe,
     SettlementSafe, DisputeOpenedSafe, DisputeResolvedSafe
<1>9. CASE type \in {"invoice", "credit_note"}
  BY <1>2, <1>9, ValidatorIs, InvoiceSafe, CreditNoteSafe
<1> QED BY DocumentTypesAre, <1>5, <1>6, <1>7, <1>8, <1>9 DEF ReplyDocuments

LEMMA NetworkSafe ==
  ASSUME NEW n, NEW type, Formed(Get(Fields(n), "productCategories")),
         LET c == Items(Get(Fields(n), "productCategories")) IN \A i \in DOMAIN c :
            Hashable(c[i])
  PROVE  NetworkExtension(n, type) # Crashed
<1> DEFINE f          == Fields(n)
           categories == IF Has(f, "productCategories")
              THEN f["productCategories"] ELSE List(<<>>)
           cs         == Items(categories)
           evidence   == Get(f, "reservationEvidence")
           e          == Fields(evidence)
<1>1. \A i \in 1 .. Len(cs) : Hashable(cs[i])
  <2>1. cs = Items(Get(f, "productCategories"))
    BY DEF Has, Get, Absent, Items, List
  <2>2. DOMAIN cs = 1 .. Len(cs)
    BY <2>1 DEF Items, Formed
  <2> QED BY <2>1, <2>2
<1>2. First(<<
           Require(type = Word("purchase_order")),
           Require(evidence.type = "object" /\ DOMAIN e = Evidence),
           Nonempty(e, "reservationId", 255), Nonempty(e, "provider", 255),
           Reference(e, "quotationMessageId"),
              Require(Is(Get(e, "evidenceHash"), "hash")),
           Timestamp(e, "expiresAt")>>) # Crashed
  BY First7, RequireSafe, ChecksSafe
<1> DEFINE hashed == IF \A i \in 1 .. Len(cs) : Hashable(cs[i]) THEN Passed ELSE Crashed
           proof  == IF evidence \in {Absent, Null} THEN Passed
                     ELSE First(<<
                       Require(type = Word("purchase_order")),
                       Require(evidence.type = "object" /\ DOMAIN e = Evidence),
                       Nonempty(e, "reservationId", 255), Nonempty(e, "provider", 255),
                       Reference(e, "quotationMessageId"),
                          Require(Is(Get(e, "evidenceHash"), "hash")),
                       Timestamp(e, "expiresAt")>>)
           object == Require(n.type = "object"
                             /\ DOMAIN f \subseteq {"productCategories",
                                   "reservationEvidence"})
           list   == Require(categories.type = "array" /\ Len(cs) <= 100)
           named  == Require(\A i \in 1 .. Len(cs) : /\ Is(cs[i], "category")
                                                    /\ \A j \in 1 .. i - 1 :
                                                          cs[j] # cs[i])
<1>3. hashed # Crashed /\ proof # Crashed /\ object # Crashed /\ list # Crashed
         /\ named # Crashed
  BY <1>1, <1>2, RequireSafe
<1>4. NetworkExtension(n, type) = IF n \in {Absent, Null} THEN Passed
                                  ELSE First(<<object, list, hashed, named, proof>>)
  BY Zenon DEF NetworkExtension
<1> HIDE DEF hashed, proof, object, list, named
<1> QED BY <1>3, <1>4, First5, RequireSafe

(* "rejects every invalid envelope ... with self.assertRaises              *)
(* (ContractError)": no value of any JSON type in any field raises another *)
(* error, but for the excuses of Handled.                                  *)
THEOREM RejectedWithContractErrors == Spec => []OnlyContractErrors
<1>1. ParsedEnvelope => OnlyContractErrors
  <2> SUFFICES ASSUME ParsedEnvelope, Handled, ValidateEnvelope(Object(envelope)) = Crashed
               PROVE  FALSE
    BY DEF OnlyContractErrors, Verdict
  <2> DEFINE extensions == IF Has(envelope, "extensions") THEN envelope["extensions"]
                           ELSE Object(NoFields)
             created == Get(envelope, "createdAt")
             type    == Get(envelope, "documentType")
             last    == IF /\ Is(created, "time") /\ Is(type, "word")
                           /\ type.word \in ReplyDocuments \cup {"request_for_quote"}
                        THEN Dispatch(envelope, created.at) ELSE Passed
  <2>1. NetworkExtension(Get(Fields(extensions), "acn.network"), type) # Crashed
    <3> DEFINE n == Get(Fields(extensions), "acn.network")
    <3>1. Fields(extensions) = Fields(Get(envelope, "extensions"))
      BY DEF Has, Get, Fields, Object, Absent
    <3>2. LET c == Items(Get(Fields(n), "productCategories")) IN \A i \in DOMAIN c :
             Hashable(c[i])
      BY <3>1 DEF Handled, Categories
    <3>3. Formed(Get(Fields(n), "productCategories"))
      <4>1. "acn.network" \in DOMAIN Fields(extensions) => FormedIn(Fields(n))
        BY DEF ParsedEnvelope, Parsed, Inner, Has, Get, Fields, Object, NoFields
      <4>2. "acn.network" \notin DOMAIN Fields(extensions) => Fields(n) = NoFields
        BY DEF Get, Absent, Fields
      <4>3. FormedIn(NoFields)
        BY DEF FormedIn, NoFields
      <4> HIDE DEF n
      <4> QED BY <4>1, <4>2, <4>3, FormedGet
    <3> QED BY <3>2, <3>3, NetworkSafe
  <2>2. In(type, ReplyDocuments \cup {"request_for_quote"}) # Crashed
    BY TypedSafe DEF Handled
  <2>3. Get(envelope, "document").type = "object" => last # Crashed
    <3> SUFFICES ASSUME Get(envelope, "document").type = "object", last = Crashed
                 PROVE  FALSE
      OBVIOUS
    <3>1. /\ Is(type, "word") /\ type.word \in DocumentTypes
          /\ Dispatch(envelope, created.at) = Crashed
      <4> HIDE DEF created, type
      <4> QED BY DocumentTypesAre, RequireSafe
    <3>2. /\ type = envelope["documentType"] /\ "documentType" \in DOMAIN envelope
          /\ Get(envelope, "document") = envelope["document"]
          /\ "document" \in DOMAIN envelope
      BY <3>1 DEF Get, Absent, Is, IsString
    <3>3. type = Word(type.word)
      BY <3>1, <3>2 DEF ParsedEnvelope, Parsed, Formed
    <3>4. Sound /\ Type \in DocumentTypes
      BY <3>1, <3>2, <3>3 DEF Sound, Type
    <3>5. FormedIn(Document) /\ Fields(Get(envelope, "document")) = Document
      BY <3>2 DEF ParsedEnvelope, Parsed, Inner, Fields, Document
    <3>6. Validator(Type, Document, created.at) # Crashed
      BY <3>4, <3>5, ValidatorSafe DEF Handled
    <3> QED BY <3>1, <3>5, <3>6, First2, RequireSafe, ChecksSafe DEF Dispatch, Type
  <2>4. (IF Is(created, "time")
           THEN After(envelope, "expiresAt", created.at) ELSE Refused) # Crashed
    BY ChecksSafe DEF Refused, Crashed
  <2>5. Require(Get(envelope, "document").type = "object") = Passed
           => Get(envelope, "document").type = "object"
    BY DEF Require, Passed, Refused
  <2> DEFINE c1  == Require(Object(envelope).type = "object")
             c2  == Known(envelope, EnvelopeFields)
             c3  == Require(Get(envelope, "specVersion") = Version)
             c4  == Reference(envelope, "messageId")
             c5  == Require(Is(Get(envelope, "transactionId"), "transaction"))
             c6  == Require(Is(Get(envelope, "sender"), "agent"))
             c7  == Require(Is(Get(envelope, "recipient"), "agent"))
             c8  == Require(Get(envelope, "sender") # Get(envelope, "recipient"))
             c9  == Nonempty(envelope, "idempotencyKey", 255)
             c10 == Timestamp(envelope, "createdAt")
             c11 == IF Is(created, "time")
                    THEN After(envelope, "expiresAt", created.at) ELSE Refused
             c12 == Require(Get(envelope, "document").type = "object")
             c13 == Require(extensions.type = "object")
             c14 == Require("unnamespaced" \notin DOMAIN Fields(extensions))
             c15 == NetworkExtension(Get(Fields(extensions), "acn.network"), type)
             c16 == In(type, ReplyDocuments \cup {"request_for_quote"})
  <2>6. ValidateEnvelope(Object(envelope)) =
          First(<<c1, c2, c3, c4, c5, c6, c7, c8, c9, c10, c11, c12, c13, c14, c15, c16, last>>)
    BY DEF ValidateEnvelope, Object, Fields
  <2> HIDE DEF last, extensions, created, type
  <2>7. /\ c1 # Crashed /\ c3 # Crashed /\ c5 # Crashed /\ c6 # Crashed /\ c7 # Crashed
        /\ c8 # Crashed /\ c12 # Crashed /\ c13 # Crashed /\ c14 # Crashed
    BY RequireSafe
  <2>8. c2 # Crashed /\ c4 # Crashed /\ c9 # Crashed /\ c10 # Crashed
    BY ChecksSafe
  <2>9. c11 # Crashed /\ c15 # Crashed /\ c16 # Crashed
    BY <2>1, <2>2, <2>4
  <2>10. c12 = Passed => last # Crashed
    BY <2>3, <2>5
  <2> HIDE DEF c1, c2, c3, c4, c5, c6, c7, c8, c9, c10, c11, c12, c13, c14, c15, c16
  <2>11. last = Crashed /\ c12 = Passed
    <3> DEFINE s == <<c1, c2, c3, c4, c5, c6, c7, c8, c9, c10, c11, c12, c13, c14, c15,
                      c16, last>>
    <3>1. First(s) = Crashed
      BY <2>6
    <3>2. Crashed \notin {c1, c2, c3, c4, c5, c6, c7, c8, c9, c10, c11, c12, c13, c14,
                          c15, c16}
      BY <2>7, <2>8, <2>9
    <3>3. last = Crashed /\ \A i \in 1 .. 16 : s[i] = Passed
      BY <3>1, <3>2, First17
    <3>4. s[12] = c12
      OBVIOUS
    <3> QED BY <3>3, <3>4
  <2> QED BY <2>10, <2>11
<1> QED BY <1>1, EnvelopesParsed, PTL
-----------------------------------------------------------------------------
(* The wire form of an envelope, field by field.                           *)
LEMMA WireFields ==
  ASSUME NEW e
  PROVE  LET w == ToWire(e)
         IN /\ DOMAIN w \subseteq DOMAIN e
            /\ "signature" \notin DOMAIN w
            /\ \A k \in {"inReplyTo", "extensions"} :
                  Get(w, k) = IF Truthy(Get(e, k)) THEN Get(e, k) ELSE Absent
            /\ \A k \in {"createdAt", "expiresAt"} :
                  Get(w, k) = IF k \in DOMAIN e THEN Isoformat(e[k]) ELSE Absent
            /\ \A k : k \notin {"signature", "inReplyTo", "extensions", "createdAt",
                                "expiresAt"}
                         => Get(w, k) = Get(e, k) /\ (k \in DOMAIN w <=> k \in DOMAIN e)
<1> DEFINE empty == {k \in {"inReplyTo", "extensions"} : ~Truthy(Get(e, k))}
           gone  == {"signature"} \cup empty
<1>1. /\ DOMAIN ToWire(e) = DOMAIN e \ gone
      /\ \A k \in DOMAIN ToWire(e) :
            ToWire(e)[k] = IF k \in {"createdAt", "expiresAt"}
               THEN Isoformat(e[k]) ELSE e[k]
  BY DEF ToWire, Drop
<1>2. /\ "signature" \in gone
      /\ \A k \in {"inReplyTo", "extensions"} : k \in gone <=> ~Truthy(Get(e, k))
      /\ \A k : k \notin {"signature", "inReplyTo", "extensions"} => k \notin gone
  OBVIOUS
<1>3. ~Truthy(Absent)
  BY DEF Truthy
<1> HIDE DEF gone
<1> QED BY <1>1, <1>2, <1>3 DEF Get

(* Once in its wire form, an envelope stays as it is.                      *)
LEMMA WireAgain ==
  ASSUME NEW e
  PROVE  ToWire(ToWire(e)) = ToWire(e)
<1> DEFINE w == ToWire(e)
           empty(f) == {k \in {"inReplyTo", "extensions"} : ~Truthy(Get(f, k))}
<1>1. \A f : /\ DOMAIN ToWire(f) = DOMAIN f \ ({"signature"} \cup empty(f))
             /\ ToWire(f) = [k \in DOMAIN ToWire(f) |->
                   IF k \in {"createdAt", "expiresAt"} THEN Isoformat(f[k]) ELSE f[k]]
  BY DEF ToWire, Drop
<1>2. \A k \in {"inReplyTo", "extensions"} : k \in DOMAIN w => Truthy(Get(w, k))
  <2>1. ~Truthy(Absent)
    BY DEF Truthy
  <2> SUFFICES ASSUME NEW k \in {"inReplyTo", "extensions"}, k \in DOMAIN w
               PROVE  Truthy(Get(w, k))
    OBVIOUS
  <2> DEFINE gone == {"signature"} \cup empty(e)
  <2>2. ~Truthy(Get(e, k)) => k \in gone
    OBVIOUS
  <2>3. /\ DOMAIN w = DOMAIN e \ gone
        /\ w[k] = IF k \in {"createdAt", "expiresAt"} THEN Isoformat(e[k]) ELSE e[k]
    BY <1>1
  <2> HIDE DEF gone
  <2>4. k \in DOMAIN e /\ Truthy(Get(e, k)) /\ w[k] = e[k]
    BY <2>2, <2>3
  <2> QED BY <2>4 DEF Get
<1>3. "signature" \notin DOMAIN w
  BY <1>1
<1>4. DOMAIN ToWire(w) = DOMAIN w
  BY <1>1, <1>2, <1>3
<1>5. \A k \in DOMAIN w \cap {"createdAt", "expiresAt"} : Isoformat(w[k]) = w[k]
  BY <1>1 DEF Isoformat, TimeAs
<1>6. \A k \in DOMAIN w : ToWire(w)[k] = w[k]
  BY <1>1, <1>4, <1>5
<1> QED BY <1>1, <1>4, <1>6

(* An accepted envelope passes again in its wire form: what to_wire leaves *)
(* out or writes anew is nothing a check looks at.                         *)
LEMMA WireAccepted ==
  ASSUME NEW e, ValidateEnvelope(Object(e)) = Passed
  PROVE  ValidateEnvelope(Object(ToWire(e))) = Passed
<1> DEFINE w == ToWire(e)
           X(f) == IF Has(f, "extensions") THEN f["extensions"] ELSE Object(NoFields)
           created == Get(e, "createdAt")
           type    == Get(e, "documentType")
<1>1. /\ Known(e, EnvelopeFields) = Passed
      /\ Get(e, "specVersion") = Version
      /\ Reference(e, "messageId") = Passed
      /\ Is(Get(e, "transactionId"), "transaction")
      /\ Is(Get(e, "sender"), "agent") /\ Is(Get(e, "recipient"), "agent")
      /\ Get(e, "sender") # Get(e, "recipient")
      /\ Nonempty(e, "idempotencyKey", 255) = Passed
      /\ Is(created, "time")
      /\ After(e, "expiresAt", created.at) = Passed
      /\ Get(e, "document").type = "object"
      /\ X(e).type = "object" /\ "unnamespaced" \notin DOMAIN Fields(X(e))
      /\ NetworkExtension(Get(Fields(X(e)), "acn.network"), type) = Passed
      /\ Is(type, "word") /\ type.word \in DocumentTypes
      /\ Dispatch(e, created.at) = Passed
  BY EnvelopeChecks, DocumentTypesAre
<1>2. /\ DOMAIN w \subseteq DOMAIN e
      /\ Get(w, "inReplyTo") = IF Truthy(Get(e, "inReplyTo"))
            THEN Get(e, "inReplyTo") ELSE Absent
      /\ Get(w, "extensions") = IF Truthy(Get(e, "extensions"))
            THEN Get(e, "extensions") ELSE Absent
      /\ \A k \in {"createdAt", "expiresAt"} :
            Get(w, k) = IF k \in DOMAIN e THEN Isoformat(e[k]) ELSE Absent
      /\ \A k \in {"specVersion", "messageId", "transactionId", "documentType", "sender",
                   "recipient", "idempotencyKey", "document"} : Get(w, k) = Get(e, k)
  BY WireFields
<1> HIDE DEF w
<1>3. /\ Is(Get(w, "createdAt"), "time") /\ Get(w, "createdAt").at = created.at
      /\ After(w, "expiresAt", created.at) = Passed
  <2>1. \A v : Is(Isoformat(v), "time") /\ Isoformat(v).at = v.at
    BY DEF Isoformat, TimeAs, Is, IsString
  <2>2. \A k : Is(Get(e, k), "time") => k \in DOMAIN e /\ Get(e, k) = e[k]
    BY DEF Is, IsString, Get, Absent
  <2>3. Is(Get(e, "expiresAt"), "time") /\ Get(e, "expiresAt").at > created.at
    BY <1>1 DEF After, Require, Passed, Refused
  <2>4. Get(w, "createdAt") = Isoformat(created)
           /\ Get(w, "expiresAt") = Isoformat(Get(e, "expiresAt"))
    BY <1>1, <1>2, <2>2, <2>3
  <2> QED BY <2>1, <2>3, <2>4 DEF After, Require
<1>4. X(w).type = "object" /\ Fields(X(w)) = Fields(X(e))
  <2>1. CASE Truthy(Get(e, "extensions"))
    <3>1. Get(e, "extensions") # Absent
      BY <2>1 DEF Truthy
    <3> QED BY <1>1, <1>2, <2>1, <3>1 DEF Has, Get
  <2>2. CASE ~Truthy(Get(e, "extensions"))
    <3>1. X(e) = Object(NoFields)
      <4>1. "extensions" \in DOMAIN e
               => e["extensions"].type = "object" /\ ~Truthy(e["extensions"])
        BY <1>1, <2>2 DEF Has, Get
      <4>2. \A v : v.type = "object" /\ ~Truthy(v) => v = Object(NoFields)
        BY DEF Truthy, Absent, Null, Bool, Text, String, List, Object, NoFields
      <4> QED BY <4>1, <4>2 DEF Has
    <3>2. X(w) = Object(NoFields) \/ X(w) = Absent
      BY <1>2, <2>2 DEF Has, Get
    <3>3. "extensions" \notin DOMAIN w
      BY <1>2, <2>2, WireFields DEF w, Get, ToWire, Drop
    <3> QED BY <1>1, <3>1, <3>3 DEF Has
  <2> QED BY <2>1, <2>2
<1>5. Dispatch(w, created.at) = Passed
  <2>1. Validator(e["documentType"].word, Fields(Get(e, "document")), created.at) = Passed
        /\ IF e["documentType"].word = "request_for_quote"
              THEN Get(e, "inReplyTo") \in {Absent, Null}
           ELSE Reference(e, "inReplyTo") = Passed
    BY <1>1, DispatchPassed
  <2>2. w["documentType"] = e["documentType"]
    BY <1>1, <1>2 DEF Get, Is, IsString, Absent
  <2>3. IF e["documentType"].word = "request_for_quote"
           THEN Get(w, "inReplyTo") \in {Absent, Null}
        ELSE Reference(w, "inReplyTo") = Passed
    <3>1. \A v : Is(v, "message") => Truthy(v)
      BY DEF Is, IsString, Truthy, Absent, Null, Bool, Text, String, List, Object
    <3>2. Reference(e, "inReplyTo") = Passed => Is(Get(e, "inReplyTo"), "message")
      BY DEF Reference, Require, Passed, Refused
    <3> QED BY <1>2, <2>1, <3>1, <3>2 DEF Reference
  <2> QED BY <1>2, <2>1, <2>2, <2>3, First2 DEF Dispatch, Require
<1> QED
  <2>1. Known(w, EnvelopeFields) = Passed
    BY <1>1, <1>2 DEF Known, Require, Passed, Refused
  <2>2. Reference(w, "messageId") = Passed /\ Nonempty(w, "idempotencyKey", 255) = Passed
    BY <1>1, <1>2 DEF Reference, Nonempty
  <2> QED BY <1>1, <1>2, <1>3, <1>4, <1>5, <2>1, <2>2, EnvelopeChecks, DocumentTypesAre
             DEF w

(* What is accepted goes back to the wire as something that is accepted,   *)
(* and once more changes nothing: to_wire undoes parse_envelope.           *)
THEOREM WireForms == Spec => []WireStable
<1>1. WireStable
  BY WireAccepted, WireAgain DEF WireStable, Accepted, Verdict
<1> QED BY <1>1, PTL
-----------------------------------------------------------------------------
(* What fits the context is not rounded.                                   *)
LEMMA NotRounded ==
  /\ \A x, y : Digits(ExactProduct(x, y).coef) <= Precision => Times(x, y) = ExactProduct(x, y)
  /\ \A x, y : Digits(ExactSum(x, y).coef) <= Precision => Plus(x, y) = ExactSum(x, y)
BY DEF Times, Plus, Rounded

(* The amounts of a line that passes, at the places their product may have. *)
LEMMA AmountsAre ==
  ASSUME NEW f, FormedIn(f), NEW w \in Nat
  PROVE  /\ \A k, p : Decimal(f, k, p) = Passed /\ p \in 0 .. w
               => IsAmount(Get(f, k)) /\ f[k] = Get(f, k) /\ f[k] \in Decimals(w) /\ f[k].places <= p
         /\ \A k, p : Positive(f, k, p) = Passed => Decimal(f, k, p) = Passed
<1>1. ASSUME NEW k, NEW p \in 0 .. w, Decimal(f, k, p) = Passed
      PROVE  IsAmount(Get(f, k)) /\ f[k] = Get(f, k) /\ f[k] \in Decimals(w) /\ f[k].places <= p
  <2> DEFINE v == Get(f, k)
  <2>1. IsAmount(v) /\ v.places <= p
    BY <1>1 DEF Decimal, Require, Passed, Refused
  <2>2. k \in DOMAIN f /\ f[k] = v
    BY <2>1 DEF Get, Absent, IsAmount, Is, IsString
  <2>3. v = Amount(v.coef, v.places) /\ v.coef \in Nat /\ v.places \in Nat
    BY <2>1, <2>2 DEF FormedIn, Formed
  <2>4. v.places \in 0 .. w
    BY <1>1, <2>1, <2>3
  <2> HIDE DEF v
  <2>5. v \in Decimals(w)
    BY <2>3, <2>4, DecimalsAre
  <2> QED BY <2>1, <2>2, <2>5 DEF v
<1>2. \A k, p : Positive(f, k, p) = Passed => Decimal(f, k, p) = Passed
  BY DEF Positive, Decimal, Require, Passed, Refused
<1> QED BY <1>1, <1>2

LEMMA LinePriced ==
  ASSUME NEW f, FormedIn(f), LineAmounts(f) = Passed
  PROVE  LET product == ExactProduct(f["quantity"], f["unitPrice"])
         IN /\ f["lineTotal"] = Get(f, "lineTotal") /\ IsAmount(f["lineTotal"])
            /\ f["lineTotal"] \in Decimals(12) /\ product \in Decimals(12)
            /\ Digits(product.coef) <= Precision => Same(f["lineTotal"], product)
<1> DEFINE q == Get(f, "quantity")
           p == Get(f, "unitPrice")
           t == Get(f, "lineTotal")
           c == Require(Amounts(<<q, p, t>>) => Same(t, Times(q, p)))
<1>1. LineAmounts(f) = First(<<Positive(f, "quantity", 6), Decimal(f, "unitPrice", 6),
                               Decimal(f, "lineTotal", 2), Product(f), c>>)
  BY DEF LineAmounts, Product
<1> HIDE DEF c
<1>2. /\ Positive(f, "quantity", 6) = Passed /\ Decimal(f, "unitPrice", 6) = Passed
      /\ Decimal(f, "lineTotal", 2) = Passed /\ c = Passed
  BY <1>1, First5
<1>3. /\ IsAmount(q) /\ f["quantity"] = q /\ q \in Decimals(12) /\ q.places <= 6
      /\ IsAmount(p) /\ f["unitPrice"] = p /\ p \in Decimals(12) /\ p.places <= 6
      /\ IsAmount(t) /\ f["lineTotal"] = t /\ t \in Decimals(12)
  BY <1>2, AmountsAre
<1> HIDE DEF q, p, t
<1>4. Same(t, Times(q, p))
  BY <1>2, <1>3 DEF c, Amounts, Require, Passed, Refused
<1>5. /\ q.coef \in Nat /\ q.places \in 0 .. 12 /\ p.coef \in Nat /\ p.places \in 0 .. 12
  <2>1. \A x \in Decimals(12) : x.coef \in Nat /\ x.places \in 0 .. 12
    BY DecimalsAre
  <2> QED BY <1>3, <2>1
<1>6. q.coef * p.coef \in Nat /\ q.places + p.places \in 0 .. 12
  BY <1>3, <1>5
<1>7. ExactProduct(q, p) \in Decimals(12)
  BY <1>6, DecimalsAre DEF ExactProduct
<1> QED BY <1>3, <1>4, <1>7, NotRounded DEF t

(* The total of priced lines.                                              *)
PricedLines(d) ==
    /\ \A i \in 1 .. Len(Lines(d, "lines")) : LineAmounts(Lines(d, "lines")[i]) = Passed
    /\ LinesTotal(d) = Passed

LEMMA LinesAdded ==
  ASSUME NEW d, FormedIn(d), Inner(Get(d, "lines")), PricedLines(d),
         InContext({LineProducts(d)[i] : i \in DOMAIN LineProducts(d)}
                   \cup {ExactTotal(LineProducts(d))})
  PROVE  Same(d["total"], ExactTotal(LineProducts(d)))
<1> DEFINE ls == Lines(d, "lines")
           n  == Len(ls)
           s  == [i \in 1 .. n |-> Get(ls[i], "lineTotal")]
           q  == [i \in 1 .. n |-> ExactProduct(ls[i]["quantity"], ls[i]["unitPrice"])]
<1>1. Formed(Get(d, "lines"))
  BY FormedGet
<1>2. /\ n \in Nat /\ DOMAIN ls = 1 .. n
      /\ \A i \in 1 .. n : i \in DOMAIN Items(Get(d, "lines"))
                           /\ ls[i] = Fields(Items(Get(d, "lines"))[i])
  BY <1>1, LinesAre
<1>3. \A i \in 1 .. n : FormedIn(ls[i]) /\ LineAmounts(ls[i]) = Passed
  BY <1>2 DEF Inner, PricedLines
<1>4. LineProducts(d) = q
  BY DEF LineProducts
<1>5. LinesTotal(d) = First(<<Decimal(d, "total", 2),
               Require(Amounts(s) /\ IsAmount(Get(d, "total")) => Same(Get(d, "total"), Total(s)))>>)
  BY DEF LinesTotal
<1> HIDE DEF ls, n
<1>6. /\ DOMAIN s = 1 .. n /\ \A i \in 1 .. n : s[i] = Get(ls[i], "lineTotal")
      /\ DOMAIN q = 1 .. n
      /\ \A i \in 1 .. n : q[i] = ExactProduct(ls[i]["quantity"], ls[i]["unitPrice"])
  OBVIOUS
<1>7. /\ \A i \in 1 .. n : Digits(q[i].coef) <= Precision
      /\ Digits(ExactTotal(q).coef) <= Precision
  BY <1>4, <1>6 DEF InContext
<1>8. \A i \in 1 .. n : /\ s[i] \in Decimals(12) /\ q[i] \in Decimals(12) /\ IsAmount(s[i])
                        /\ Same(s[i], q[i])
  BY <1>3, <1>6, <1>7, LinePriced
<1>9. s \in Seq(Decimals(12)) /\ Len(s) = n /\ q \in Seq(Decimals(12)) /\ Len(q) = n
  BY <1>2, <1>6, <1>8
<1>10. Amounts(s)
  BY <1>6, <1>8 DEF Amounts
<1> HIDE DEF s, q
<1> DEFINE t == Get(d, "total")
<1>11. Decimal(d, "total", 2) = Passed /\ (IsAmount(t) => Same(t, Total(s)))
  BY <1>5, <1>10, First2 DEF PricedLines, Require, Passed, Refused
<1>12. d["total"] = t /\ t \in Decimals(12) /\ Same(t, Total(s))
  BY <1>11, AmountsAre
<1>13. Total(s) \in Decimals(12) /\ ExactTotal(q) \in Decimals(12) /\ Same(Total(s), ExactTotal(q))
  BY <1>7, <1>8, <1>9, TotalsAgree
<1> HIDE DEF t
<1>14. Same(t, ExactTotal(q))
  BY <1>12, <1>13, SameScaled
<1> QED BY <1>4, <1>12, <1>14

(* The documents with a total of lines.                                    *)
LEMMA QuotationPriced ==
  ASSUME NEW d, NEW created, Formed(Get(d, "lines")), ValidateQuotation(d, created) = Passed
  PROVE  PricedLines(d)
<1> DEFINE rows == [i \in 1 .. Len(Lines(d, "lines")) |-> QuotationLine(d, i)]
<1>1. ValidateQuotation(d, created)
         = First(<<ExactFields(d, {"currency", "validUntil", "lines", "total"},
                               {"paymentTerms", "deliveryTerms"}),
                   Match(Get(d, "currency"), "currency"), After(d, "validUntil", created),
                   LineList(d, "lines"), First(rows), LinesTotal(d)>>)
  BY DEF ValidateQuotation, Each
<1>2. DOMAIN rows = 1 .. Len(Lines(d, "lines"))
      /\ \A i \in DOMAIN rows : rows[i] = QuotationLine(d, i)
  OBVIOUS
<1> HIDE DEF rows
<1>3. First(rows) = Passed /\ LinesTotal(d) = Passed
  BY <1>1, First6
<1>4. \A i \in DOMAIN rows : QuotationLine(d, i) = Passed
  BY <1>2, <1>3, LinesPass, LinesAre
<1>5. \A i : QuotationLine(d, i) = Passed => LineAmounts(Lines(d, "lines")[i]) = Passed
  BY First6 DEF QuotationLine
<1> QED BY <1>2, <1>3, <1>4, <1>5 DEF PricedLines

LEMMA CounterofferPriced ==
  ASSUME NEW d, NEW created, Formed(Get(d, "lines")), ValidateCounteroffer(d, created) = Passed
  PROVE  PricedLines(d)
<1> DEFINE q == Drop(d, {"quotationMessageId", "reason"})
<1>1. ValidateQuotation(q, created) = Passed
  BY First3 DEF ValidateCounteroffer
<1>2. Get(q, "lines") = Get(d, "lines") /\ Get(q, "total") = Get(d, "total")
  BY DEF Drop, Get
<1> HIDE DEF q
<1>3. PricedLines(q)
  BY <1>1, <1>2, QuotationPriced
<1>4. Lines(q, "lines") = Lines(d, "lines") /\ Decimal(q, "total", 2) = Decimal(d, "total", 2)
  BY <1>2 DEF Lines, Decimal
<1>5. LinesTotal(q) = LinesTotal(d)
  BY <1>2, <1>4 DEF LinesTotal
<1> QED BY <1>3, <1>4, <1>5 DEF PricedLines

LEMMA OrderPriced ==
  ASSUME NEW d, Formed(Get(d, "lines")), ValidateOrder(d) = Passed
  PROVE  PricedLines(d)
<1> DEFINE rows == [i \in 1 .. Len(Lines(d, "lines")) |-> OrderLine(d, i)]
<1>1. ValidateOrder(d)
         = First(<<ExactFields(d, {"orderNumber", "quotationMessageId", "currency",
                                   "deliveryLocation", "lines", "total"}, {}),
                   Nonempty(d, "orderNumber", 128), Reference(d, "quotationMessageId"),
                   Currency(d), Nonempty(d, "deliveryLocation", 500),
                   LineList(d, "lines"), First(rows), LinesTotal(d)>>)
  BY DEF ValidateOrder, Each
<1>2. DOMAIN rows = 1 .. Len(Lines(d, "lines"))
      /\ \A i \in DOMAIN rows : rows[i] = OrderLine(d, i)
  OBVIOUS
<1> HIDE DEF rows
<1>3. First(rows) = Passed /\ LinesTotal(d) = Passed
  BY <1>1, First8
<1>4. \A i \in DOMAIN rows : OrderLine(d, i) = Passed
  BY <1>2, <1>3, LinesPass, LinesAre
<1>5. \A i : OrderLine(d, i) = Passed => LineAmounts(Lines(d, "lines")[i]) = Passed
  BY First7 DEF OrderLine
<1> QED BY <1>2, <1>3, <1>4, <1>5 DEF PricedLines

(* The documents with a tax.                                               *)
LEMMA TaxAdded ==
  ASSUME NEW d, FormedIn(d), TaxedTotal(d) = Passed,
         \A k \in {"subtotal", "tax", "total"} : Decimal(d, k, 2) = Passed,
         Digits(ExactSum(d["subtotal"], d["tax"]).coef) <= Precision
  PROVE  Same(d["total"], ExactSum(d["subtotal"], d["tax"]))
<1> DEFINE s == Get(d, "subtotal")
           x == Get(d, "tax")
           t == Get(d, "total")
<1>1. /\ IsAmount(s) /\ d["subtotal"] = s /\ IsAmount(x) /\ d["tax"] = x
      /\ IsAmount(t) /\ d["total"] = t
  <2>1. 2 \in Nat /\ 2 \in 0 .. 2
    OBVIOUS
  <2> QED BY <2>1, AmountsAre
<1>2. Require(Amounts(<<s, x, t>>) => Same(t, Plus(s, x))) = Passed
  BY First2 DEF TaxedTotal
<1> HIDE DEF s, x, t
<1>3. Amounts(<<s, x, t>>)
  BY <1>1 DEF Amounts
<1> QED BY <1>1, <1>2, <1>3, NotRounded DEF Require, Passed, Refused

LEMMA InvoiceTaxed ==
  ASSUME NEW d, NEW created, ValidateInvoice(d, created) = Passed
  PROVE  TaxedTotal(d) = Passed
         /\ \A k \in {"subtotal", "tax", "total"} : Decimal(d, k, 2) = Passed
BY First9 DEF ValidateInvoice

LEMMA CreditNoteTaxed ==
  ASSUME NEW d, ValidateCreditNote(d) = Passed
  PROVE  TaxedTotal(d) = Passed
         /\ \A k \in {"subtotal", "tax", "total"} : Decimal(d, k, 2) = Passed
<1>1. /\ TaxedTotal(d) = Passed /\ Positive(d, "subtotal", 2) = Passed
      /\ Decimal(d, "tax", 2) = Passed /\ Positive(d, "total", 2) = Passed
  BY First11 DEF ValidateCreditNote
<1> QED BY <1>1 DEF Positive, Decimal, Require, Passed, Refused

(* The types whose documents have a total, and what it is the total of.    *)
HasField(s, k) == k \in DOMAIN s.required \cup DOMAIN s.optional

LEMMA TotalledTypes ==
  ASSUME NEW type \in DocumentTypes, HasField(Schema[type], "total")
  PROVE  \/ type \in {"quotation", "quotation_counteroffer", "purchase_order"}
            /\ ~HasField(Schema[type], "subtotal")
         \/ type \in {"invoice", "credit_note"} /\ ~HasField(Schema[type], "lines")
<1> USE DEF Schema, Doc, HasField, NoFields
<1>1. type # "request_for_quote"
  BY DEF RequestForQuoteSchema
<1>2. type # "quotation_acceptance"
  BY DEF QuotationAcceptanceSchema
<1>3. type # "approval_evidence"
  BY DEF ApprovalEvidenceSchema
<1>4. type # "order_acknowledgement"
  BY DEF OrderAcknowledgementSchema
<1>5. type # "transaction_cancellation"
  BY DEF TransactionCancellationSchema
<1>6. type # "order_cancellation_request"
  BY DEF OrderCancellationRequestSchema
<1>7. type # "order_cancellation_response"
  BY DEF OrderCancellationResponseSchema
<1>8. type # "shipment_notice"
  BY DEF ShipmentNoticeSchema
<1>9. type # "goods_receipt"
  BY DEF GoodsReceiptSchema
<1>10. type # "fulfillment_status"
  BY DEF FulfillmentStatusSchema
<1>11. type # "payment_intent"
  BY DEF PaymentIntentSchema
<1>12. type # "payment_result"
  BY DEF PaymentResultSchema
<1>13. type # "settlement_confirmation"
  BY DEF SettlementConfirmationSchema
<1>14. type # "dispute_opened"
  BY DEF DisputeOpenedSchema
<1>15. type # "dispute_resolved"
  BY DEF DisputeResolvedSchema
<1>16. type # "return_authorization"
  BY DEF ReturnAuthorizationSchema
<1>17. type # "return_receipt"
  BY DEF ReturnReceiptSchema
<1>18. ~HasField(Schema["quotation"], "subtotal")
  BY DEF QuotationSchema
<1>19. ~HasField(Schema["quotation_counteroffer"], "subtotal")
  BY DEF QuotationCounterofferSchema
<1>20. ~HasField(Schema["purchase_order"], "subtotal")
  BY DEF PurchaseOrderSchema
<1>21. ~HasField(Schema["invoice"], "lines")
  BY DEF InvoiceSchema
<1>22. ~HasField(Schema["credit_note"], "lines")
  BY DEF CreditNoteSchema
<1> HIDE DEF Schema, HasField
<1> QED BY <1>1, <1>2, <1>3, <1>4, <1>5, <1>6, <1>7, <1>8, <1>9, <1>10, <1>11, <1>12,
           <1>13, <1>14, <1>15, <1>16, <1>17, <1>18, <1>19, <1>20, <1>21, <1>22,
           DocumentTypesAre DEF ReplyDocuments

LEMMA KnownFields ==
  ASSUME NEW type \in DocumentTypes, NEW d, DocumentFaults(type, d) \subseteq Unchecked(type)
  PROVE  \A k \in DOMAIN d : k \in {"lines", "subtotal", "total"} => HasField(Schema[type], k)
<1>1. \A k \in {"lines", "subtotal", "total"} : k \notin Unchecked(type)
  BY DEF Unchecked, Loose
<1>2. FieldFaults(Schema[type], d) \subseteq Unchecked(type)
  BY DEF DocumentFaults
<1> QED BY <1>1, <1>2 DEF FieldFaults, Properties, HasField

(* "Totals MUST be exact": the running total is rounded nowhere if the sum *)
(* and the products fit the decimal context, so an accepted total is the   *)
(* exact sum, however many lines there are and however much they cost.     *)
THEOREM AcceptedTotals == Spec => []TotalsExact
<1>1. ParsedEnvelope => TotalsExact
  <2> SUFFICES ASSUME ParsedEnvelope, Accepted
               PROVE
        /\ {"lines", "total"} \subseteq DOMAIN Document =>
             LET products == LineProducts(Document)
                 sum      == ExactTotal(products)
             IN InContext({products[i] : i \in DOMAIN products} \cup {sum})
                  => Same(Document["total"], sum)
        /\ {"subtotal", "tax", "total"} \subseteq DOMAIN Document =>
             LET sum == ExactSum(Document["subtotal"], Document["tax"])
             IN InContext({sum}) => Same(Document["total"], sum)
    BY DEF TotalsExact
  <2> DEFINE d == Document
             created == Get(envelope, "createdAt").at
  <2>1. Type \in DocumentTypes /\ Validator(Type, d, created) = Passed
        /\ FormedIn(d) /\ Inner(Get(d, "lines"))
    BY AcceptedDocument
  <2>2. Formed(Get(d, "lines"))
    BY <2>1, FormedGet
  <2>3. \A k \in DOMAIN d : k \in {"lines", "subtotal", "total"} => HasField(Schema[Type], k)
    BY <2>1, ValidatorFits, KnownFields
  <2>4. ASSUME {"lines", "total"} \subseteq DOMAIN d PROVE PricedLines(d)
    <3>1. Type \in {"quotation", "quotation_counteroffer", "purchase_order"}
      BY <2>1, <2>3, <2>4, TotalledTypes
    <3> QED BY <2>1, <2>2, <3>1, ValidatorIs, QuotationPriced, CounterofferPriced, OrderPriced
  <2>5. ASSUME {"subtotal", "tax", "total"} \subseteq DOMAIN d
        PROVE  TaxedTotal(d) = Passed
               /\ \A k \in {"subtotal", "tax", "total"} : Decimal(d, k, 2) = Passed
    <3>1. Type \in {"invoice", "credit_note"}
      BY <2>1, <2>3, <2>5, TotalledTypes
    <3> QED BY <2>1, <3>1, ValidatorIs, InvoiceTaxed, CreditNoteTaxed
  <2>6. \A sum : InContext({sum}) => Digits(sum.coef) <= Precision
    BY DEF InContext
  <2> HIDE DEF d
  <2> QED BY <2>1, <2>4, <2>5, <2>6, LinesAdded, TaxAdded DEF d
<1> QED BY <1>1, EnvelopesParsed, PTL
=============================================================================
