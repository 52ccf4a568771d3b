------------------------------ MODULE Schemas ------------------------------
(***************************************************************************)
(* The JSON Schemas the package ships, as the reference the validator is   *)
(* compared with: for each document type, the kind of every field.         *)
(***************************************************************************)
EXTENDS Wire

Str(lo, hi)  == [is |-> "string", min |-> lo, max |-> hi]
Name(n)      == Str(1, n)
AnyString    == [is |-> "any"]
Instant      == [is |-> "time"]        \* "format" is an annotation: any string
Ref          == [is |-> "ref"]
MoneyCode    == [is |-> "currency"]
Dec(p)       == [is |-> "decimal", places |-> p]
OneOf(words) == [is |-> "word", words |-> words]
Flag         == [is |-> "boolean"]
AnyObject    == [is |-> "object"]
Rows(req, opt) == [is |-> "rows", required |-> req, optional |-> opt]
Doc(req, opt)  == [required |-> req, optional |-> opt]

Priced(any) == Rows([rfqLineId |-> Name(128), unit |-> Name(32),
                     quantity  |-> IF any THEN AnyString ELSE Dec(6),
                     unitPrice |-> IF any THEN AnyString ELSE Dec(6),
                     lineTotal |-> IF any THEN AnyString ELSE Dec(2)], NoFields)
Returned == Rows([rfqLineId |-> Name(128), quantity |-> Dec(6), unit |-> Name(32)],
                 [reason |-> Name(500)])

RequestForQuoteSchema == Doc(
    [currency |-> MoneyCode, deliveryLocation |-> Name(500), responseDeadline |-> Instant,
     items |-> Rows([lineId |-> Name(128), description |-> Name(500),
                     quantity |-> Dec(6), unit |-> Name(32)],
                    [sku |-> Name(128), specifications |-> AnyObject])], NoFields)

QuotationSchema == Doc(
    [currency |-> MoneyCode, validUntil |-> Instant, lines |-> Priced(FALSE), total |-> Dec(2)],
    [paymentTerms |-> Str(0, 500), deliveryTerms |-> Str(0, 500)])

QuotationCounterofferSchema == Doc(
    [quotationMessageId |-> Ref, currency |-> MoneyCode, validUntil |-> Instant,
     lines |-> Priced(FALSE), total |-> Dec(2)],
    [paymentTerms |-> Str(0, 500), deliveryTerms |-> Str(0, 500), reason |-> Str(0, 500)])

QuotationAcceptanceSchema == Doc([quotationMessageId |-> Ref], NoFields)

ApprovalEvidenceSchema == Doc(
    [acceptanceMessageId |-> AnyString, evidenceId |-> AnyString, policyId |-> AnyString,
     decision |-> OneOf({"approved", "rejected"}), decidedAt |-> Instant,
     approver |-> AnyString], [reason |-> AnyString])

PurchaseOrderSchema == Doc(
    [orderNumber |-> Name(128), quotationMessageId |-> Ref, currency |-> MoneyCode,
     deliveryLocation |-> Name(500), lines |-> Priced(TRUE), total |-> AnyString], NoFields)

OrderAcknowledgementSchema == Doc(
    [purchaseOrderMessageId |-> Ref, orderNumber |-> Name(128), accepted |-> Flag],
    [expectedDeliveryAt |-> Instant, rejectionReason |-> Name(500)])

TransactionCancellationSchema == Doc(
    [againstMessageId |-> Ref, reason |-> Name(500), cancelledAt |-> Instant], NoFields)

OrderCancellationRequestSchema == Doc(
    [purchaseOrderMessageId |-> Ref, orderNumber |-> Name(128), reason |-> Name(500),
     requestedAt |-> Instant], NoFields)

OrderCancellationResponseSchema == Doc(
    [cancellationRequestMessageId |-> Ref, orderNumber |-> Name(128), accepted |-> Flag,
     decidedAt |-> Instant], [rejectionReason |-> Name(500)])

ShipmentNoticeSchema == Doc(
    [shipmentId |-> Name(128), purchaseOrderMessageId |-> Ref, orderNumber |-> Name(128),
     shippedAt |-> Instant,
     lines |-> Rows([rfqLineId |-> Name(128), quantity |-> Dec(6), unit |-> Name(32)], NoFields)],
    [carrier |-> Str(0, 128), trackingReference |-> Str(0, 128)])

GoodsReceiptSchema == Doc(
    [receiptId |-> Name(128), shipmentNoticeMessageId |-> Ref, orderNumber |-> Name(128),
     receivedAt |-> Instant,
     lines |-> Rows([rfqLineId |-> Name(128), acceptedQuantity |-> Dec(6),
                     rejectedQuantity |-> Dec(6), unit |-> Name(32)],
                    [rejectionReason |-> Str(0, 500)])],
    [note |-> Str(0, 500)])

FulfillmentStatusSchema == Doc(
    [purchaseOrderMessageId |-> Ref, orderNumber |-> Name(128),
     status |-> OneOf({"processing", "shipped", "delivered"}), occurredAt |-> Instant],
    [trackingReference |-> Name(500), note |-> Name(500)])

InvoiceSchema == Doc(
    [invoiceNumber |-> Name(128), purchaseOrderMessageId |-> Ref, currency |-> MoneyCode,
     subtotal |-> AnyString, tax |-> AnyString, total |-> AnyString, dueAt |-> Instant], NoFields)

PaymentIntentSchema == Doc(
    [invoiceMessageId |-> Ref, currency |-> MoneyCode, amount |-> AnyString,
     intentReference |-> Name(128)], [paymentMethod |-> Name(128), provider |-> Name(128)])

PaymentResultSchema == Doc(
    [paymentIntentMessageId |-> AnyString, resultReference |-> AnyString,
     status |-> OneOf({"authorized", "captured", "failed"}), currency |-> AnyString,
     amount |-> AnyString, occurredAt |-> Instant, provider |-> AnyString],
    [failureReason |-> AnyString])

SettlementConfirmationSchema == Doc(
    [paymentResultMessageId |-> AnyString, settlementReference |-> AnyString,
     status |-> OneOf({"settled", "reversed"}), currency |-> AnyString, amount |-> AnyString,
     occurredAt |-> Instant], [reason |-> AnyString])

DisputeOpenedSchema == Doc(
    [disputeId |-> AnyString, againstMessageId |-> AnyString,
     category |-> OneOf({"quantity", "quality", "delivery", "invoice", "payment", "other"}),
     description |-> AnyString], [currency |-> AnyString, amount |-> AnyString])

DisputeResolvedSchema == Doc(
    [disputeId |-> AnyString, disputeMessageId |-> AnyString,
     resolution |-> OneOf({"accepted", "rejected", "partial", "withdrawn"}),
     resolvedAt |-> Instant],
    [note |-> AnyString, agreedAmount |-> AnyString, currency |-> AnyString])

ReturnAuthorizationSchema == Doc(
    [authorizationId |-> Name(128), disputeMessageId |-> Ref, orderNumber |-> Name(128),
     expiresAt |-> Instant, lines |-> Returned], [instructions |-> Name(1000)])

ReturnReceiptSchema == Doc(
    [receiptId |-> Name(128), authorizationMessageId |-> Ref, receivedAt |-> Instant,
     lines |-> Returned], [note |-> Name(500)])

CreditNoteSchema == Doc(
    [creditNoteNumber |-> Name(128), invoiceMessageId |-> Ref, returnReceiptMessageId |-> Ref,
     currency |-> MoneyCode, subtotal |-> AnyString, tax |-> AnyString, total |-> AnyString,
     issuedAt |-> Instant], [reason |-> Name(500)])

Schema == [
  request_for_quote |-> RequestForQuoteSchema,
  quotation |-> QuotationSchema,
  quotation_counteroffer |-> QuotationCounterofferSchema,
  quotation_acceptance |-> QuotationAcceptanceSchema,
  approval_evidence |-> ApprovalEvidenceSchema,
  purchase_order |-> PurchaseOrderSchema,
  order_acknowledgement |-> OrderAcknowledgementSchema,
  transaction_cancellation |-> TransactionCancellationSchema,
  order_cancellation_request |-> OrderCancellationRequestSchema,
  order_cancellation_response |-> OrderCancellationResponseSchema,
  shipment_notice |-> ShipmentNoticeSchema,
  goods_receipt |-> GoodsReceiptSchema,
  fulfillment_status |-> FulfillmentStatusSchema,
  invoice |-> InvoiceSchema,
  payment_intent |-> PaymentIntentSchema,
  payment_result |-> PaymentResultSchema,
  settlement_confirmation |-> SettlementConfirmationSchema,
  dispute_opened |-> DisputeOpenedSchema,
  dispute_resolved |-> DisputeResolvedSchema,
  return_authorization |-> ReturnAuthorizationSchema,
  return_receipt |-> ReturnReceiptSchema,
  credit_note |-> CreditNoteSchema
]

(* The fields of the envelope itself.                                      *)
EnvelopeSchema == Doc(
    [specVersion |-> [is |-> "0.1"], messageId |-> Ref, transactionId |-> [is |-> "transaction"],
     documentType |-> OneOf(DOMAIN Schema), sender |-> [is |-> "agent"],
     recipient |-> [is |-> "agent"], createdAt |-> Instant, expiresAt |-> Instant,
     idempotencyKey |-> Name(255), document |-> AnyObject],
    [inReplyTo |-> Ref, extensions |-> [is |-> "extensions"], signature |-> [is |-> "signature"]])

DocumentTypes == DOMAIN Schema

Properties(s) ==
    [k \in DOMAIN s.required \cup DOMAIN s.optional |->
        IF k \in DOMAIN s.required THEN s.required[k] ELSE s.optional[k]]
-----------------------------------------------------------------------------
(* The acn.network extension and the signature object.                     *)
FitsNetwork(v) ==
    /\ v.type = "object"
    /\ DOMAIN v.fields \subseteq {"productCategories", "reservationEvidence"}
    /\ Has(v.fields, "productCategories") =>
         LET cs == v.fields["productCategories"]
         IN /\ cs.type = "array" /\ Len(cs.items) <= 100
            /\ \A i \in 1 .. Len(cs.items) : /\ Is(cs.items[i], "category")
                                            /\ \A j \in 1 .. i - 1 : cs.items[j] # cs.items[i]
    /\ Has(v.fields, "reservationEvidence") =>
         LET e == v.fields["reservationEvidence"]
         IN /\ e.type = "object"
            /\ DOMAIN e.fields = {"reservationId", "quotationMessageId", "provider",
                                  "expiresAt", "evidenceHash"}
            /\ \A k \in {"reservationId", "provider"} : Length(e.fields[k], 1, 255)
            /\ Is(e.fields["quotationMessageId"], "message")
            /\ Is(e.fields["evidenceHash"], "hash") /\ IsString(e.fields["expiresAt"])

FitsExtensions(v) ==
    /\ v.type = "object" /\ ~Has(v.fields, "unnamespaced")
    /\ Has(v.fields, "acn.network") => FitsNetwork(v.fields["acn.network"])

FitsSignature(v) ==
    /\ v.type = "object"
    /\ DOMAIN v.fields = {"keyId", "algorithm", "createdAt", "value"}
    /\ Is(v.fields["keyId"], "key id") /\ v.fields["algorithm"] = Key("Ed25519")
    /\ IsString(v.fields["createdAt"]) /\ Is(v.fields["value"], "signature")

(* Does a value satisfy a field of that kind?                              *)
FitsField(kind, v) ==
    CASE kind.is = "string"     -> Length(v, kind.min, kind.max)
      [] kind.is \in {"any", "time"} -> IsString(v)
      [] kind.is = "ref"        -> Is(v, "message")
      [] kind.is = "decimal"    -> IsAmount(v) /\ v.places <= kind.places
      [] kind.is = "word"       -> Is(v, "word") /\ v.word \in kind.words
      [] kind.is = "boolean"    -> v.type = "boolean"
      [] kind.is = "object"     -> v.type = "object"
      [] kind.is = "extensions" -> FitsExtensions(v)
      [] kind.is = "signature"  -> FitsSignature(v)
      [] OTHER                  -> Is(v, kind.is)

(* The fields of an object f that are against the schema s.                *)
FieldFaults(s, f) ==
    {k \in DOMAIN f \cup DOMAIN s.required :
        \/ k \notin DOMAIN f
        \/ k \notin DOMAIN Properties(s)
        \/ Properties(s)[k].is # "rows" /\ ~FitsField(Properties(s)[k], f[k])}

RowFaults(kind, v) ==
    IF v.type = "array" /\ Len(v.items) \in 1 .. MaxLines
    THEN UNION {IF v.items[i].type = "object" THEN FieldFaults(kind, v.items[i].fields)
                ELSE {"line"} : i \in DOMAIN v.items}
    ELSE {"lines"}

(* ... and those of a document of that type, with those of its lines.      *)
DocumentFaults(type, d) ==
    LET s == Schema[type]
    IN FieldFaults(s, d) \cup
       UNION {RowFaults(s.required[k], d[k]) :
                k \in {j \in DOMAIN s.required \cap DOMAIN d : s.required[j].is = "rows"}}
=============================================================================
