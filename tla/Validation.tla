----------------------------- MODULE Validation -----------------------------
(***************************************************************************)
(* acn_standard.validation: validate_envelope and the validators of the    *)
(* document types it dispatches to, with acn_standard.extensions.  Each    *)
(* operator lists the checks of one function in the order of the code, up  *)
(* to checks next to each other that fail alike.                           *)
(***************************************************************************)
EXTENDS Wire, FiniteSets

(* The checks of the lines in the list at key k: 1 to MaxLines objects,    *)
(* no two with the same value of ref among their own checks.               *)
Lines(d, k) == [i \in 1 .. Len(Items(Get(d, k))) |-> Fields(Items(Get(d, k))[i])]

LineList(d, k) == Require(Get(d, k).type = "array" /\ Len(Items(Get(d, k))) \in 1 .. MaxLines)

IsLine(d, k, i) == Require(Items(Get(d, k))[i].type = "object")

UniqueRef(lines, i, ref) ==
    IF ~Hashable(Get(lines[i], ref)) THEN Crashed
    ELSE Require(\A j \in 1 .. i - 1 : Get(lines[j], ref) # Get(lines[i], ref))

(* item.get(field) is truthy.                                              *)
Given(line, ks) == Require(\A k \in ks : Truthy(Get(line, k)))
Known(line, ks) == Require(DOMAIN line \subseteq ks)

PricedFields == {"rfqLineId", "quantity", "unit", "unitPrice", "lineTotal"}

(* Defect: the line total is not compared with the product.                *)
LineAmountsUnpriced(line) ==
    First(<<Positive(line, "quantity", 6), Decimal(line, "unitPrice", 6),
            Decimal(line, "lineTotal", 2)>>)

(* line_total == quantity * unit_price.                                    *)
LineAmounts(line) ==
    LET q == Get(line, "quantity")
        p == Get(line, "unitPrice")
        t == Get(line, "lineTotal")
    IN First(<<Positive(line, "quantity", 6), Decimal(line, "unitPrice", 6),
               Decimal(line, "lineTotal", 2), Computed(<<q, p>>, Times(q, p)),
               Require(Amounts(<<q, p, t>>) => Same(t, Times(q, p)))>>)

(* calculated += line_total, in the line at i.                             *)
Added(lines, i) ==
    LET totals == [j \in 1 .. i |-> Get(lines[j], "lineTotal")]
    IN Computed(totals, Total(totals))

(* total == calculated.                                                    *)
LinesTotal(d) ==
    LET lines  == Lines(d, "lines")
        totals == [i \in 1 .. Len(lines) |-> Get(lines[i], "lineTotal")]
    IN First(<<Decimal(d, "total", 2),
               Require(Amounts(totals) /\ IsAmount(Get(d, "total"))
                       => Same(Get(d, "total"), Total(totals)))>>)

(* total == subtotal + tax.                                                *)
TaxedTotal(d) ==
    LET s == Get(d, "subtotal")
        x == Get(d, "tax")
        t == Get(d, "total")
    IN First(<<Computed(<<s, x>>, Plus(s, x)),
               Require(Amounts(<<s, x, t>>) => Same(t, Plus(s, x)))>>)
-----------------------------------------------------------------------------
RfqItem(d, i) ==
    LET items == Lines(d, "items")
    IN First(<<IsLine(d, "items", i),
               Known(items[i], {"lineId", "sku", "description", "quantity", "unit", "specifications"}),
               Given(items[i], {"lineId", "description", "quantity", "unit"}),
               UniqueRef(items, i, "lineId"), Positive(items[i], "quantity", 6)>>)

ValidateRfq(d, created) ==
    LET Item(i) == RfqItem(d, i)
    IN First(<<ExactFields(d, {"currency", "deliveryLocation", "responseDeadline", "items"}, {}),
               Match(Get(d, "currency"), "currency"), After(d, "responseDeadline", created),
               LineList(d, "items"), Each(Lines(d, "items"), Item)>>)

QuotationLine(d, i) ==
    LET lines == Lines(d, "lines")
    IN First(<<IsLine(d, "lines", i),
               Known(lines[i], PricedFields), Given(lines[i], PricedFields),
               UniqueRef(lines, i, "rfqLineId"), LineAmounts(lines[i]), Added(lines, i)>>)

ValidateQuotation(d, created) ==
    LET Line(i) == QuotationLine(d, i)
    IN First(<<ExactFields(d, {"currency", "validUntil", "lines", "total"},
                              {"paymentTerms", "deliveryTerms"}),
               Match(Get(d, "currency"), "currency"), After(d, "validUntil", created),
               LineList(d, "lines"), Each(Lines(d, "lines"), Line), LinesTotal(d)>>)

ValidateCounteroffer(d, created) ==
    First(<<Reference(d, "quotationMessageId"),
            ValidateQuotation(Drop(d, {"quotationMessageId", "reason"}), created),
            OptionalText(d, "reason", 500)>>)

ValidateTransactionCancellation(d) ==
    First(<<ExactFields(d, {"againstMessageId", "reason", "cancelledAt"}, {}),
            Reference(d, "againstMessageId"), Nonempty(d, "reason", 500),
            Timestamp(d, "cancelledAt")>>)

ValidateOrderCancellationRequest(d) ==
    First(<<ExactFields(d, {"purchaseOrderMessageId", "orderNumber", "reason", "requestedAt"}, {}),
            Reference(d, "purchaseOrderMessageId"), Nonempty(d, "orderNumber", 128),
            Nonempty(d, "reason", 500), Timestamp(d, "requestedAt")>>)

(* A rejection, and only a rejection, says why.                            *)
RejectionReason(d) ==
    IF Get(d, "accepted") = Bool(TRUE) THEN Require(~Has(d, "rejectionReason"))
    ELSE Nonempty(d, "rejectionReason", 500)

ValidateOrderCancellationResponse(d) ==
    First(<<ExactFields(d, {"cancellationRequestMessageId", "orderNumber", "accepted", "decidedAt"},
                           {"rejectionReason"}),
            Reference(d, "cancellationRequestMessageId"), Nonempty(d, "orderNumber", 128),
            Require(Get(d, "accepted").type = "boolean"), Timestamp(d, "decidedAt"),
            RejectionReason(d)>>)

ShippedLine(d, i) ==
    LET lines == Lines(d, "lines")
    IN First(<<IsLine(d, "lines", i),
               ExactFields(lines[i], {"rfqLineId", "quantity", "unit"}, {}),
               Nonempty(lines[i], "rfqLineId", 128), UniqueRef(lines, i, "rfqLineId"),
               Positive(lines[i], "quantity", 6), Nonempty(lines[i], "unit", 32)>>)

ValidateShipmentNotice(d) ==
    LET Line(i) == ShippedLine(d, i)
    IN First(<<ExactFields(d, {"shipmentId", "purchaseOrderMessageId", "orderNumber", "shippedAt", "lines"},
                              {"carrier", "trackingReference"}),
               Nonempty(d, "shipmentId", 128), Reference(d, "purchaseOrderMessageId"),
               Nonempty(d, "orderNumber", 128), Timestamp(d, "shippedAt"),
               LineList(d, "lines"), Each(Lines(d, "lines"), Line)>>)

ReceivedLine(d, i) ==
    LET lines == Lines(d, "lines")
        accepted == Get(lines[i], "acceptedQuantity")
        rejected == Get(lines[i], "rejectedQuantity")
    IN First(<<IsLine(d, "lines", i),
               ExactFields(lines[i], {"rfqLineId", "acceptedQuantity", "rejectedQuantity", "unit"},
                                     {"rejectionReason"}),
               Nonempty(lines[i], "rfqLineId", 128), UniqueRef(lines, i, "rfqLineId"),
               Decimal(lines[i], "acceptedQuantity", 6), Decimal(lines[i], "rejectedQuantity", 6),
               Computed(<<accepted, rejected>>, Plus(accepted, rejected)),
               Require(IsAmount(accepted) /\ IsAmount(rejected)
                       => Plus(accepted, rejected).coef > 0),
               Nonempty(lines[i], "unit", 32),
               IF IsAmount(rejected) /\ rejected.coef > 0
               THEN Nonempty(lines[i], "rejectionReason", 500)
               ELSE Require(~Has(lines[i], "rejectionReason"))>>)

ValidateGoodsReceipt(d) ==
    LET Line(i) == ReceivedLine(d, i)
    IN First(<<ExactFields(d, {"receiptId", "shipmentNoticeMessageId", "orderNumber", "receivedAt", "lines"},
                              {"note"}),
               Nonempty(d, "receiptId", 128), Reference(d, "shipmentNoticeMessageId"),
               Nonempty(d, "orderNumber", 128), Timestamp(d, "receivedAt"),
               LineList(d, "lines"), Each(Lines(d, "lines"), Line)>>)

ValidateAcceptance(d) ==
    First(<<ExactFields(d, {"quotationMessageId"}, {}), Reference(d, "quotationMessageId")>>)

OrderLine(d, i) ==
    LET lines == Lines(d, "lines")
    IN First(<<IsLine(d, "lines", i), ExactFields(lines[i], PricedFields, {}),
               Nonempty(lines[i], "rfqLineId", 128), UniqueRef(lines, i, "rfqLineId"),
               Nonempty(lines[i], "unit", 32), LineAmounts(lines[i]), Added(lines, i)>>)

ValidateOrder(d) ==
    LET Line(i) == OrderLine(d, i)
    IN First(<<ExactFields(d, {"orderNumber", "quotationMessageId", "currency",
                               "deliveryLocation", "lines", "total"}, {}),
               Nonempty(d, "orderNumber", 128), Reference(d, "quotationMessageId"),
               Currency(d), Nonempty(d, "deliveryLocation", 500),
               LineList(d, "lines"), Each(Lines(d, "lines"), Line), LinesTotal(d)>>)

ValidateOrderAcknowledgement(d, created) ==
    First(<<ExactFields(d, {"purchaseOrderMessageId", "orderNumber", "accepted"},
                           {"expectedDeliveryAt", "rejectionReason"}),
            Reference(d, "purchaseOrderMessageId"), Nonempty(d, "orderNumber", 128),
            Require(Get(d, "accepted").type = "boolean"),
            RejectionReason(d),
            IF Get(d, "accepted") = Bool(TRUE) /\ Has(d, "expectedDeliveryAt")
            THEN After(d, "expectedDeliveryAt", created) ELSE Passed>>)

ValidateFulfillment(d) ==
    First(<<ExactFields(d, {"purchaseOrderMessageId", "orderNumber", "status", "occurredAt"},
                           {"trackingReference", "note"}),
            Reference(d, "purchaseOrderMessageId"), Nonempty(d, "orderNumber", 128),
            In(Get(d, "status"), {"processing", "shipped", "delivered"}),
            Timestamp(d, "occurredAt"),
            OptionalText(d, "trackingReference", 500), OptionalText(d, "note", 500)>>)

ValidateInvoice(d, created) ==
    First(<<ExactFields(d, {"invoiceNumber", "purchaseOrderMessageId", "currency",
                            "subtotal", "tax", "total", "dueAt"}, {}),
            Nonempty(d, "invoiceNumber", 128), Reference(d, "purchaseOrderMessageId"), Currency(d),
            Decimal(d, "subtotal", 2), Decimal(d, "tax", 2), Decimal(d, "total", 2),
            TaxedTotal(d), After(d, "dueAt", created)>>)

ValidatePaymentIntent(d) ==
    First(<<ExactFields(d, {"invoiceMessageId", "currency", "amount", "intentReference"},
                           {"paymentMethod", "provider"}),
            Reference(d, "invoiceMessageId"), Currency(d), Positive(d, "amount", 2),
            Nonempty(d, "intentReference", 128),
            OptionalText(d, "paymentMethod", 128), OptionalText(d, "provider", 128)>>)

(* The explanation at key k is checked when the field at key f is w.       *)
Explained(d, f, w, k) == IF Get(d, f) = Word(w) THEN Nonempty(d, k, 500) ELSE Passed

ValidateApprovalEvidence(d) ==
    First(<<ExactFields(d, {"acceptanceMessageId", "evidenceId", "policyId",
                            "decision", "decidedAt", "approver"}, {"reason"}),
            Reference(d, "acceptanceMessageId"),
            Nonempty(d, "evidenceId", 128), Nonempty(d, "policyId", 128),
            In(Get(d, "decision"), {"approved", "rejected"}), Timestamp(d, "decidedAt"),
            Require(Is(Get(d, "approver"), "agent")),
            Explained(d, "decision", "rejected", "reason")>>)

ValidatePaymentResult(d) ==
    First(<<ExactFields(d, {"paymentIntentMessageId", "resultReference", "status",
                            "currency", "amount", "occurredAt", "provider"}, {"failureReason"}),
            Reference(d, "paymentIntentMessageId"), Nonempty(d, "resultReference", 128),
            In(Get(d, "status"), {"authorized", "captured", "failed"}),
            Currency(d), Positive(d, "amount", 2), Timestamp(d, "occurredAt"),
            Nonempty(d, "provider", 128), Explained(d, "status", "failed", "failureReason")>>)

ValidateSettlement(d) ==
    First(<<ExactFields(d, {"paymentResultMessageId", "settlementReference", "status",
                            "currency", "amount", "occurredAt"}, {"reason"}),
            Reference(d, "paymentResultMessageId"), Nonempty(d, "settlementReference", 128),
            In(Get(d, "status"), {"settled", "reversed"}),
            Currency(d), Positive(d, "amount", 2), Timestamp(d, "occurredAt"),
            Explained(d, "status", "reversed", "reason")>>)

(* Of an optional amount and its currency, neither comes without the other. *)
OptionalMoney(d, k, amount) ==
    IF {k, "currency"} \cap DOMAIN d = {} THEN Passed
    ELSE First(<<Require({k, "currency"} \subseteq DOMAIN d), Currency(d), amount>>)

ValidateDisputeOpened(d) ==
    First(<<ExactFields(d, {"disputeId", "againstMessageId", "category", "description"},
                           {"currency", "amount"}),
            Nonempty(d, "disputeId", 128), Reference(d, "againstMessageId"),
            In(Get(d, "category"),
               {"quantity", "quality", "delivery", "invoice", "payment", "other"}),
            Nonempty(d, "description", 1000),
            OptionalMoney(d, "amount", Positive(d, "amount", 2))>>)

ValidateDisputeResolved(d) ==
    First(<<ExactFields(d, {"disputeId", "disputeMessageId", "resolution", "resolvedAt"},
                           {"note", "agreedAmount", "currency"}),
            Nonempty(d, "disputeId", 128), Reference(d, "disputeMessageId"),
            In(Get(d, "resolution"), {"accepted", "rejected", "partial", "withdrawn"}),
            Timestamp(d, "resolvedAt"),
            OptionalMoney(d, "agreedAmount", Decimal(d, "agreedAmount", 2))>>)

ReturnLine(d, i) ==
    LET lines == Lines(d, "lines")
    IN First(<<IsLine(d, "lines", i), ExactFields(lines[i], {"rfqLineId", "quantity", "unit"}, {"reason"}),
               Nonempty(lines[i], "rfqLineId", 128), UniqueRef(lines, i, "rfqLineId"),
               Positive(lines[i], "quantity", 6), Nonempty(lines[i], "unit", 32),
               OptionalText(lines[i], "reason", 500)>>)

ValidateReturnLines(d) ==
    LET Line(i) == ReturnLine(d, i)
    IN First(<<LineList(d, "lines"), Each(Lines(d, "lines"), Line)>>)

ValidateReturnAuthorization(d, created) ==
    First(<<ExactFields(d, {"authorizationId", "disputeMessageId", "orderNumber", "expiresAt", "lines"},
                           {"instructions"}),
            Nonempty(d, "authorizationId", 128), Reference(d, "disputeMessageId"),
            Nonempty(d, "orderNumber", 128), After(d, "expiresAt", created),
            ValidateReturnLines(d), OptionalText(d, "instructions", 1000)>>)

ValidateReturnReceipt(d) ==
    First(<<ExactFields(d, {"receiptId", "authorizationMessageId", "receivedAt", "lines"}, {"note"}),
            Nonempty(d, "receiptId", 128), Reference(d, "authorizationMessageId"),
            Timestamp(d, "receivedAt"), ValidateReturnLines(d), OptionalText(d, "note", 500)>>)

ValidateCreditNote(d) ==
    First(<<ExactFields(d, {"creditNoteNumber", "invoiceMessageId", "returnReceiptMessageId",
                            "currency", "subtotal", "tax", "total", "issuedAt"}, {"reason"}),
            Nonempty(d, "creditNoteNumber", 128),
            Reference(d, "invoiceMessageId"), Reference(d, "returnReceiptMessageId"), Currency(d),
            Positive(d, "subtotal", 2), Decimal(d, "tax", 2), Positive(d, "total", 2),
            TaxedTotal(d), Timestamp(d, "issuedAt"), OptionalText(d, "reason", 500)>>)
-----------------------------------------------------------------------------
Evidence == {"reservationId", "quotationMessageId", "provider", "expiresAt", "evidenceHash"}

(* validate_network_extension on the value at "acn.network".               *)
NetworkExtension(value, documentType) ==
    LET f          == Fields(value)
        categories == IF Has(f, "productCategories") THEN f["productCategories"] ELSE List(<<>>)
        cs         == Items(categories)
        evidence   == Get(f, "reservationEvidence")
        e          == Fields(evidence)
    IN IF value \in {Absent, Null} THEN Passed
       ELSE First(<<
           Require(value.type = "object"
                   /\ DOMAIN f \subseteq {"productCategories", "reservationEvidence"}),
           Require(categories.type = "array" /\ Len(cs) <= 100),
           IF \A i \in 1 .. Len(cs) : Hashable(cs[i]) THEN Passed ELSE Crashed,
           Require(\A i \in 1 .. Len(cs) : /\ Is(cs[i], "category")
                                          /\ \A j \in 1 .. i - 1 : cs[j] # cs[i]),
           IF evidence \in {Absent, Null} THEN Passed
           ELSE First(<<
               Require(documentType = Word("purchase_order")),
               Require(evidence.type = "object" /\ DOMAIN e = Evidence),
               Nonempty(e, "reservationId", 255), Nonempty(e, "provider", 255),
               Reference(e, "quotationMessageId"), Require(Is(Get(e, "evidenceHash"), "hash")),
               Timestamp(e, "expiresAt")>>)>>)

EnvelopeFields ==
    {"specVersion", "messageId", "transactionId", "documentType", "sender", "recipient",
     "createdAt", "expiresAt", "idempotencyKey", "inReplyTo", "extensions", "document", "signature"}

Validator(type, d, created) ==
    CASE type = "request_for_quote"           -> ValidateRfq(d, created)
      [] type = "quotation"                   -> ValidateQuotation(d, created)
      [] type = "quotation_counteroffer"      -> ValidateCounteroffer(d, created)
      [] type = "transaction_cancellation"    -> ValidateTransactionCancellation(d)
      [] type = "order_cancellation_request"  -> ValidateOrderCancellationRequest(d)
      [] type = "order_cancellation_response" -> ValidateOrderCancellationResponse(d)
      [] type = "shipment_notice"             -> ValidateShipmentNotice(d)
      [] type = "goods_receipt"               -> ValidateGoodsReceipt(d)
      [] type = "quotation_acceptance"        -> ValidateAcceptance(d)
      [] type = "purchase_order"              -> ValidateOrder(d)
      [] type = "order_acknowledgement"       -> ValidateOrderAcknowledgement(d, created)
      [] type = "fulfillment_status"          -> ValidateFulfillment(d)
      [] type = "invoice"                     -> ValidateInvoice(d, created)
      [] type = "payment_intent"              -> ValidatePaymentIntent(d)
      [] type = "approval_evidence"           -> ValidateApprovalEvidence(d)
      [] type = "payment_result"              -> ValidatePaymentResult(d)
      [] type = "settlement_confirmation"     -> ValidateSettlement(d)
      [] type = "dispute_opened"              -> ValidateDisputeOpened(d)
      [] type = "dispute_resolved"            -> ValidateDisputeResolved(d)
      [] type = "return_authorization"        -> ValidateReturnAuthorization(d, created)
      [] type = "return_receipt"              -> ValidateReturnReceipt(d)
      [] type = "credit_note"                 -> ValidateCreditNote(d)

ReplyDocuments ==
    {"quotation", "quotation_counteroffer", "transaction_cancellation",
     "order_cancellation_request", "order_cancellation_response", "shipment_notice",
     "goods_receipt", "quotation_acceptance", "purchase_order", "order_acknowledgement",
     "fulfillment_status", "invoice", "payment_intent", "approval_evidence",
     "payment_result", "settlement_confirmation", "dispute_opened", "dispute_resolved",
     "return_authorization", "return_receipt", "credit_note"}

(* The reply rules and the validator of the document type.                 *)
Dispatch(e, created) ==
    LET type == e["documentType"].word
    IN First(<<
        IF type = "request_for_quote" THEN Require(Get(e, "inReplyTo") \in {Absent, Null})
        ELSE Reference(e, "inReplyTo"),
        Validator(type, Fields(Get(e, "document")), created)>>)

ValidateEnvelope(value) ==
    LET e       == Fields(value)
        extensions == IF Has(e, "extensions") THEN e["extensions"] ELSE Object(NoFields)
        created == Get(e, "createdAt")
        type    == Get(e, "documentType")
    IN First(<<
        Require(value.type = "object"), Known(e, EnvelopeFields),
        Require(Get(e, "specVersion") = Version),
        Reference(e, "messageId"), Require(Is(Get(e, "transactionId"), "transaction")),
        Require(Is(Get(e, "sender"), "agent")), Require(Is(Get(e, "recipient"), "agent")),
        Require(Get(e, "sender") # Get(e, "recipient")),
        Nonempty(e, "idempotencyKey", 255), Timestamp(e, "createdAt"),
        IF Is(created, "time") THEN After(e, "expiresAt", created.at) ELSE Refused,
        Require(Get(e, "document").type = "object"),
        Require(extensions.type = "object"),
        Require("unnamespaced" \notin DOMAIN Fields(extensions)),
        NetworkExtension(Get(Fields(extensions), "acn.network"), type),
        In(type, ReplyDocuments \cup {"request_for_quote"}),
        IF Is(created, "time") /\ Is(type, "word")
              /\ type.word \in ReplyDocuments \cup {"request_for_quote"}
        THEN Dispatch(e, created.at) ELSE Passed>>)
=============================================================================
