--------------------------------- MODULE A2A ---------------------------------
(***************************************************************************)
(* The A2A 1.0 binding: acn_standard.a2a, and the messages the submit_a2a  *)
(* of the SDKs sends and reads.                                            *)
(***************************************************************************)
EXTENDS Validation

MediaType           == Key("application/vnd.acn+json")
TypeScriptMediaType == Key("application/vnd.acn.envelope+json;version=0.1")
UserRole  == Key("ROLE_USER")

(* The request of submit_a2a for the envelope with fields e; the SDKs      *)
(* label the part with different media types.                              *)
SendMessage(label, id, e) ==
    Object([message |-> Object([messageId |-> id, contextId |-> e["transactionId"], role |-> UserRole,
        parts |-> List(<<Object([mediaType |-> label, data |-> Object(e)])>>),
        extensions |-> List(<<Key("uri")>>)])])

Message(value) == Fields(Get(Fields(value), "message"))
Part(value)    == IF Items(Get(Message(value), "parts")) = <<>> THEN Absent
                  ELSE Items(Get(Message(value), "parts"))[1]
Data(value)    == Get(Fields(Part(value)), "data")

(* parse_a2a_message: the outcome; Data(value) is what it returns.         *)
ParseA2AMessage(value) ==
    LET m == Message(value)
        p == Fields(Part(value))
    IN First(<<
        Require(value.type = "object" /\ DOMAIN Fields(value) \subseteq {"message", "metadata"}),
        Require(Get(Fields(value), "message").type = "object"),
        Known(m, {"messageId", "contextId", "role", "parts", "metadata", "extensions"}),
        Require(Get(m, "role") = UserRole),
        Nonempty(m, "messageId", 128),
        Require(Len(Items(Get(m, "parts"))) = 1),
        Require(Part(value).type = "object" /\ DOMAIN p \subseteq {"data", "mediaType", "metadata"}),
        Require(Get(p, "mediaType") = MediaType /\ Data(value).type = "object"),
        ValidateEnvelope(Data(value)),
        Require(Get(m, "contextId") \in {Absent, Null, Get(Fields(Data(value)), "transactionId")})>>)

(* Defect: the result names the A2A message where the ACN message belongs. *)
ResultMessageUncorrelated(request, result) ==
    Object([message |-> Object([
        messageId |-> Key("acn-result"), contextId |-> result.transaction_id,
        role |-> Key("ROLE_AGENT"),
        parts |-> List(<<Object([mediaType |-> Key("application/vnd.acn.result+json"),
            data |-> Object([transactionId |-> result.transaction_id,
                             messageId |-> Message(request)["messageId"],
                             status |-> result.status, duplicate |-> result.duplicate])])>>)])])

(* a2a_result_message for the record of an accepted submission.            *)
ResultMessage(request, result) ==
    Object([message |-> Object([
        messageId |-> Key("acn-result"), contextId |-> result.transaction_id,
        role |-> Key("ROLE_AGENT"),
        parts |-> List(<<Object([mediaType |-> Key("application/vnd.acn.result+json"),
            data |-> Object([transactionId |-> result.transaction_id, messageId |-> result.message_id,
                             status |-> result.status, duplicate |-> result.duplicate])])>>),
        metadata |-> Object([inReplyTo |-> Message(request)["messageId"]]),
        extensions |-> List(<<Key("uri")>>)])])

(* The Submission that submit and submit_a2a return.                       *)
Submission(t, m, s, d) == [transaction |-> t, message |-> m, status |-> s, duplicate |-> d]
ReadNative(result) ==
    Submission(result.transaction_id, result.message_id, result.status, result.duplicate)
ReadA2A(value) ==
    LET data == Fields(Data(value))
    IN Submission(data["transactionId"], data["messageId"], data["status"], data["duplicate"])
=============================================================================
