----------------------------- MODULE PostPolicy -----------------------------
(***************************************************************************)
(* What the HTTP helper of each SDK does with the outcome of one attempt:  *)
(* AcnClient._post of the Python SDK and AcnClient.post of the TypeScript  *)
(* SDK.  Every client operation (submit, submit_a2a, claim, acknowledge,   *)
(* reject) goes through it, so the modules of those operations share this  *)
(* table.  HTTP status codes the SDKs treat alike are represented by one.  *)
(***************************************************************************)
EXTENDS Integers

Python == "python"
TypeScript == "typescript"
Sdks == {Python, TypeScript}

Retryable == {429, 502, 503, 504}
Terminal  == {400, 401, 409, 422, 500}
Statuses  == {200} \cup Retryable \cup Terminal

(***************************************************************************)
(* The body of an answer: a JSON object of the expected shape; JSON of     *)
(* another shape (a list, a string, {"error": "busy"}); JSON null; or      *)
(* bytes that are not JSON (an HTML page of a gateway, an empty body).     *)
(***************************************************************************)
Bodies  == {"object", "odd", "null", "garbled"}
Answers == [status : Statuses, body : Bodies]

(***************************************************************************)
(* Outcomes without an answer.  Unreachable: the request could not be sent *)
(* (urllib wraps the OSError in URLError).  Lost: the request was sent and *)
(* the wait for the answer timed out or the connection was dropped (urllib *)
(* lets TimeoutError and RemoteDisconnected through unwrapped).            *)
(***************************************************************************)
Unreachable == [status |-> 0, body |-> "unreachable"]
Lost        == [status |-> 0, body |-> "lost"]
Outcomes    == Answers \cup {Unreachable, Lost}

Accepted == [status |-> 200, body |-> "object"]

(* Defect: a conflict counts as success (the delivery is gone either way). *)
ReturnsConflict(sdk, o) == o.status \in {200, 409} /\ o.body # "garbled"

(***************************************************************************)
(* How an attempt can end other than with an untyped exception: the helper *)
(* returns the decoded body, keeps the error for a retry, or raises a      *)
(* typed error at once.                                                    *)
(***************************************************************************)
Returns(sdk, o) == o.status = 200 /\ o.body # "garbled"

(* Defect: every 5xx answer counts as transient.                           *)
PyRetriesAll5xx(o) == o = Unreachable \/ o.status \in Retryable \cup {500}

(* The error body is decoded leniently, then read with .get: JSON that is  *)
(* not an object of the expected shape raises AttributeError.              *)
PyRetries(o) ==
    \/ o = Unreachable
    \/ o.status \in Retryable /\ o.body \in {"object", "garbled"}

PyRaises(o) == o.status \in Terminal /\ o.body \in {"object", "garbled"}

(* Defect: only an answer is retried, never a missing one.                 *)
TsRetriesAnswersOnly(o) == o.status \in Retryable

(* response.json() is awaited before the status is looked at, and every    *)
(* exception but AcnError, a TypeError on null included, is retried.       *)
TsRetries(o) ==
    \/ o.status \in Retryable \cup {0}
    \/ o.body = "garbled"
    \/ o.status # 200 /\ o.body = "null"

TsRaises(o) == o.status \in Terminal /\ o.body \in {"object", "odd"}

Retries(sdk, o)     == IF sdk = Python THEN PyRetries(o) ELSE TsRetries(o)
RaisesTyped(sdk, o) == IF sdk = Python THEN PyRaises(o) ELSE TsRaises(o)

(* The status of the typed error raised when the last attempt ended in o.  *)
PyExhaustedStatus(o) == o.status
TsExhaustedStatus(o) == IF o.body \in {"object", "odd"} THEN o.status ELSE 0
ExhaustedStatus(sdk, o) ==
    IF sdk = Python THEN PyExhaustedStatus(o) ELSE TsExhaustedStatus(o)

(* Defect: retry_attempts counts the first attempt too.                    *)
PyAttemptsTotal(retryAttempts) == retryAttempts

(* range(max(0, retry_attempts) + 1), and (retries ?? 2) + 1 with no floor. *)
PyAttempts(retryAttempts) == IF retryAttempts < 0 THEN 1 ELSE retryAttempts + 1
TsAttempts(retries)       == retries + 1
Attempts(sdk, retryAttempts) ==
    IF sdk = Python THEN PyAttempts(retryAttempts) ELSE TsAttempts(retryAttempts)

(* What a reader of the sources expects the table to say of an outcome.    *)
IsTransient(o) == o.status \in Retryable \cup {0}
IsFinalAnswer(o) == o.status \in Terminal
=============================================================================
