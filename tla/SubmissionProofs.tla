-------------------------- MODULE SubmissionProofs --------------------------
(***************************************************************************)
(* Proofs about Submission for every set of calls and envelopes, every     *)
(* number of retries and every budget of faults and of edits.              *)
(***************************************************************************)
EXTENDS Submission, SequenceTheorems, TLAPS

USE SdkAssumption, EnvelopeAssumption, AcceptableAssumption, RetryAssumption,
    FaultAssumption, MaxFaultsAssumption, MaxEditsAssumption

Replies == Submissions \cup Refusals \cup {None}

LEMMA OutcomeTypes ==
    /\ Faults \subseteq Outcomes
    /\ Unreachable \in Outcomes /\ Accepted \in Outcomes
    /\ \A s \in Statuses : [status |-> s, body |-> "object"] \in Outcomes
    /\ \A o \in Outcomes : o.status \in Statuses \cup {0}
BY DEF Outcomes, Answers, Unreachable, Lost, Accepted, Bodies, Statuses

(* The constructors of results and their fields.                           *)
LEMMA TypedType ==
    \A s \in Statuses \cup {0} : Typed(s, FALSE) \in TypedErrors
                              /\ Typed(s, TRUE) \in TypedErrors
<1>1. \A s \in Statuses \cup {0} : \A b \in BOOLEAN : Typed(s, b) \in TypedErrors
  BY SMT DEF TypedErrors
<1>2. FALSE \in BOOLEAN /\ TRUE \in BOOLEAN
  OBVIOUS
<1> QED BY <1>1, <1>2, Zenon

LEMMA SubmittedType ==
    \A e \in Envelopes : Submitted(e, FALSE) \in Submissions
                      /\ Submitted(e, TRUE) \in Submissions
<1>1. \A e \in Envelopes : \A b \in BOOLEAN : Submitted(e, b) \in Submissions
  BY SMT DEF Submissions
<1>2. FALSE \in BOOLEAN /\ TRUE \in BOOLEAN
  OBVIOUS
<1> QED BY <1>1, <1>2, Zenon

LEMMA SubmissionFields ==
    \A x \in Submissions : x.kind = "submission" /\ x.envelope \in Envelopes
BY SMT DEF Submissions, Submitted

LEMMA RefusalFields ==
    \A x \in Refusals : x.kind = "typed" /\ x.status \in RefusalStatuses
BY SMT DEF Refusals, Typed

LEMMA RefusalType ==
    /\ RefusalStatuses \subseteq Statuses
    /\ Typed(400, FALSE) \in Refusals
    /\ Typed(409, FALSE) \in Refusals
    /\ Typed(422, FALSE) \in Refusals
<1>1. 400 \in RefusalStatuses /\ 409 \in RefusalStatuses /\ 422 \in RefusalStatuses
  BY DEF RefusalStatuses
<1>2. RefusalStatuses \subseteq Statuses
  BY DEF RefusalStatuses, Statuses, Terminal
<1> QED BY <1>1, <1>2, ZenonT(60) DEF Refusals

LEMMA DecodedType ==
    ASSUME NEW c, NEW o, NEW r \in Submissions \cup {None}
    PROVE  Decoded(c, o, r) \in Results
BY DEF Decoded, Results

LEMMA SettleType ==
    ASSUME TypeOK, NEW c \in Call, NEW o \in Outcomes,
           NEW r \in Submissions \cup {None}, Settle(c, o, r)
    PROVE  /\ pc' \in [Call -> {"idle", "sending", "waiting", "backoff", "done"}]
           /\ seen' \in [Call -> Seq(Outcomes)]
           /\ outcome' \in [Call -> Results]
           /\ reply' \in [Call -> Replies]
<1>1. seen' \in [Call -> Seq(Outcomes)]
  BY DEF TypeOK, Settle
<1>2. reply' \in [Call -> Replies]
  BY DEF TypeOK, Settle, Replies
<1>3. Typed(ExhaustedStatus(SdkOf[c], o), TRUE) \in Results
  <2>1. ExhaustedStatus(SdkOf[c], o) \in Statuses \cup {0}
    BY OutcomeTypes DEF ExhaustedStatus, PyExhaustedStatus, TsExhaustedStatus
  <2> QED BY <2>1, TypedType DEF Results
<1>4. Typed(o.status, FALSE) \in Results
  <2>1. o.status \in Statuses \cup {0}
    BY OutcomeTypes
  <2> QED BY <2>1, TypedType DEF Results
<1>5. Decoded(c, o, r) \in Results
  BY DecodedType
<1>6. Raw \in Results
  BY DEF Results
<1>7. pc' \in [Call -> {"idle", "sending", "waiting", "backoff", "done"}]
  BY DEF TypeOK, Settle
<1>8. outcome' \in [Call -> Results]
  BY <1>3, <1>4, <1>5, <1>6, ZenonT(60) DEF TypeOK, Settle
<1> QED BY <1>1, <1>2, <1>7, <1>8

LEMMA AnswerCases ==
    ASSUME NEW r
    PROVE  \/ Answer(r) = Typed(400, FALSE)
           \/ Answer(r) = Typed(422, FALSE)
           \/ Answer(r) = Typed(409, FALSE)
           \/ Answer(r) = Submitted(r.envelope, FALSE)
           \/ Answer(r) = Submitted(r.envelope, TRUE)
<1> DEFINE entry == ledger[Namespace(r.envelope)]
<1>1. CASE r.mediaType \notin Understood
  BY <1>1, Zenon DEF Answer
<1>2. CASE r.mediaType \in Understood /\ r.envelope \notin Acceptable
  <2>1. Answer(r) = Typed(422, FALSE)
    BY <1>2, ZenonT(30) DEF Answer
  <2> QED BY <2>1, Zenon
<1>3. CASE r.mediaType \in Understood /\ r.envelope \in Acceptable
  <2>1. CASE entry = None
    BY <1>3, <2>1, Zenon DEF Answer
  <2>2. CASE entry # None /\ entry.envelope = r.envelope
    BY <1>3, <2>2, Zenon DEF Answer
  <2>3. CASE entry # None /\ entry.envelope # r.envelope
    <3>1. Answer(r) = Typed(409, FALSE)
      BY <1>3, <2>3, ZenonT(30) DEF Answer
    <3> QED BY <3>1, Zenon
  <2> QED BY <2>1, <2>2, <2>3
<1> QED BY <1>1, <1>2, <1>3

LEMMA AnswerType ==
    ASSUME TypeOK, NEW r \in net
    PROVE  Answer(r) \in Submissions \cup Refusals
<1>1. r.envelope \in Envelopes
  BY DEF TypeOK, Request
<1>2. Submitted(r.envelope, FALSE) \in Submissions /\ Submitted(r.envelope, TRUE) \in Submissions
  BY <1>1, SubmittedType
<1> QED BY <1>2, RefusalType, AnswerCases, Zenon

LEMMA WriteType ==
    ASSUME TypeOK, NEW c \in Call, NEW e \in Envelopes, Write(c, e)
    PROVE  body' \in [Call -> Envelopes] /\ written' \in [Call -> SUBSET Envelopes]
<1>1. body' \in [Call -> Envelopes]
  BY DEF TypeOK, Write
<1>2. \A d \in Call : written[d] \cup {e} \in SUBSET Envelopes
  BY DEF TypeOK
<1>3. written \in [Call -> SUBSET Envelopes]
  BY DEF TypeOK
<1>4. written' = [written EXCEPT ![c] = written[c] \cup {e}]
  BY DEF Write
<1>5. written' \in [Call -> SUBSET Envelopes]
  BY <1>2, <1>3, <1>4, Zenon
<1> QED BY <1>1, <1>5

LEMMA TypeInit == Init => TypeOK
<1> SUFFICES ASSUME Init PROVE TypeOK
  OBVIOUS
<1>1. None \in Results
  BY DEF Results
<1> QED BY <1>1 DEF Init, TypeOK, Args

LEMMA TypeStep == TypeOK /\ [Next]_vars => TypeOK'
<1> SUFFICES ASSUME TypeOK, [Next]_vars PROVE TypeOK'
  OBVIOUS
<1>1. ASSUME NEW c \in Call, Submit(c) PROVE TypeOK'
  <2>1. PICK e \in Envelopes : e = args[c].envelope
    BY DEF TypeOK, Args
  <2>2. body' \in [Call -> Envelopes] /\ written' \in [Call -> SUBSET Envelopes]
    <3>1. CASE Write(c, e)
      BY <3>1, WriteType
    <3>2. CASE UNCHANGED <<body, written>>
      BY <3>2 DEF TypeOK
    <3> QED BY <1>1, <2>1, <3>1, <3>2 DEF Submit
  <2> QED BY <1>1, <2>2 DEF Submit, TypeOK, Results, serverVars, bounds
<1>2. ASSUME NEW c \in Call, Post(c) PROVE TypeOK'
  <2>1. body[c] \in Envelopes
    BY DEF TypeOK
  <2>2. MediaType(SdkOf[c], args[c].binding) \in MediaTypes
    BY DEF TypeOK, Args, MediaTypes
  <2>3. net' \subseteq Request
    BY <1>2, <2>1, <2>2 DEF Post, TypeOK, Request
  <2> QED BY <1>2, <2>3 DEF Post, TypeOK, bodyVars, serverVars, bounds
<1>3. ASSUME NEW c \in Call, Refused(c) PROVE TypeOK'
  <2>1. faults' \in Nat /\ edits' \in Nat
    BY <1>3 DEF Refused, Fault, TypeOK
  <2> QED BY <1>3, <2>1, OutcomeTypes, SettleType
          DEF Refused, TypeOK, Replies, bodyVars, serverVars
<1>4. ASSUME NEW c \in Call, NEW o \in Faults, Disturbed(c, o) PROVE TypeOK'
  <2>1. faults' \in Nat /\ edits' \in Nat
    BY <1>4 DEF Disturbed, Fault, TypeOK
  <2> QED BY <1>4, <2>1, OutcomeTypes, SettleType
          DEF Disturbed, TypeOK, Replies, bodyVars, serverVars
<1>5. ASSUME NEW c \in Call, Receive(c) PROVE TypeOK'
  <2>1. reply[c] \in Submissions \cup Refusals
    BY <1>5 DEF Receive, TypeOK
  <2>2. CASE reply[c].kind = "submission"
    <3>1. reply[c] \in Submissions
      BY <2>1, <2>2, RefusalFields
    <3>2. Settle(c, Accepted, reply[c])
      BY <1>5, <2>2 DEF Receive
    <3> QED BY <1>5, <3>1, <3>2, OutcomeTypes, SettleType
            DEF Receive, TypeOK, Replies, bodyVars, serverVars, bounds
  <2>3. CASE reply[c].kind # "submission"
    <3> DEFINE o == [status |-> reply[c].status, body |-> "object"]
    <3>1. o \in Outcomes
      <4>1. reply[c].status \in Statuses
        BY <2>1, <2>3, SubmissionFields, RefusalFields, RefusalType
      <4> QED BY <4>1, OutcomeTypes
    <3>2. Settle(c, o, None)
      BY <1>5, <2>3 DEF Receive
    <3> HIDE DEF o
    <3> QED BY <1>5, <3>1, <3>2, SettleType
            DEF Receive, TypeOK, Replies, bodyVars, serverVars, bounds
  <2> QED BY <2>2, <2>3
<1>6. ASSUME NEW c \in Call, Backoff(c) PROVE TypeOK'
  <2>1. PICK e \in Envelopes : e = Body(c)
    BY DEF TypeOK, Args, Body
  <2>2. body' \in [Call -> Envelopes] /\ written' \in [Call -> SUBSET Envelopes]
    BY <1>6, <2>1, WriteType DEF Backoff
  <2>3. /\ pc' \in [Call -> {"idle", "sending", "waiting", "backoff", "done"}]
        /\ attempt' \in [Call -> Nat]
        /\ UNCHANGED <<args, seen, outcome, net, reply, ledger, events, faults, edits>>
    BY <1>6 DEF Backoff, TypeOK, serverVars, bounds
  <2> QED BY <2>2, <2>3 DEF TypeOK
<1>7. ASSUME NEW r \in net, Serve(r) PROVE TypeOK'
  <2>1. Answer(r) \in Submissions \cup Refusals
    BY AnswerType
  <2>2. r \in Request
    BY DEF TypeOK
  <2>3. IsFresh(Answer(r)) => Answer(r) \in Submissions
    BY <2>1, RefusalFields DEF IsFresh
  <2>4. ledger' \in [Namespaces -> Submissions \cup {None}]
    BY <1>7, <2>3 DEF Serve, serverVars, TypeOK
  <2>5. events' \subseteq Event
    BY <1>7, <2>2 DEF Serve, serverVars, TypeOK, Event, Request
  <2>6. reply' \in [Call -> Replies]
    BY <1>7, <2>1 DEF Serve, TypeOK, Replies
  <2> QED BY <1>7, <2>4, <2>5, <2>6 DEF Serve, TypeOK, Replies, bodyVars, bounds
<1>8. ASSUME NEW c \in Call, NEW e \in Envelopes, Edit(c, e) PROVE TypeOK'
  <2>1. [args[c] EXCEPT !.envelope = e] \in Args
    <3>1. PICK f \in Envelopes, b \in Bindings : args[c] = [envelope |-> f, binding |-> b]
      BY DEF TypeOK, Args
    <3>2. [args[c] EXCEPT !.envelope = e] = [envelope |-> e, binding |-> b]
      BY <3>1
    <3> QED BY <3>1, <3>2 DEF Args
  <2>3. args' = [args EXCEPT ![c] = [args[c] EXCEPT !.envelope = e]]
    BY <1>8, Zenon DEF Edit
  <2>4. args' \in [Call -> Args]
    BY <2>1, <2>3 DEF TypeOK
  <2>2. edits' \in Nat
    BY <1>8 DEF Edit, TypeOK
  <2> QED BY <1>8, <2>4, <2>2 DEF Edit, TypeOK, serverVars
<1>9. CASE UNCHANGED vars
  BY <1>9 DEF vars, TypeOK, bodyVars, serverVars, bounds
<1> QED BY <1>1, <1>2, <1>3, <1>4, <1>5, <1>6, <1>7, <1>8, <1>9 DEF Next, Step, Finished

(* Every variable of Submission keeps its type, for every set of calls,    *)
(* envelopes and faults.                                                   *)
THEOREM TypeCorrect == Spec => []TypeOK
BY TypeInit, TypeStep, PTL DEF Spec
-----------------------------------------------------------------------------
(* The result a call gets when an attempt ends in o.                       *)
LEMMA SettleOutcome ==
    ASSUME TypeOK, NEW c \in Call, NEW o, NEW r, Settle(c, o, r)
    PROVE  /\ reply'[c] = None
           /\ \A d \in Call \ {c} : /\ reply'[d] = reply[d]
                                    /\ outcome'[d] = outcome[d]
                                    /\ pc'[d] = pc[d]
           /\ \/ pc'[c] = "backoff" /\ outcome'[c] = outcome[c]
              \/ /\ pc'[c] = "done"
                 /\ \/ outcome'[c] = Typed(ExhaustedStatus(SdkOf[c], o), TRUE)
                    \/ outcome'[c] = Typed(o.status, FALSE)
                    \/ outcome'[c] = Raw
                    \/ outcome'[c] = Empty
                    \/ outcome'[c] = r
<1> DEFINE Result == \/ outcome'[c] = Typed(ExhaustedStatus(SdkOf[c], o), TRUE)
                     \/ outcome'[c] = Typed(o.status, FALSE)
                     \/ outcome'[c] = Raw
                     \/ outcome'[c] = Empty
                     \/ outcome'[c] = r
<1>1. ASSUME NEW v, outcome' = [outcome EXCEPT ![c] = v], pc' = [pc EXCEPT ![c] = "done"]
      PROVE  /\ outcome'[c] = v /\ pc'[c] = "done"
             /\ \A d \in Call \ {c} : outcome'[d] = outcome[d] /\ pc'[d] = pc[d]
  BY <1>1 DEF TypeOK
<1>2. /\ \A d \in Call \ {c} : outcome'[d] = outcome[d] /\ pc'[d] = pc[d]
      /\ \/ pc'[c] = "backoff" /\ outcome'[c] = outcome[c]
         \/ pc'[c] = "done" /\ Result
  <2>1. CASE Returns(SdkOf[c], o)
    <3>1. /\ outcome' = [outcome EXCEPT ![c] = Decoded(c, o, r)]
          /\ pc' = [pc EXCEPT ![c] = "done"]
      BY <2>1, Zenon DEF Settle
    <3>2. \/ Decoded(c, o, r) = Raw
          \/ Decoded(c, o, r) = Empty
          \/ Decoded(c, o, r) = r
      BY <2>1 DEF Returns, Decoded
    <3> QED BY <1>1, <3>1, <3>2
  <2>2. CASE ~Returns(SdkOf[c], o) /\ Retries(SdkOf[c], o) /\ attempt[c] + 1 = Limit(c)
    <3>1. /\ outcome' = [outcome EXCEPT ![c] = Typed(ExhaustedStatus(SdkOf[c], o), TRUE)]
          /\ pc' = [pc EXCEPT ![c] = "done"]
      BY <2>2, Zenon DEF Settle
    <3> QED BY <1>1, <3>1, Zenon
  <2>3. CASE ~Returns(SdkOf[c], o) /\ Retries(SdkOf[c], o) /\ attempt[c] + 1 # Limit(c)
    <3>1. outcome' = outcome /\ pc' = [pc EXCEPT ![c] = "backoff"]
      BY <2>3, Zenon DEF Settle
    <3> HIDE DEF Result
    <3> QED BY <3>1 DEF TypeOK
  <2>4. CASE ~Returns(SdkOf[c], o) /\ ~Retries(SdkOf[c], o)
    <3>1. CASE RaisesTyped(SdkOf[c], o)
      <4>1. /\ outcome' = [outcome EXCEPT ![c] = Typed(o.status, FALSE)]
            /\ pc' = [pc EXCEPT ![c] = "done"]
        BY <2>4, <3>1, Zenon DEF Settle
      <4> QED BY <1>1, <4>1, Zenon
    <3>2. CASE ~RaisesTyped(SdkOf[c], o)
      <4>1. /\ outcome' = [outcome EXCEPT ![c] = Raw]
            /\ pc' = [pc EXCEPT ![c] = "done"]
        BY <2>4, <3>2, Zenon DEF Settle
      <4> QED BY <1>1, <4>1, Zenon
    <3> QED BY <3>1, <3>2
  <2> QED BY <2>1, <2>2, <2>3, <2>4
<1>3. reply'[c] = None /\ \A d \in Call \ {c} : reply'[d] = reply[d]
  BY DEF Settle, TypeOK
<1> QED BY <1>2, <1>3, Zenon

LEMMA ExhaustedIsRetryable ==
    ASSUME NEW x, NEW st, x = Typed(st, TRUE)
    PROVE  x.kind = "typed" /\ x.retryable
BY SMT DEF Typed

LEMMA TypedStatus ==
    ASSUME NEW x, NEW st, x = Typed(st, FALSE)
    PROVE  x.kind = "typed" /\ x.status = st
BY SMT DEF Typed

LEMMA ResultKinds ==
    /\ \A st, b : Typed(st, b).kind = "typed"
    /\ \A st : Typed(st, TRUE).retryable /\ ~Typed(st, FALSE).retryable
    /\ \A st, b : Typed(st, b).status = st
    /\ Raw.kind = "raw" /\ Empty.kind = "empty" /\ None.kind = "none"
BY DEF Typed, Raw, Empty, None

(* Attempts that end without the server's own answer leave the results of  *)
(* all calls confirmed and justified.                                      *)
LEMMA FaultKeepsResults ==
    ASSUME IndInv, NEW c \in Call, NEW o \in Faults,
           pc[c] # "done", Settle(c, o, None), UNCHANGED <<args, body, ledger, events>>
    PROVE  RepliesInv' /\ ResultsInv'
<1>1. /\ reply'[c] = None
      /\ \A d \in Call \ {c} : /\ reply'[d] = reply[d]
                               /\ outcome'[d] = outcome[d]
                               /\ pc'[d] = pc[d]
  BY SettleOutcome DEF IndInv
<1>2. \/ pc'[c] = "backoff" /\ outcome'[c] = outcome[c]
      \/ /\ pc'[c] = "done"
         /\ \/ outcome'[c] = Typed(ExhaustedStatus(SdkOf[c], o), TRUE)
            \/ outcome'[c] = Typed(o.status, FALSE)
            \/ outcome'[c] = Raw
            \/ outcome'[c] = Empty
            \/ outcome'[c] = None
  <2>1. TypeOK
    BY DEF IndInv
  <2> HIDE DEF Settle
  <2> QED BY <2>1, SettleOutcome, Zenon
<1>3. RepliesInv'
  <2> SUFFICES ASSUME NEW d \in Call
               PROVE  /\ reply'[d] # None => pc'[d] = "waiting"
                      /\ reply'[d].kind = "submission" => Confirmed(d, reply[d])'
                      /\ reply'[d].kind = "typed" => Rejected(d, body[d])'
    BY DEF RepliesInv
  <2>1. CASE d = c
    BY <1>1, <2>1, ResultKinds
  <2>2. CASE d # c
    BY <1>1, <2>2 DEF IndInv, RepliesInv, Confirmed, Rejected
  <2> QED BY <2>1, <2>2
<1>4. ResultsInv'
  <2> SUFFICES ASSUME NEW d \in Call
               PROVE  /\ outcome'[d].kind = "submission" => Confirmed(d, outcome[d])'
                      /\ HonestPath /\ IsRefusal(d)' => Rejected(d, body[d])'
                      /\ pc'[d] # "done" => outcome'[d] = None
    BY DEF ResultsInv
  <2>1. CASE outcome'[d] = outcome[d] /\ (pc'[d] # "done" => pc[d] # "done")
    BY <2>1 DEF IndInv, ResultsInv, Confirmed, Rejected, IsRefusal
  <2>2. CASE pc'[d] = "done" /\ (\/ outcome'[d] = Raw \/ outcome'[d] = Empty \/ outcome'[d] = None)
    BY <2>2, ResultKinds DEF IsRefusal
  <2>3. CASE pc'[d] = "done" /\ outcome'[d] = Typed(ExhaustedStatus(SdkOf[c], o), TRUE)
    <3>1. outcome'[d].kind = "typed" /\ outcome'[d].retryable
      BY <2>3, ExhaustedIsRetryable, Zenon
    <3> QED BY <2>3, <3>1 DEF IsRefusal
  <2>4. CASE pc'[d] = "done" /\ outcome'[d] = Typed(o.status, FALSE)
    <3>1. outcome'[d].kind = "typed" /\ outcome'[d].status = o.status
      BY <2>4, TypedStatus, Zenon
    <3> QED BY <2>4, <3>1 DEF IsRefusal, HonestPath
  <2>5. CASE d = c
    BY <1>2, <2>1, <2>2, <2>3, <2>4, <2>5
  <2>6. CASE d # c
    BY <1>1, <2>1, <2>6
  <2> QED BY <2>5, <2>6
<1> QED BY <1>3, <1>4
-----------------------------------------------------------------------------
LEMMA IndInit == Init => IndInv
<1> SUFFICES ASSUME Init PROVE IndInv
  OBVIOUS
<1>1. TypeOK
  BY TypeInit
<1>2. BodiesInv /\ RequestsInv /\ EventsInv /\ LedgerInv
  BY DEF Init, BodiesInv, RequestsInv, EventsInv, LedgerInv
<1>3. RepliesInv /\ ResultsInv
  BY ResultKinds DEF Init, RepliesInv, ResultsInv, IsRefusal
<1> QED BY <1>1, <1>2, <1>3 DEF IndInv

(* A step that ends an attempt leaves bodies, requests and ledger alone.    *)
LEMMA SettleKeeps ==
    ASSUME IndInv, NEW c \in Call, NEW o, NEW r, pc[c] \in {"sending", "waiting"},
           Settle(c, o, r), UNCHANGED <<args, body, written, attempt, net, ledger, events>>
    PROVE  BodiesInv' /\ RequestsInv' /\ EventsInv' /\ LedgerInv'
<1>1. /\ pc'[c] \in {"backoff", "done"}
      /\ \A d \in Call \ {c} : pc'[d] = pc[d]
  <2>1. TypeOK
    BY DEF IndInv
  <2> HIDE DEF Settle
  <2> QED BY <2>1, SettleOutcome, Zenon
<1>2. BodiesInv'
  BY <1>1 DEF IndInv, BodiesInv
<1>3. RequestsInv'
  BY <1>1 DEF IndInv, RequestsInv, TypeOK, Request
<1>4. EventsInv' /\ LedgerInv'
  BY DEF IndInv, EventsInv, LedgerInv, Rejected
<1> QED BY <1>2, <1>3, <1>4

(* A fault, or the failure to connect, leaves the rest of the system alone. *)
LEMMA FaultStep ==
    ASSUME IndInv, TypeOK', NEW c \in Call, NEW o \in Faults,
           pc[c] \in {"sending", "waiting"}, Settle(c, o, None),
           UNCHANGED <<args, body, written, attempt, net, ledger, events>>
    PROVE  IndInv'
<1>1. RepliesInv' /\ ResultsInv'
  BY FaultKeepsResults
<1>2. BodiesInv' /\ RequestsInv' /\ EventsInv' /\ LedgerInv'
  BY SettleKeeps
<1> QED BY <1>1, <1>2 DEF IndInv

(* A body that one call writes while it has neither answer nor result, and *)
(* is about to send, leaves the rest true: nothing of the call that is     *)
(* still on its way is of the attempt to come.                             *)
LEMMA WriteKeeps ==
    ASSUME IndInv, TypeOK', NEW c \in Call, NEW e \in Envelopes,
           pc[c] \in {"idle", "backoff"}, pc' = [pc EXCEPT ![c] = "sending"],
           pc[c] = "backoff" => attempt'[c] > attempt[c],
           SdkOf[c] = Python => pc[c] = "idle" \/ e = body[c],
           \A d \in Call \ {c} : attempt'[d] = attempt[d],
           Write(c, e), UNCHANGED <<args, outcome, net, reply, ledger, events>>
    PROVE  IndInv'
<1>1. /\ pc'[c] = "sending" /\ body'[c] = e /\ written'[c] = written[c] \cup {e}
      /\ \A d \in Call \ {c} : /\ pc'[d] = pc[d] /\ body'[d] = body[d]
                               /\ written'[d] = written[d]
  BY DEF Write, IndInv, TypeOK
<1>2. BodiesInv'
  BY <1>1 DEF IndInv, BodiesInv
<1>3. RequestsInv'
  <2> SUFFICES ASSUME NEW r \in net
               PROVE  /\ pc'[r.call] # "idle"
                      /\ r.envelope \in written'[r.call]
                      /\ r.attempt <= attempt'[r.call]
                      /\ r.attempt = attempt'[r.call] => r.envelope = body'[r.call]
                      /\ r.mediaType = MediaType(SdkOf[r.call], args'[r.call].binding)
    BY DEF RequestsInv
  <2>1. /\ r.call \in Call /\ r.attempt \in Nat
        /\ attempt[r.call] \in Nat /\ attempt'[r.call] \in Nat
    BY DEF IndInv, TypeOK, Request
  <2>2. /\ pc[r.call] # "idle"
        /\ r.envelope \in written[r.call]
        /\ r.attempt <= attempt[r.call]
        /\ r.attempt = attempt[r.call] => r.envelope = body[r.call]
        /\ r.mediaType = MediaType(SdkOf[r.call], args[r.call].binding)
    BY DEF IndInv, RequestsInv
  <2>3. CASE r.call = c
    <3>1. attempt'[c] > attempt[c]
      BY <2>2, <2>3
    <3> QED BY <1>1, <2>1, <2>2, <2>3, <3>1
  <2>4. CASE r.call # c
    BY <1>1, <2>1, <2>2, <2>4
  <2> QED BY <2>3, <2>4
<1>4. EventsInv' /\ LedgerInv'
  <2>1. \A x \in events : x.call \in Call /\ x.envelope \in written'[x.call]
    BY <1>1 DEF IndInv, EventsInv, TypeOK, Event
  <2> QED BY <2>1 DEF IndInv, EventsInv, LedgerInv, Rejected
<1>5. reply[c] = None /\ outcome[c] = None
  BY DEF IndInv, RepliesInv, ResultsInv
<1>6. RepliesInv'
  BY <1>1, <1>5, ResultKinds DEF IndInv, RepliesInv, Confirmed, Rejected
<1>7. ResultsInv'
  BY <1>1, <1>5, ResultKinds DEF IndInv, ResultsInv, Confirmed, Rejected, IsRefusal
<1> QED BY <1>2, <1>3, <1>4, <1>6, <1>7 DEF IndInv

LEMMA SubmitStep ==
    ASSUME IndInv, TypeOK', NEW c \in Call, Submit(c) PROVE IndInv'
<1>1. /\ pc[c] = "idle"
      /\ UNCHANGED <<args, attempt, net, reply, ledger, events>>
  BY DEF Submit, serverVars
<1>2. CASE Limit(c) > 0
  <2>1. pc' = [pc EXCEPT ![c] = "sending"] /\ Write(c, args[c].envelope) /\ UNCHANGED outcome
    BY <1>2 DEF Submit
  <2>2. PICK e \in Envelopes : e = args[c].envelope
    BY DEF IndInv, TypeOK, Args
  <2>3. Write(c, e)
    BY <2>1, <2>2
  <2>4. \A d \in Call \ {c} : attempt'[d] = attempt[d]
    BY <1>1
  <2> QED BY <1>1, <2>1, <2>3, <2>4, WriteKeeps
<1>3. CASE ~(Limit(c) > 0)
  <2>1. /\ pc' = [pc EXCEPT ![c] = "done"] /\ outcome' = [outcome EXCEPT ![c] = Raw]
        /\ UNCHANGED <<body, written>>
    BY <1>3 DEF Submit
  <2>2. /\ \A d \in Call \ {c} : outcome'[d] = outcome[d] /\ pc'[d] = pc[d]
        /\ outcome'[c] = Raw /\ pc'[c] = "done"
    BY <2>1 DEF IndInv, TypeOK
  <2>3. BodiesInv'
    BY <1>1, <2>1, <2>2 DEF IndInv, BodiesInv
  <2>4. RequestsInv'
    BY <1>1, <2>1, <2>2 DEF IndInv, RequestsInv, TypeOK, Request
  <2>5. EventsInv' /\ LedgerInv'
    BY <1>1, <2>1 DEF IndInv, EventsInv, LedgerInv, Rejected
  <2>6. RepliesInv'
    BY <1>1, <2>1, <2>2 DEF IndInv, RepliesInv, Rejected, Confirmed
  <2>7. ResultsInv'
    BY <1>1, <2>1, <2>2, ResultKinds DEF IndInv, ResultsInv, Rejected, Confirmed, IsRefusal
  <2> QED BY <2>3, <2>4, <2>5, <2>6, <2>7 DEF IndInv
<1> QED BY <1>2, <1>3

LEMMA PostStep ==
    ASSUME IndInv, TypeOK', NEW c \in Call, Post(c) PROVE IndInv'
<1>1. /\ pc[c] = "sending"
      /\ UNCHANGED <<args, body, written, attempt, outcome, reply, ledger, events>>
  BY DEF Post, bodyVars, serverVars
<1>2. pc'[c] = "waiting" /\ \A d \in Call \ {c} : pc'[d] = pc[d]
  BY DEF Post, IndInv, TypeOK
<1>3. body[c] \in written[c] /\ attempt[c] \in Nat
  BY <1>1 DEF IndInv, BodiesInv, TypeOK
<1>4. BodiesInv'
  BY <1>1, <1>2 DEF IndInv, BodiesInv
<1>5. RequestsInv'
  <2> DEFINE new == [call |-> c, attempt |-> attempt[c], envelope |-> body[c],
                     mediaType |-> MediaType(SdkOf[c], args[c].binding)]
  <2> SUFFICES ASSUME NEW r \in net'
               PROVE  /\ pc'[r.call] # "idle"
                      /\ r.envelope \in written'[r.call]
                      /\ r.attempt <= attempt'[r.call]
                      /\ r.attempt = attempt'[r.call] => r.envelope = body'[r.call]
                      /\ r.mediaType = MediaType(SdkOf[r.call], args'[r.call].binding)
    BY DEF RequestsInv
  <2>1. net' = net \cup {new}
    BY DEF Post
  <2>2. CASE r \in net
    BY <1>1, <1>2, <2>2 DEF IndInv, RequestsInv, TypeOK, Request
  <2>3. CASE r = new
    BY <1>1, <1>2, <1>3, <2>3
  <2> QED BY <2>1, <2>2, <2>3
<1>6. EventsInv' /\ LedgerInv'
  BY <1>1 DEF IndInv, EventsInv, LedgerInv, Rejected
<1>7. RepliesInv'
  BY <1>1, <1>2 DEF IndInv, RepliesInv, Rejected, Confirmed
<1>8. ResultsInv'
  BY <1>1, <1>2 DEF IndInv, ResultsInv, Rejected, Confirmed, IsRefusal
<1> QED BY <1>4, <1>5, <1>6, <1>7, <1>8 DEF IndInv

LEMMA BackoffStep ==
    ASSUME IndInv, TypeOK', NEW c \in Call, Backoff(c) PROVE IndInv'
<1>1. /\ pc[c] = "backoff" /\ pc' = [pc EXCEPT ![c] = "sending"] /\ Write(c, Body(c))
      /\ UNCHANGED <<args, outcome, net, reply, ledger, events>>
  BY DEF Backoff, serverVars
<1>2. attempt'[c] > attempt[c] /\ \A d \in Call \ {c} : attempt'[d] = attempt[d]
  BY DEF Backoff, IndInv, TypeOK
<1>3. PICK e \in Envelopes : e = Body(c)
  BY DEF Body, IndInv, TypeOK, Args
<1>4. SdkOf[c] = Python => e = body[c]
  BY <1>3 DEF Body
<1>5. Write(c, e)
  BY <1>1, <1>3
<1> QED BY <1>1, <1>2, <1>4, <1>5, WriteKeeps

(* What the caller edits is nothing that was written.                      *)
LEMMA EditStep ==
    ASSUME IndInv, TypeOK', NEW c \in Call, NEW e, Edit(c, e) PROVE IndInv'
<1>1. UNCHANGED <<pc, body, written, attempt, outcome, net, reply, ledger, events>>
  BY DEF Edit, serverVars
<1>2. \A d \in Call : args'[d].binding = args[d].binding
  BY DEF Edit, IndInv, TypeOK, Args
<1>3. \A d \in Call : \A f : Rejected(d, f)' <=> Rejected(d, f)
  BY <1>1, <1>2 DEF Rejected
<1>4. BodiesInv' /\ LedgerInv'
  BY <1>1 DEF IndInv, BodiesInv, LedgerInv
<1>5. RequestsInv'
  BY <1>1, <1>2 DEF IndInv, RequestsInv, TypeOK, Request
<1>6. EventsInv'
  BY <1>1, <1>3 DEF IndInv, EventsInv, TypeOK, Event
<1>7. RepliesInv' /\ ResultsInv'
  BY <1>1, <1>3 DEF IndInv, RepliesInv, ResultsInv, Confirmed, IsRefusal
<1> QED BY <1>4, <1>5, <1>6, <1>7 DEF IndInv

(* The server's answer becomes the result: what held of the reply holds of *)
(* the result.                                                             *)
LEMMA ReceiveStep ==
    ASSUME IndInv, TypeOK', NEW c \in Call, Receive(c) PROVE IndInv'
<1>1. /\ pc[c] = "waiting" /\ reply[c] # None
      /\ UNCHANGED <<args, body, written, attempt, net, ledger, events>>
  BY DEF Receive, bodyVars, serverVars
<1>2. TypeOK
  BY DEF IndInv
<1>4. PICK o, r : /\ Settle(c, o, r)
                  /\ \/ reply[c].kind = "submission" /\ o = Accepted /\ r = reply[c]
                     \/ /\ reply[c].kind # "submission" /\ r = None
                        /\ o = [status |-> reply[c].status, body |-> "object"]
  BY Zenon DEF Receive
<1>3. BodiesInv' /\ RequestsInv' /\ EventsInv' /\ LedgerInv'
  <2>1. Settle(c, o, r)
    BY <1>4
  <2> HIDE DEF Settle
  <2> QED BY <1>1, <2>1, SettleKeeps
<1>5. /\ reply'[c] = None
      /\ \A d \in Call \ {c} : /\ reply'[d] = reply[d]
                               /\ outcome'[d] = outcome[d]
                               /\ pc'[d] = pc[d]
  BY <1>2, <1>4, SettleOutcome, Zenon
<1>6. \/ pc'[c] = "backoff" /\ outcome'[c] = outcome[c]
      \/ /\ pc'[c] = "done"
         /\ \/ outcome'[c] = Typed(ExhaustedStatus(SdkOf[c], o), TRUE)
            \/ outcome'[c] = Typed(o.status, FALSE)
            \/ outcome'[c] = Raw
            \/ outcome'[c] = Empty
            \/ outcome'[c] = r
  BY <1>2, <1>4, SettleOutcome, Zenon
<1>7. RepliesInv'
  <2> SUFFICES ASSUME NEW d \in Call
               PROVE  /\ reply'[d] # None => pc'[d] = "waiting"
                      /\ reply'[d].kind = "submission" => Confirmed(d, reply[d])'
                      /\ reply'[d].kind = "typed" => Rejected(d, body[d])'
    BY DEF RepliesInv
  <2>1. CASE d = c
    BY <1>5, <2>1, ResultKinds
  <2>2. CASE d # c
    BY <1>1, <1>5, <2>2 DEF IndInv, RepliesInv, Confirmed, Rejected
  <2> QED BY <2>1, <2>2
<1>8. ResultsInv'
  <2> SUFFICES ASSUME NEW d \in Call
               PROVE  /\ outcome'[d].kind = "submission" => Confirmed(d, outcome[d])'
                      /\ HonestPath /\ IsRefusal(d)' => Rejected(d, body[d])'
                      /\ pc'[d] # "done" => outcome'[d] = None
    BY DEF ResultsInv
  <2>1. CASE outcome'[d] = outcome[d] /\ (pc'[d] # "done" => pc[d] # "done")
    BY <1>1, <2>1 DEF IndInv, ResultsInv, Confirmed, Rejected, IsRefusal
  <2>2. CASE d = c /\ pc'[d] = "done" /\ (\/ outcome'[d] = Raw
                                          \/ outcome'[d] = Empty
                                          \/ outcome'[d] = None)
    BY <2>2, ResultKinds DEF IsRefusal
  <2>3. CASE d = c /\ pc'[d] = "done" /\ outcome'[d] = Typed(ExhaustedStatus(SdkOf[c], o), TRUE)
    <3>1. outcome'[d].kind = "typed" /\ outcome'[d].retryable
      BY <2>3, ExhaustedIsRetryable, Zenon
    <3> QED BY <2>3, <3>1 DEF IsRefusal
  <2>4. CASE d = c /\ pc'[d] = "done" /\ outcome'[d] = Typed(o.status, FALSE)
    <3>1. outcome'[d].kind = "typed" /\ outcome'[d].status = o.status
      BY <2>4, TypedStatus, Zenon
    <3>2. CASE reply[c].kind = "submission"
      <4>1. o.status = 200
        BY <1>4, <3>2 DEF Accepted
      <4>2. ~IsRefusal(d)'
        BY <3>1, <4>1 DEF IsRefusal, RefusalStatuses
      <4> QED BY <2>4, <3>1, <4>2
    <3>3. CASE reply[c].kind # "submission"
      <4>1. reply[c].kind = "typed"
        BY <1>1, <3>3, SubmissionFields, RefusalFields DEF IndInv, TypeOK
      <4>2. Rejected(c, body[c])
        BY <4>1 DEF IndInv, RepliesInv
      <4> QED BY <1>1, <2>4, <3>1, <4>2 DEF Rejected
    <3> QED BY <3>2, <3>3
  <2>5. CASE d = c /\ pc'[d] = "done" /\ outcome'[d] = r /\ reply[c].kind = "submission"
    <3>1. outcome'[d] = reply[c]
      BY <1>4, <2>5
    <3>2. Confirmed(c, reply[c])
      BY <2>5 DEF IndInv, RepliesInv
    <3> QED BY <1>1, <2>5, <3>1, <3>2 DEF Confirmed, IsRefusal
  <2>6. CASE d = c
    <3>1. outcome'[d] = r => reply[c].kind = "submission" \/ outcome'[d] = None
      BY <1>4
    <3> QED BY <1>1, <1>6, <2>1, <2>2, <2>3, <2>4, <2>5, <2>6, <3>1
  <2>7. CASE d # c
    BY <1>5, <2>1, <2>7
  <2> QED BY <2>6, <2>7
<1> QED BY <1>3, <1>7, <1>8 DEF IndInv

(* What the server's answer says of the request's call.                    *)
LEMMA AnswerMeaning ==
    ASSUME IndInv, NEW r \in net
    PROVE  /\ IsFresh(Answer(r)) =>
                /\ Answer(r) = Submitted(r.envelope, FALSE)
                /\ ledger[Namespace(r.envelope)] = None
                /\ ~Rejected(r.call, r.envelope)
           /\ Answer(r).kind = "submission" /\ ~IsFresh(Answer(r)) =>
                /\ Answer(r).envelope = r.envelope
                /\ Answer(r).duplicate
                /\ \E x \in events : x.envelope = r.envelope
           /\ Answer(r).kind = "typed" => Rejected(r.call, r.envelope)
<1> DEFINE entry == ledger[Namespace(r.envelope)]
<1>1. /\ r.call \in Call /\ r.envelope \in Envelopes
      /\ r.mediaType = MediaType(SdkOf[r.call], args[r.call].binding)
  BY DEF IndInv, RequestsInv, TypeOK, Request
<1>2. CASE r.mediaType \notin Understood
  <2>1. Answer(r) = Typed(400, FALSE)
    BY <1>2, ZenonT(30) DEF Answer
  <2>2. Answer(r).kind = "typed"
    BY <2>1, SMT DEF Typed
  <2> QED BY <1>1, <1>2, <2>2 DEF Rejected, IsFresh
<1>3. CASE r.mediaType \in Understood /\ r.envelope \notin Acceptable
  <2>1. Answer(r) = Typed(422, FALSE)
    BY <1>3, ZenonT(30) DEF Answer
  <2>2. Answer(r).kind = "typed"
    BY <2>1, SMT DEF Typed
  <2> QED BY <1>1, <1>3, <2>2 DEF Rejected, IsFresh
<1>4. CASE r.mediaType \in Understood /\ r.envelope \in Acceptable /\ entry = None
  <2>1. Answer(r) = Submitted(r.envelope, FALSE)
    BY <1>4, ZenonT(30) DEF Answer
  <2>2. IsFresh(Answer(r)) /\ Answer(r).kind = "submission"
    BY <2>1 DEF IsFresh, Submitted
  <2>3. ~Rejected(r.call, r.envelope)
    BY <1>1, <1>4 DEF Rejected
  <2> QED BY <1>4, <2>1, <2>2, <2>3
<1>5. CASE /\ r.mediaType \in Understood /\ r.envelope \in Acceptable
           /\ entry # None /\ entry.envelope = r.envelope
  <2>1. Answer(r) = Submitted(r.envelope, TRUE)
    BY <1>5, ZenonT(30) DEF Answer
  <2>2. /\ Answer(r).kind = "submission" /\ Answer(r).duplicate
        /\ Answer(r).envelope = r.envelope
    BY <2>1 DEF Submitted
  <2>3. \E x \in events : x.envelope = r.envelope
    BY <1>1, <1>5 DEF IndInv, LedgerInv, Namespaces
  <2> QED BY <2>2, <2>3 DEF IsFresh
<1>6. CASE /\ r.mediaType \in Understood /\ r.envelope \in Acceptable
           /\ entry # None /\ entry.envelope # r.envelope
  <2>1. Answer(r) = Typed(409, FALSE)
    BY <1>6, ZenonT(30) DEF Answer
  <2>2. Answer(r).kind = "typed"
    BY <2>1, SMT DEF Typed
  <2>3. Rejected(r.call, r.envelope)
    BY <1>1, <1>6 DEF Rejected
  <2> QED BY <2>2, <2>3 DEF IsFresh
<1> QED BY <1>2, <1>3, <1>4, <1>5, <1>6

(* What a request is, and what a step of the server leaves alone.          *)
LEMMA ServeFrame ==
    ASSUME IndInv, NEW r \in net, Serve(r)
    PROVE  /\ r.call \in Call /\ r.envelope \in Envelopes
           /\ Namespace(r.envelope) \in Namespaces
           /\ r.envelope \in written[r.call]
           /\ UNCHANGED <<pc, args, body, written, attempt, outcome>>
           /\ net' \subseteq net
           /\ events \subseteq events'
           /\ \A c \in Call :
                \/ reply'[c] = reply[c]
                \/ /\ c = r.call /\ reply'[c] = Answer(r)
                   /\ pc[c] = "waiting" /\ r.envelope = body[c]
<1>1. /\ r.call \in Call /\ r.envelope \in Envelopes
      /\ Namespace(r.envelope) \in Namespaces
      /\ r.envelope \in written[r.call]
      /\ r.attempt = attempt[r.call] => r.envelope = body[r.call]
  BY DEF IndInv, RequestsInv, TypeOK, Request, Namespaces
<1>2. /\ UNCHANGED <<pc, args, body, written, attempt, outcome>>
      /\ net' \subseteq net
      /\ events \subseteq events'
  BY DEF Serve, serverVars, bodyVars
<1> DEFINE a == Answer(r)
<1>3. reply' = IF pc[r.call] = "waiting" /\ attempt[r.call] = r.attempt
               THEN [reply EXCEPT ![r.call] = a] ELSE reply
  BY DEF Serve
<1> HIDE DEF a
<1>4. \A c \in Call :
         \/ reply'[c] = reply[c]
         \/ /\ c = r.call /\ reply'[c] = a
            /\ pc[c] = "waiting" /\ r.envelope = body[c]
  BY <1>1, <1>3 DEF IndInv, TypeOK
<1> QED BY <1>1, <1>2, <1>4 DEF a

LEMMA ServeStep ==
    ASSUME IndInv, TypeOK', NEW r \in net, Serve(r) PROVE IndInv'
<1> DEFINE a == Answer(r)
           k == Namespace(r.envelope)
           new == [envelope |-> r.envelope, call |-> r.call, attempt |-> r.attempt]
<1>1. /\ r.call \in Call /\ r.envelope \in Envelopes /\ k \in Namespaces
      /\ r.envelope \in written[r.call]
  BY ServeFrame
<1>2. /\ UNCHANGED <<pc, args, body, written, attempt, outcome>>
      /\ net' \subseteq net
      /\ events \subseteq events'
  BY ServeFrame
<1>3. \A c \in Call :
         \/ reply'[c] = reply[c]
         \/ /\ c = r.call /\ reply'[c] = a
            /\ pc[c] = "waiting" /\ r.envelope = body[c]
  BY ServeFrame
<1>4. BodiesInv' /\ RequestsInv'
  BY <1>2 DEF IndInv, BodiesInv, RequestsInv
<1>5. CASE IsFresh(a)
  <2>1. /\ a = Submitted(r.envelope, FALSE) /\ ledger[k] = None
        /\ ~Rejected(r.call, r.envelope)
        /\ a.kind = "submission" /\ a.envelope = r.envelope /\ ~a.duplicate /\ a # None
    BY <1>5, AnswerMeaning DEF IsFresh, Submitted, None
  <2>2. /\ ledger' = [ledger EXCEPT ![k] = a]
        /\ events' = events \cup {new}
    BY <1>5 DEF Serve
  <2>3. /\ ledger'[k] = a
        /\ \A j \in Namespaces \ {k} : ledger'[j] = ledger[j]
    BY <1>1, <2>2 DEF IndInv, TypeOK
  <2>4. \A x \in events : Namespace(x.envelope) # k
    BY <2>1 DEF IndInv, EventsInv
  <2>5. new.envelope = r.envelope /\ new.call = r.call
    OBVIOUS
  <2> HIDE DEF a, k, new
  <2>6. \A c \in Call : \A e \in Envelopes : Rejected(c, e) => Rejected(c, e)'
    <3> SUFFICES ASSUME NEW c \in Call, NEW e \in Envelopes, Rejected(c, e)
                 PROVE  Rejected(c, e)'
      OBVIOUS
    <3>1. Namespace(e) \in Namespaces
      BY DEF Namespaces
    <3> QED BY <1>2, <2>1, <2>3, <3>1 DEF Rejected
  <2>7. \A c \in Call : \A e \in Envelopes :
            Namespace(e) # k /\ ~Rejected(c, e) => ~Rejected(c, e)'
    <3> SUFFICES ASSUME NEW c \in Call, NEW e \in Envelopes,
                        Namespace(e) # k, ~Rejected(c, e)
                 PROVE  ~Rejected(c, e)'
      OBVIOUS
    <3>1. Namespace(e) \in Namespaces
      BY DEF Namespaces
    <3> QED BY <1>2, <2>3, <3>1 DEF Rejected
  <2>8. EventsInv'
    <3> SUFFICES ASSUME NEW x \in events'
                 PROVE  /\ x.envelope \in written'[x.call]
                        /\ ledger'[Namespace(x.envelope)] # None
                        /\ ~Rejected(x.call, x.envelope)'
      BY DEF EventsInv
    <3>1. CASE x \in events
      <4>1. /\ x.call \in Call /\ x.envelope \in Envelopes
            /\ x.envelope \in written[x.call]
            /\ ledger[Namespace(x.envelope)] # None /\ ~Rejected(x.call, x.envelope)
        BY <3>1 DEF IndInv, EventsInv, TypeOK, Event
      <4>2. Namespace(x.envelope) \in Namespaces \ {k}
        BY <2>4, <3>1, <4>1 DEF Namespaces
      <4> QED BY <1>2, <2>3, <2>7, <4>1, <4>2
    <3>2. CASE x = new
      <4>1. ~Rejected(r.call, r.envelope)'
        BY <1>1, <1>2, <2>1, <2>3 DEF Rejected, k
      <4> QED BY <1>1, <1>2, <2>1, <2>3, <2>5, <3>2, <4>1 DEF k
    <3> QED BY <2>2, <3>1, <3>2
  <2>9. \A x, y \in events' : Namespace(x.envelope) = Namespace(y.envelope) => x = y
    BY <2>2, <2>4, <2>5 DEF IndInv, LedgerInv, k
  <2>10. LedgerInv'
    <3> SUFFICES ASSUME NEW j \in Namespaces, ledger'[j] # None
                 PROVE  \E x \in events' : /\ Namespace(x.envelope) = j
                                           /\ x.envelope = ledger'[j].envelope
      BY <2>9 DEF LedgerInv
    <3>1. CASE j = k
      BY <2>1, <2>2, <2>3, <2>5, <3>1 DEF k
    <3>2. CASE j # k
      BY <1>2, <2>3, <3>2 DEF IndInv, LedgerInv
    <3> QED BY <3>1, <3>2
  <2>11. \A c \in Call : \A s : Confirmed(c, s) => /\ s.envelope = body'[c]
                                                   /\ \E x \in events' :
                                                        /\ x.envelope = body'[c]
                                                        /\ ~s.duplicate => x.call = c
    BY <1>2 DEF Confirmed
  <2>12. RepliesInv'
    <3> SUFFICES ASSUME NEW c \in Call
                 PROVE  /\ reply'[c] # None => pc'[c] = "waiting"
                        /\ reply'[c].kind = "submission" => Confirmed(c, reply[c])'
                        /\ reply'[c].kind = "typed" => Rejected(c, body[c])'
      BY DEF RepliesInv
    <3>1. CASE reply'[c] = reply[c]
      <4>1. /\ reply[c] # None => pc[c] = "waiting"
            /\ reply[c].kind = "submission" => Confirmed(c, reply[c])
            /\ reply[c].kind = "typed" => Rejected(c, body[c])
            /\ body[c] \in Envelopes
        BY DEF IndInv, RepliesInv, TypeOK
      <4>2. reply'[c].kind = "typed" => Rejected(c, body[c])'
        <5>1. Rejected(c, body[c]) => Rejected(c, body[c])'
          BY <1>2, <2>6, <4>1 DEF Rejected
        <5> QED BY <3>1, <4>1, <5>1
      <4> QED BY <1>2, <2>11, <3>1, <4>1, <4>2 DEF Confirmed
    <3>2. CASE /\ c = r.call /\ reply'[c] = a
               /\ pc[c] = "waiting" /\ r.envelope = body[c]
      BY <1>1, <1>2, <2>1, <2>2, <2>5, <3>2 DEF Confirmed
    <3> QED BY <1>3, <3>1, <3>2
  <2>13. ResultsInv'
    <3> SUFFICES ASSUME NEW c \in Call
                 PROVE  /\ outcome'[c].kind = "submission" => Confirmed(c, outcome[c])'
                        /\ HonestPath /\ IsRefusal(c)' => Rejected(c, body[c])'
                        /\ pc'[c] # "done" => outcome'[c] = None
      BY DEF ResultsInv
    <3>1. /\ outcome[c].kind = "submission" => Confirmed(c, outcome[c])
          /\ HonestPath /\ IsRefusal(c) => Rejected(c, body[c])
          /\ pc[c] # "done" => outcome[c] = None
          /\ body[c] \in Envelopes
      BY DEF IndInv, ResultsInv, TypeOK
    <3>2. Rejected(c, body[c]) => Rejected(c, body[c])'
      BY <1>2, <2>6, <3>1 DEF Rejected
    <3> QED BY <1>2, <2>11, <3>1, <3>2 DEF Confirmed, IsRefusal
  <2> QED BY <1>4, <2>8, <2>10, <2>12, <2>13 DEF IndInv
<1>6. CASE ~IsFresh(a)
  <2>1. UNCHANGED <<ledger, events>>
    BY <1>6 DEF Serve, serverVars
  <2>2. EventsInv' /\ LedgerInv' /\ ResultsInv'
    BY <1>2, <2>1 DEF IndInv, EventsInv, LedgerInv,
                      ResultsInv, Rejected, Confirmed, IsRefusal
  <2>3. RepliesInv'
    <3> SUFFICES ASSUME NEW c \in Call
                 PROVE  /\ reply'[c] # None => pc'[c] = "waiting"
                        /\ reply'[c].kind = "submission" => Confirmed(c, reply[c])'
                        /\ reply'[c].kind = "typed" => Rejected(c, body[c])'
      BY DEF RepliesInv
    <3> HIDE DEF a
    <3>1. CASE reply'[c] = reply[c]
      BY <1>2, <2>1, <3>1 DEF IndInv, RepliesInv, Confirmed, Rejected
    <3>2. CASE /\ c = r.call /\ reply'[c] = a
               /\ pc[c] = "waiting" /\ r.envelope = body[c]
      <4>1. a.kind = "submission" => /\ a.envelope = r.envelope /\ a.duplicate
                                     /\ \E x \in events : x.envelope = r.envelope
        BY <1>6, AnswerMeaning DEF a
      <4>2. a.kind = "typed" => Rejected(r.call, r.envelope)
        BY AnswerMeaning DEF a
      <4> QED BY <1>1, <1>2, <2>1, <3>2, <4>1, <4>2 DEF Confirmed, Rejected
    <3> QED BY <1>3, <3>1, <3>2
  <2> QED BY <1>4, <2>2, <2>3 DEF IndInv
<1> QED BY <1>5, <1>6

LEMMA IndStep == IndInv /\ [Next]_vars => IndInv'
<1> SUFFICES ASSUME IndInv, [Next]_vars PROVE IndInv'
  OBVIOUS
<1>1. TypeOK'
  BY TypeStep DEF IndInv
<1>2. ASSUME NEW c \in Call, Step(c) PROVE IndInv'
  <2>1. CASE Refused(c)
    <3>1. /\ Unreachable \in Faults /\ pc[c] \in {"sending", "waiting"}
          /\ Settle(c, Unreachable, None)
          /\ UNCHANGED <<args, body, written, attempt, net, ledger, events>>
      BY <2>1 DEF Refused, Fault, bodyVars, serverVars
    <3> QED BY <1>1, <3>1, FaultStep
  <2>2. ASSUME NEW o \in Faults, Disturbed(c, o) PROVE IndInv'
    <3>1. /\ pc[c] \in {"sending", "waiting"} /\ Settle(c, o, None)
          /\ UNCHANGED <<args, body, written, attempt, net, ledger, events>>
      BY <2>2 DEF Disturbed, bodyVars, serverVars
    <3> QED BY <1>1, <3>1, FaultStep
  <2> QED BY <1>1, <1>2, <2>1, <2>2, SubmitStep, PostStep, ReceiveStep, BackoffStep,
             EditStep DEF Step
<1>3. ASSUME NEW r \in net, Serve(r) PROVE IndInv'
  BY <1>1, <1>3, ServeStep
<1>4. CASE UNCHANGED vars
  <2>1. UNCHANGED <<pc, args, body, written, attempt, outcome, net, reply, ledger, events>>
    BY <1>4 DEF vars, bodyVars, serverVars
  <2> QED BY <1>1, <2>1 DEF IndInv, BodiesInv, RequestsInv, EventsInv, LedgerInv,
             RepliesInv, ResultsInv, Rejected, Confirmed, IsRefusal
<1> QED BY <1>2, <1>3, <1>4 DEF Next, Finished

(* What was written, on the wire, in the ledger, in the answers and in the *)
(* results always fits together.                                           *)
THEOREM Inductive == Spec => []IndInv
BY IndStep, IndInit, PTL DEF Spec

(* A steady call has written one envelope: that of its current attempt.    *)
LEMMA SteadyBody ==
    ASSUME IndInv, NEW c \in Call, Steady(c), NEW e \in written[c]
    PROVE  e = body[c]
BY DEF IndInv, BodiesInv, Steady, Kept

(* All attempts of one call together record at most one commercial event,  *)
(* unless the TypeScript SDK wrote two bodies for it.                      *)
THEOREM RetriesAreOneAction == Spec => []OneEventPerCall
<1>1. IndInv => OneEventPerCall
  <2> SUFFICES ASSUME IndInv, NEW x \in events, NEW y \in events, x.call = y.call,
                      Steady(x.call)
               PROVE  x = y
    BY DEF OneEventPerCall
  <2>1. x.call \in Call
    BY DEF IndInv, TypeOK, Event
  <2>2. x.envelope \in written[x.call] /\ y.envelope \in written[x.call]
    BY DEF IndInv, EventsInv
  <2>3. x.envelope = y.envelope
    BY <2>1, <2>2, SteadyBody
  <2> QED BY <2>3 DEF IndInv, LedgerInv
<1> QED BY <1>1, Inductive, PTL

(* A Submission that submit returned is about the envelope that the call   *)
(* sent last, recorded by this very call unless it says duplicate.         *)
THEOREM ResultsAreTrue == Spec => []ResultTruthful
<1>1. IndInv => ResultTruthful
  BY DEF IndInv, ResultsInv, ResultTruthful
<1> QED BY <1>1, Inductive, PTL

LEMMA RefusedIsUnrecorded ==
    ASSUME IndInv, NEW c \in Call, HonestPath, IsRefusal(c), Steady(c), NEW x \in events
    PROVE  x.call # c
<1>1. x.envelope \in written[x.call] /\ ~Rejected(x.call, x.envelope)
  BY DEF IndInv, EventsInv
<1>2. Rejected(c, body[c])
  BY DEF IndInv, ResultsInv
<1> QED BY <1>1, <1>2, SteadyBody

(* Unless the path forges refusals, or the TypeScript SDK wrote two bodies *)
(* for it, a call that raised one has recorded nothing, and what it still  *)
(* has on the wire never will.                                             *)
THEOREM RefusalsAreFinal == Spec => []RefusalIsFinal
<1>1. IndInv => RefusalIsFinal
  BY RefusedIsUnrecorded DEF RefusalIsFinal
<1> QED BY <1>1, Inductive, PTL
-----------------------------------------------------------------------------
(* Submission implements IdempotentService.                                *)
askedBar   == [c \in Call |-> {Demand(e) : e \in written[c]}]
bindersBar == {x.call : x \in events}
boundBar   == [k \in Namespaces |->
                  IF ledger[k] = None THEN None ELSE ledger[k].envelope]
verdictBar == [c \in Call |-> Verdict(c)]
fickle     == {c \in Call : SdkOf[c] = TypeScript}

LEMMA RefinesInit == Init => Service!Init
<1> SUFFICES ASSUME Init PROVE Service!Init
  OBVIOUS
<1>1. askedBar = [c \in Call |-> {}]
  BY DEF Init, askedBar
<1>2. bindersBar = {}
  BY DEF Init, bindersBar
<1>3. boundBar = [k \in Namespaces |-> None]
  BY DEF Init, boundBar
<1>4. verdictBar = [c \in Call |-> "pending"]
  BY ResultKinds DEF Init, verdictBar, Verdict
<1> QED BY <1>1, <1>2, <1>3, <1>4
        DEF Service!Init, askedBar, bindersBar, boundBar, verdictBar

(* A call that is not steady has asked for two things.                     *)
LEMMA UnsteadyChanged ==
    ASSUME NEW c \in Call, ~Steady(c) PROVE Service!Changed(c)
<1>1. PICK e \in written[c], f \in written[c] : e # f
  BY DEF Steady, Kept
<1>2. /\ Demand(e) \in askedBar[c] /\ Demand(f) \in askedBar[c]
      /\ Demand(e) # Demand(f)
  BY <1>1 DEF askedBar, Demand
<1> QED BY <1>2 DEF Service!Changed, askedBar

(* A body that is written is asked for: at first, or again, or it is what  *)
(* a Python call had asked for already.                                    *)
LEMMA AskStep ==
    ASSUME IndInv, NEW c \in Call, NEW e \in Envelopes, Write(c, e),
           outcome[c] = None, written[c] = {} \/ SdkOf[c] # Python \/ e \in written[c],
           UNCHANGED <<outcome, ledger, events>>
    PROVE  [Service!Next]_(Service!vars)
<1>1. bindersBar' = bindersBar /\ boundBar' = boundBar /\ verdictBar' = verdictBar
  BY DEF bindersBar, boundBar, verdictBar, Verdict, IsRefusal
<1>2. /\ written'[c] = written[c] \cup {e}
      /\ \A d \in Call \ {c} : written'[d] = written[d]
  BY DEF Write, IndInv, TypeOK
<1>3. askedBar' = [askedBar EXCEPT ![c] = @ \cup {Demand(e)}]
  <2>1. \A d \in Call \ {c} : askedBar'[d] = askedBar[d]
    BY <1>2 DEF askedBar
  <2>2. askedBar'[c] = askedBar[c] \cup {Demand(e)}
    BY <1>2 DEF askedBar
  <2> QED BY <2>1, <2>2 DEF askedBar
<1>4. CASE e \in written[c]
  <2>1. Demand(e) \in askedBar[c]
    BY <1>4 DEF askedBar
  <2>2. askedBar' = askedBar
    BY <1>3, <2>1 DEF askedBar
  <2> QED BY <1>1, <2>2 DEF Service!vars, askedBar, bindersBar, boundBar, verdictBar
<1>5. CASE e \notin written[c]
  <2>1. verdictBar[c] = "pending"
    BY ResultKinds DEF verdictBar, Verdict
  <2>2. askedBar[c] = {} \/ c \in fickle
    BY <1>5 DEF askedBar, fickle, Sdks
  <2>3. Demand(e) \in [key : Namespaces, payload : Envelopes]
    BY DEF Demand, Namespaces
  <2>4. Service!Ask(c)
    BY <1>1, <1>3, <2>1, <2>2, <2>3
       DEF Service!Ask, askedBar, bindersBar, boundBar, verdictBar, fickle
  <2> QED BY <2>4 DEF Service!Next
<1> QED BY <1>4, <1>5

(* A step that changes at most the result of one call tells that call a    *)
(* verdict the abstract service allows.                                    *)
LEMMA TellStep ==
    ASSUME IndInv, IndInv', NEW c \in Call, pc[c] # "done",
           pc[c] = "idle" => outcome'[c] = Raw,
           UNCHANGED <<args, body, written, ledger, events>>,
           \A d \in Call \ {c} : outcome'[d] = outcome[d]
    PROVE  [Service!Next]_(Service!vars)
<1>1. askedBar' = askedBar /\ bindersBar' = bindersBar /\ boundBar' = boundBar
  BY DEF askedBar, bindersBar, boundBar
<1>2. verdictBar[c] = "pending"
  BY ResultKinds DEF IndInv, ResultsInv, verdictBar, Verdict
<1>3. \A d \in Call \ {c} : Verdict(d)' = Verdict(d)
  BY DEF Verdict, IsRefusal
<1>4. verdictBar' = [verdictBar EXCEPT ![c] = Verdict(c)']
  BY <1>3 DEF verdictBar
<1>5. CASE Verdict(c)' = "pending"
  <2>1. verdictBar' = verdictBar
    BY <1>2, <1>4, <1>5 DEF verdictBar
  <2> QED BY <1>1, <2>1 DEF Service!vars, askedBar, bindersBar, boundBar, verdictBar
<1>6. CASE Verdict(c)' = "accepted"
  <2>1. Confirmed(c, outcome[c])'
    BY <1>6 DEF Verdict, IndInv, ResultsInv
  <2>2. PICK x \in events : x.envelope = body[c]
    BY <2>1 DEF Confirmed
  <2>3. /\ ledger[Namespace(body[c])] # None
        /\ ledger[Namespace(body[c])].envelope = body[c]
    BY <2>2 DEF IndInv, EventsInv, Rejected
  <2>4. body[c] \in Envelopes /\ body[c] \in written[c]
    <3>1. pc[c] # "idle"
      BY <1>6, ResultKinds DEF Verdict
    <3> QED BY <3>1 DEF IndInv, TypeOK, BodiesInv
  <2>5. /\ Demand(body[c]) \in askedBar[c]
        /\ boundBar[Demand(body[c]).key] = Demand(body[c]).payload
    BY <2>3, <2>4 DEF askedBar, boundBar, Demand, Namespaces
  <2>6. Service!Accept(c)
    BY <1>1, <1>2, <1>4, <1>6, <2>5
       DEF Service!Accept, Service!Tell, askedBar, bindersBar, boundBar, verdictBar
  <2> QED BY <2>6 DEF Service!Next
<1>7. CASE Verdict(c)' = "refused"
  <2>1. HonestPath /\ IsRefusal(c)'
    BY <1>7 DEF Verdict, HonestPath
  <2>2. c \notin bindersBar \/ Service!Changed(c)
    <3>1. CASE Steady(c)
      <4>1. Rejected(c, body[c])
        BY <2>1 DEF IndInv, ResultsInv, Rejected
      <4>2. \A x \in events : x.call # c
        BY <3>1, <4>1, SteadyBody DEF IndInv, EventsInv
      <4> QED BY <4>2 DEF bindersBar
    <3>2. CASE ~Steady(c)
      BY <3>2, UnsteadyChanged
    <3> QED BY <3>1, <3>2
  <2>3. Service!Refuse(c)
    BY <1>1, <1>2, <1>4, <1>7, <2>2
       DEF Service!Refuse, Service!Tell, askedBar, bindersBar, boundBar, verdictBar
  <2> QED BY <2>3 DEF Service!Next
<1>8. CASE Verdict(c)' = "unknown"
  <2>1. Service!GiveUp(c)
    BY <1>1, <1>2, <1>4, <1>8
       DEF Service!GiveUp, Service!Tell, askedBar, bindersBar, boundBar, verdictBar
  <2> QED BY <2>1 DEF Service!Next
<1> QED BY <1>5, <1>6, <1>7, <1>8 DEF Verdict

(* Recording an event binds the key for a call that asked for it, and that *)
(* has no final answer unless it asked for something else too.             *)
LEMMA BindStep ==
    ASSUME IndInv, NEW r \in net, Serve(r)
    PROVE  [Service!Next]_(Service!vars)
<1> DEFINE k == Namespace(r.envelope)
<1>1. /\ r.call \in Call /\ r.envelope \in Envelopes /\ k \in Namespaces
      /\ r.envelope \in written[r.call]
  BY ServeFrame
<1>2. askedBar' = askedBar /\ verdictBar' = verdictBar
  BY ServeFrame DEF askedBar, verdictBar, Verdict, IsRefusal
<1>3. CASE IsFresh(Answer(r))
  <2>1. /\ Answer(r) = Submitted(r.envelope, FALSE)
        /\ ledger[k] = None /\ ~Rejected(r.call, r.envelope)
    BY <1>3, AnswerMeaning
  <2>2. /\ ledger' = [ledger EXCEPT ![k] = Answer(r)]
        /\ events' = events \cup
             {[envelope |-> r.envelope, call |-> r.call, attempt |-> r.attempt]}
    BY <1>3 DEF Serve
  <2>3. Answer(r).envelope = r.envelope /\ Answer(r) # None
    BY <2>1 DEF Submitted, None
  <2>4. boundBar[k] = None
    BY <1>1, <2>1 DEF boundBar
  <2>5. boundBar' = [boundBar EXCEPT ![k] = r.envelope]
    BY <1>1, <2>2, <2>3 DEF boundBar, IndInv, TypeOK
  <2>6. verdictBar[r.call] \in {"pending", "unknown"} \/ Service!Changed(r.call)
    <3>1. CASE Steady(r.call)
      <4>1. r.envelope = body[r.call]
        BY <1>1, <3>1, SteadyBody
      <4>2. outcome[r.call].kind # "submission"
        BY <1>1, <2>1, <4>1 DEF IndInv, ResultsInv, Confirmed, EventsInv
      <4>3. ~(HonestPath /\ IsRefusal(r.call))
        BY <1>1, <2>1, <4>1 DEF IndInv, ResultsInv
      <4> QED BY <1>1, <4>2, <4>3 DEF verdictBar, Verdict
    <3>2. CASE ~Steady(r.call)
      BY <1>1, <3>2, UnsteadyChanged
    <3> QED BY <3>1, <3>2
  <2>7. /\ Demand(r.envelope) \in askedBar[r.call]
        /\ Demand(r.envelope).key = k /\ Demand(r.envelope).payload = r.envelope
    BY <1>1 DEF askedBar, Demand
  <2>8. bindersBar' = bindersBar \cup {r.call}
    <3> DEFINE new == [envelope |-> r.envelope, call |-> r.call, attempt |-> r.attempt]
    <3>1. events' = events \cup {new} /\ new.call = r.call
      BY <2>2
    <3> HIDE DEF new
    <3> QED BY <3>1 DEF bindersBar
  <2>9. Service!Bind(r.call)
    BY <1>2, <2>4, <2>5, <2>6, <2>7, <2>8
       DEF Service!Bind, askedBar, bindersBar, boundBar, verdictBar
  <2> QED BY <1>1, <2>9 DEF Service!Next
<1>4. CASE ~IsFresh(Answer(r))
  <2>1. boundBar' = boundBar /\ bindersBar' = bindersBar
    BY <1>4 DEF Serve, serverVars, boundBar, bindersBar
  <2> QED BY <1>2, <2>1 DEF Service!vars, askedBar, bindersBar, boundBar, verdictBar
<1> QED BY <1>3, <1>4

LEMMA RefinesStep ==
    IndInv /\ IndInv' /\ [Next]_vars => [Service!Next]_(Service!vars)
<1> SUFFICES ASSUME IndInv, IndInv', [Next]_vars PROVE [Service!Next]_(Service!vars)
  OBVIOUS
<1>1. ASSUME NEW c \in Call, Step(c) PROVE [Service!Next]_(Service!vars)
  <2>1. TypeOK
    BY DEF IndInv
  <2>2. CASE Submit(c) /\ Limit(c) > 0
    <3>1. /\ Write(c, args[c].envelope) /\ args[c].envelope \in Envelopes
          /\ UNCHANGED <<outcome, ledger, events>>
      BY <2>1, <2>2 DEF Submit, serverVars, TypeOK, Args
    <3>2. outcome[c] = None /\ written[c] = {}
      BY <2>2 DEF Submit, IndInv, ResultsInv, BodiesInv
    <3> QED BY <3>1, <3>2, AskStep
  <2>3. CASE Backoff(c)
    <3>1. /\ Write(c, Body(c)) /\ Body(c) \in Envelopes
          /\ UNCHANGED <<outcome, ledger, events>>
      BY <2>1, <2>3 DEF Backoff, Body, serverVars, TypeOK, Args
    <3>2. outcome[c] = None /\ (SdkOf[c] = Python => Body(c) \in written[c])
      BY <2>3 DEF Backoff, Body, IndInv, ResultsInv, BodiesInv
    <3> QED BY <3>1, <3>2, AskStep
  <2>4. CASE \E e \in Envelopes : Edit(c, e)
    <3>1. UNCHANGED <<written, outcome, ledger, events>>
      BY <2>4 DEF Edit, serverVars
    <3>2. /\ askedBar' = askedBar /\ bindersBar' = bindersBar
          /\ boundBar' = boundBar /\ verdictBar' = verdictBar
      BY <3>1 DEF askedBar, bindersBar, boundBar, verdictBar, Verdict, IsRefusal
    <3> QED BY <3>2 DEF Service!vars, askedBar, bindersBar, boundBar, verdictBar
  <2>5. CASE /\ ~(Submit(c) /\ Limit(c) > 0) /\ ~Backoff(c)
             /\ ~\E e \in Envelopes : Edit(c, e)
    <3>1. /\ pc[c] # "done" /\ UNCHANGED <<args, body, written, ledger, events>>
          /\ pc[c] = "idle" => outcome'[c] = Raw
      BY <1>1, <2>1, <2>5 DEF Step, Submit, Post, Refused, Receive, Disturbed,
                              bodyVars, serverVars, TypeOK
    <3>2. ASSUME NEW o, NEW r, Settle(c, o, r)
          PROVE  \A d \in Call \ {c} : outcome'[d] = outcome[d]
      BY <2>1, <3>2, SettleOutcome, Zenon
    <3>3. \A d \in Call \ {c} : outcome'[d] = outcome[d]
      <4>1. CASE Submit(c)
        BY <4>1, <2>1 DEF Submit, TypeOK
      <4>2. CASE Post(c)
        BY <4>2 DEF Post
      <4>3. CASE Refused(c) \/ Receive(c) \/ \E o \in Faults : Disturbed(c, o)
        BY <3>2, <4>3 DEF Refused, Receive, Disturbed
      <4> QED BY <1>1, <2>5, <4>1, <4>2, <4>3 DEF Step
    <3> QED BY <3>1, <3>3, TellStep
  <2> QED BY <2>2, <2>3, <2>4, <2>5
<1>2. ASSUME NEW r \in net, Serve(r) PROVE [Service!Next]_(Service!vars)
  BY <1>2, BindStep
<1>3. CASE UNCHANGED vars
  <2>1. /\ askedBar' = askedBar /\ bindersBar' = bindersBar
        /\ boundBar' = boundBar /\ verdictBar' = verdictBar
    BY <1>3 DEF vars, bodyVars, serverVars, askedBar, bindersBar, boundBar, verdictBar,
                Verdict, IsRefusal
  <2> QED BY <2>1 DEF Service!vars, askedBar, bindersBar, boundBar, verdictBar
<1> QED BY <1>1, <1>2, <1>3 DEF Next, Finished

(* Whatever the network does, callers see an idempotent service: a key is  *)
(* bound once, accepted calls match what is bound, refused calls have      *)
(* bound nothing and never will, a call that ended without an answer may   *)
(* still take effect, and only TypeScript calls ask for two things.        *)
THEOREM Refinement == Spec => ImplementsService
<1>1. Spec => []IndInv
  BY Inductive
<1> QED BY <1>1, RefinesInit, RefinesStep, PTL
        DEF Spec, ImplementsService, Service!Spec
=============================================================================
