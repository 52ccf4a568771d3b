----------------------------- MODULE LoopProofs -----------------------------
(***************************************************************************)
(* Proofs about the retry loop of both SDKs, for every number of retries:  *)
(* when it ends, what its error says, and that both bindings agree.        *)
(***************************************************************************)
EXTENDS SubmissionProofs

USE SdkAssumption, RetryAssumption, FaultAssumption

(* The attempt of call c that ended in o makes the loop go on.             *)
GoesOn(c, o) == ~Returns(SdkOf[c], o) /\ Retries(SdkOf[c], o)

(* The loop of call c: as many outcomes have been seen as attempts ended;  *)
(* all but the last of a call that is done made the loop go on; that one   *)
(* did only if it was the last attempt; and a typed error is retryable if  *)
(* its outcome is one to retry, else one to raise at once.                 *)
CallInv(c) ==
    /\ pc[c] = "idle" => attempt[c] = 0 /\ seen[c] = <<>>
    /\ pc[c] \in {"sending", "waiting"} => Len(seen[c]) = attempt[c] /\ attempt[c] < Limit(c)
    /\ pc[c] = "backoff" => Len(seen[c]) = attempt[c] + 1 /\ attempt[c] + 1 < Limit(c)
    /\ \A i \in 1 .. Len(seen[c]) :
         GoesOn(c, seen[c][i]) \/ (pc[c] = "done" /\ i = Len(seen[c]))
    /\ pc[c] = "done" /\ seen[c] # <<>> /\ GoesOn(c, LastSeen(c)) => Len(seen[c]) = Limit(c)
    /\ outcome[c].kind = "typed" =>
         /\ pc[c] = "done" /\ seen[c] # <<>>
         /\ outcome[c].retryable => GoesOn(c, LastSeen(c))
         /\ ~outcome[c].retryable =>
              ~Retries(SdkOf[c], LastSeen(c)) /\ RaisesTyped(SdkOf[c], LastSeen(c))

LoopInv == \A c \in Call : CallInv(c)

LEMMA LimitType == \A c \in Call : Limit(c) \in Int
BY DEF Limit, Attempts, PyAttempts, TsAttempts

LEMMA LoopInit == Init => LoopInv
BY ResultKinds DEF Init, LoopInv, CallInv

LEMMA CallKept ==
    ASSUME NEW c \in Call, CallInv(c), pc'[c] = pc[c], attempt'[c] = attempt[c],
           seen'[c] = seen[c], outcome'[c] = outcome[c]
    PROVE  CallInv(c)'
BY DEF CallInv, LastSeen

(* One more outcome of call c.                                             *)
LEMMA Seen ==
    ASSUME TypeOK, NEW c \in Call, NEW o \in Outcomes, seen' = [seen EXCEPT ![c] = Append(@, o)]
    PROVE  /\ Len(seen'[c]) = Len(seen[c]) + 1
           /\ \A i \in 1 .. Len(seen[c]) : seen'[c][i] = seen[c][i]
           /\ seen'[c][Len(seen[c]) + 1] = o
           /\ seen'[c] # <<>>
           /\ \A d \in Call \ {c} : seen'[d] = seen[d]
<1>1. seen[c] \in Seq(Outcomes) /\ seen'[c] = Append(seen[c], o)
      /\ \A d \in Call \ {c} : seen'[d] = seen[d]
  BY DEF TypeOK
<1> QED BY <1>1

LEMMA SettleLoop ==
    ASSUME TypeOK, LoopInv, NEW c \in Call, NEW o \in Outcomes,
           NEW r \in Submissions \cup {None},
           pc[c] \in {"sending", "waiting"}, Settle(c, o, r), attempt' = attempt
    PROVE  LoopInv'
<1>1. ASSUME NEW d \in Call \ {c} PROVE CallInv(d)'
  <2>1. pc'[d] = pc[d] /\ outcome'[d] = outcome[d]
    BY <1>1, SettleOutcome, Zenon
  <2>2. seen'[d] = seen[d]
    BY <1>1 DEF Settle, TypeOK
  <2> QED BY <1>1, <2>1, <2>2, CallKept DEF LoopInv
<1>2. /\ Len(seen[c]) = attempt[c] /\ attempt[c] < Limit(c) /\ attempt[c] \in Nat
      /\ \A i \in 1 .. Len(seen[c]) : GoesOn(c, seen[c][i])
      /\ outcome[c].kind # "typed"
      /\ Limit(c) \in Int
  BY LimitType DEF LoopInv, CallInv, TypeOK
<1>3. /\ Len(seen'[c]) = Len(seen[c]) + 1
      /\ \A i \in 1 .. Len(seen[c]) : seen'[c][i] = seen[c][i]
      /\ seen'[c][Len(seen[c]) + 1] = o
      /\ seen'[c] # <<>>
  <2>1. seen' = [seen EXCEPT ![c] = Append(@, o)]
    BY DEF Settle
  <2> QED BY <2>1, Seen
<1>4. /\ \A i \in 1 .. Len(seen'[c]) :
           GoesOn(c, seen'[c][i]) \/ (i = Len(seen'[c]) /\ seen'[c][i] = o)
      /\ LastSeen(c)' = o
  BY <1>2, <1>3 DEF LastSeen
<1>5. r.kind # "typed"
  BY SubmissionFields, ResultKinds
<1>6. ASSUME NEW v, outcome' = [outcome EXCEPT ![c] = v], pc' = [pc EXCEPT ![c] = "done"]
      PROVE  outcome'[c] = v /\ pc'[c] = "done"
  BY <1>6 DEF TypeOK
<1>7. CASE Returns(SdkOf[c], o)
  <2>1. outcome' = [outcome EXCEPT ![c] = Decoded(c, o, r)] /\ pc' = [pc EXCEPT ![c] = "done"]
    BY <1>7, Zenon DEF Settle
  <2>2. Decoded(c, o, r) \in {Raw, Empty, r}
    BY DEF Decoded
  <2>3. outcome'[c].kind # "typed" /\ pc'[c] = "done"
    BY <1>5, <1>6, <2>1, <2>2, ResultKinds
  <2>4. CallInv(c)'
    BY <1>3, <1>4, <1>7, <2>3 DEF CallInv, GoesOn
  <2> QED BY <1>1, <2>4 DEF LoopInv
<1>8. CASE GoesOn(c, o) /\ attempt[c] + 1 = Limit(c)
  <2> DEFINE x == Typed(ExhaustedStatus(SdkOf[c], o), TRUE)
  <2>1. outcome' = [outcome EXCEPT ![c] = x] /\ pc' = [pc EXCEPT ![c] = "done"]
    BY <1>8, Zenon DEF Settle, GoesOn
  <2>2. x.retryable
    BY ResultKinds
  <2> HIDE DEF x
  <2>3. outcome'[c] = x /\ pc'[c] = "done"
    BY <1>6, <2>1
  <2>4. Len(seen'[c]) = Limit(c)
    BY <1>2, <1>3, <1>8
  <2>5. CallInv(c)'
    BY <1>3, <1>4, <1>8, <2>2, <2>3, <2>4 DEF CallInv
  <2> QED BY <1>1, <2>5 DEF LoopInv
<1>9. CASE GoesOn(c, o) /\ attempt[c] + 1 # Limit(c)
  <2>1. outcome' = outcome /\ pc' = [pc EXCEPT ![c] = "backoff"]
    BY <1>9, Zenon DEF Settle, GoesOn
  <2>2. outcome'[c].kind # "typed" /\ pc'[c] = "backoff"
    BY <1>2, <2>1 DEF TypeOK
  <2>3. Len(seen'[c]) = attempt'[c] + 1 /\ attempt'[c] + 1 < Limit(c)
    BY <1>2, <1>3, <1>9
  <2>4. CallInv(c)'
    BY <1>4, <1>9, <2>2, <2>3 DEF CallInv
  <2> QED BY <1>1, <2>4 DEF LoopInv
<1>10. CASE ~Returns(SdkOf[c], o) /\ ~Retries(SdkOf[c], o) /\ RaisesTyped(SdkOf[c], o)
  <2> DEFINE x == Typed(o.status, FALSE)
  <2>1. outcome' = [outcome EXCEPT ![c] = x] /\ pc' = [pc EXCEPT ![c] = "done"]
    BY <1>10, Zenon DEF Settle
  <2>2. ~x.retryable
    BY ResultKinds
  <2> HIDE DEF x
  <2>3. outcome'[c] = x /\ pc'[c] = "done"
    BY <1>6, <2>1
  <2>4. CallInv(c)'
    BY <1>3, <1>4, <1>10, <2>2, <2>3 DEF CallInv, GoesOn
  <2> QED BY <1>1, <2>4 DEF LoopInv
<1>11. CASE ~Returns(SdkOf[c], o) /\ ~Retries(SdkOf[c], o) /\ ~RaisesTyped(SdkOf[c], o)
  <2>1. outcome' = [outcome EXCEPT ![c] = Raw] /\ pc' = [pc EXCEPT ![c] = "done"]
    BY <1>11, Zenon DEF Settle
  <2>2. outcome'[c].kind # "typed" /\ pc'[c] = "done"
    BY <1>6, <2>1, ResultKinds
  <2>3. CallInv(c)'
    BY <1>3, <1>4, <1>11, <2>2 DEF CallInv, GoesOn
  <2> QED BY <1>1, <2>3 DEF LoopInv
<1> QED BY <1>7, <1>8, <1>9, <1>10, <1>11 DEF GoesOn

LEMMA LoopStep == TypeOK /\ LoopInv /\ [Next]_vars => LoopInv'
<1> SUFFICES ASSUME TypeOK, LoopInv, [Next]_vars PROVE LoopInv'
  OBVIOUS
<1>1. ASSUME NEW c \in Call, Submit(c) PROVE LoopInv'
  <2>1. attempt[c] = 0 /\ seen[c] = <<>> /\ outcome[c].kind # "typed" /\ Limit(c) \in Int
    BY <1>1, LimitType DEF Submit, LoopInv, CallInv
  <2>2. ASSUME NEW d \in Call \ {c} PROVE CallInv(d)'
    BY <1>1, <2>2, CallKept DEF Submit, TypeOK, LoopInv
  <2>3. attempt'[c] = 0 /\ seen'[c] = <<>>
    BY <1>1, <2>1 DEF Submit
  <2>4. CASE Limit(c) > 0
    <3>1. pc'[c] = "sending" /\ outcome'[c].kind # "typed"
      BY <1>1, <2>1, <2>4 DEF Submit, TypeOK
    <3>2. CallInv(c)'
      BY <2>1, <2>3, <2>4, <3>1 DEF CallInv
    <3> QED BY <2>2, <3>2 DEF LoopInv
  <2>5. CASE ~(Limit(c) > 0)
    <3>1. pc'[c] = "done" /\ outcome'[c] = Raw
      BY <1>1, <2>5 DEF Submit, TypeOK
    <3>2. CallInv(c)'
      BY <2>1, <2>3, <3>1, ResultKinds DEF CallInv
    <3> QED BY <2>2, <3>2 DEF LoopInv
  <2> QED BY <2>4, <2>5
<1>2. ASSUME NEW c \in Call, Post(c) PROVE LoopInv'
  <2>1. ASSUME NEW d \in Call \ {c} PROVE CallInv(d)'
    BY <1>2, <2>1, CallKept DEF Post, TypeOK, LoopInv
  <2>2. pc[c] = "sending" /\ pc'[c] = "waiting" /\ UNCHANGED <<attempt, seen, outcome>>
    BY <1>2 DEF Post, TypeOK
  <2>3. CallInv(c)'
    BY <2>2 DEF LoopInv, CallInv
  <2> QED BY <2>1, <2>3 DEF LoopInv
<1>3. ASSUME NEW c \in Call, Refused(c) PROVE LoopInv'
  BY <1>3, OutcomeTypes, SettleLoop DEF Refused
<1>4. ASSUME NEW c \in Call, NEW o \in Faults, Disturbed(c, o) PROVE LoopInv'
  BY <1>4, OutcomeTypes, SettleLoop DEF Disturbed
<1>5. ASSUME NEW c \in Call, Receive(c) PROVE LoopInv'
  <2>1. reply[c] \in Submissions \cup Refusals
    BY <1>5 DEF Receive, TypeOK
  <2>2. CASE reply[c].kind = "submission"
    <3>1. reply[c] \in Submissions /\ Settle(c, Accepted, reply[c])
      BY <1>5, <2>1, <2>2, RefusalFields DEF Receive
    <3> QED BY <1>5, <3>1, OutcomeTypes, SettleLoop DEF Receive
  <2>3. CASE reply[c].kind # "submission"
    <3> DEFINE o == [status |-> reply[c].status, body |-> "object"]
    <3>1. o \in Outcomes
      <4>1. reply[c].status \in Statuses
        BY <2>1, <2>3, SubmissionFields, RefusalFields, RefusalType
      <4> QED BY <4>1, OutcomeTypes
    <3>2. Settle(c, o, None)
      BY <1>5, <2>3 DEF Receive
    <3> HIDE DEF o
    <3> QED BY <1>5, <3>1, <3>2, SettleLoop DEF Receive
  <2> QED BY <2>2, <2>3
<1>6. ASSUME NEW c \in Call, Backoff(c) PROVE LoopInv'
  <2>1. ASSUME NEW d \in Call \ {c} PROVE CallInv(d)'
    BY <1>6, <2>1, CallKept DEF Backoff, TypeOK, LoopInv
  <2>2. /\ pc[c] = "backoff" /\ pc'[c] = "sending" /\ UNCHANGED <<seen, outcome>>
        /\ attempt[c] \in Nat /\ attempt'[c] = attempt[c] + 1
    BY <1>6 DEF Backoff, TypeOK
  <2>3. CallInv(c)'
    BY <2>2 DEF LoopInv, CallInv
  <2> QED BY <2>1, <2>3 DEF LoopInv
<1>7. ASSUME NEW r \in net, Serve(r) PROVE LoopInv'
  BY <1>7, CallKept DEF Serve, LoopInv
<1>8. ASSUME NEW c \in Call, NEW e \in Envelopes, Edit(c, e) PROVE LoopInv'
  BY <1>8, CallKept DEF Edit, LoopInv
<1>9. CASE UNCHANGED vars
  BY <1>9, CallKept DEF vars, LoopInv
<1> QED BY <1>1, <1>2, <1>3, <1>4, <1>5, <1>6, <1>7, <1>8, <1>9 DEF Next, Step, Finished

LEMMA Loop == Spec => [](TypeOK /\ LoopInv)
<1>1. Init => TypeOK /\ LoopInv
  BY TypeInit, LoopInit
<1>2. TypeOK /\ LoopInv /\ [Next]_vars => (TypeOK /\ LoopInv)'
  BY TypeStep, LoopStep
<1> QED BY <1>1, <1>2, PTL DEF Spec
-----------------------------------------------------------------------------
(* What the SDKs retry and raise, of what they can read.                   *)
LEMMA Policy ==
    ASSUME NEW sdk \in Sdks, NEW o \in Outcomes, Legible(sdk, o)
    PROVE  /\ Retries(sdk, o) => IsTransient(o)
           /\ RaisesTyped(sdk, o) => ~IsTransient(o)
           /\ IsFinalAnswer(o) => ~Retries(sdk, o)
BY DEF Sdks, Legible, Retries, PyRetries, TsRetries, RaisesTyped, PyRaises, TsRaises,
       IsTransient, IsFinalAnswer, Retryable, Terminal, Unreachable, Python, TypeScript

LEMMA LastSeenType ==
    ASSUME TypeOK, NEW c \in Call, seen[c] # <<>>
    PROVE  LastSeen(c) \in Outcomes
<1>1. seen[c] \in Seq(Outcomes)
  BY DEF TypeOK
<1> QED BY <1>1 DEF LastSeen

(* A call that has read a final answer is over: no later attempt is sent.  *)
THEOREM FinalAnswersEndCalls == Spec => []FinalAnswerEndsCall
<1>1. TypeOK /\ LoopInv => FinalAnswerEndsCall
  <2> SUFFICES ASSUME TypeOK, LoopInv, NEW c \in Call, NEW i \in 1 .. Len(seen[c]),
                      IsFinalAnswer(seen[c][i]), Legible(SdkOf[c], seen[c][i])
               PROVE  i = Len(seen[c]) /\ pc[c] = "done"
    BY DEF FinalAnswerEndsCall
  <2>1. seen[c][i] \in Outcomes
    BY DEF TypeOK
  <2>2. ~Retries(SdkOf[c], seen[c][i])
    BY <2>1, Policy
  <2> QED BY <2>2 DEF LoopInv, CallInv, GoesOn
<1> QED BY <1>1, Loop, PTL

(* A typed error says retryable of transient outcomes only, and of all.    *)
THEOREM RetryableIsTrue == Spec => []RetryableFlagTruthful
<1>1. TypeOK /\ LoopInv => RetryableFlagTruthful
  <2> SUFFICES ASSUME TypeOK, LoopInv, NEW c \in Call,
                      outcome[c].kind = "typed", Legible(SdkOf[c], LastSeen(c))
               PROVE  outcome[c].retryable <=> IsTransient(LastSeen(c))
    BY DEF RetryableFlagTruthful
  <2>1. /\ seen[c] # <<>>
        /\ outcome[c].retryable => Retries(SdkOf[c], LastSeen(c))
        /\ ~outcome[c].retryable => RaisesTyped(SdkOf[c], LastSeen(c))
    BY DEF LoopInv, CallInv, GoesOn
  <2> QED BY <2>1, LastSeenType, Policy
<1> QED BY <1>1, Loop, PTL

(* The TypeScript SDK gives up on a transient outcome only when it has     *)
(* used every attempt of its retry option.                                 *)
THEOREM TypeScriptUsesAllAttempts == Spec => []TypeScriptPersistent
<1>1. TypeOK /\ LoopInv => TypeScriptPersistent
  <2> SUFFICES ASSUME TypeOK, LoopInv, NEW c \in Call, SdkOf[c] = TypeScript,
                      pc[c] = "done", seen[c] # <<>>, IsTransient(LastSeen(c))
               PROVE  Len(seen[c]) = Limit(c)
    BY DEF TypeScriptPersistent, Persistent
  <2>1. GoesOn(c, LastSeen(c))
    BY DEF GoesOn, IsTransient, Returns, Retries, TsRetries, Retryable, Python, TypeScript
  <2> QED BY <2>1 DEF LoopInv, CallInv
<1> QED BY <1>1, Loop, PTL

(* Unless the path forges refusals, what one call sent and submitted is    *)
(* refused to another only as an A2A message of the TypeScript SDK.        *)
THEOREM OtherBindingsAgree == HonestPath /\ Spec => []KnownBindingsAgree
<1>1. ASSUME HonestPath, IndInv, NEW c \in Call, NEW d \in Call, Disagree(c, d)
      PROVE  SdkOf[d] = TypeScript /\ args[d].binding = "a2a"
  <2>1. /\ body[c] = body[d] /\ outcome[c].kind = "submission"
        /\ Rejected(d, body[d])
    BY <1>1 DEF Disagree, IndInv, ResultsInv
  <2>2. PICK x \in events : x.envelope = body[d]
    BY <1>1, <2>1 DEF IndInv, ResultsInv, Confirmed
  <2>3. MediaType(SdkOf[d], args[d].binding) \notin Understood
    BY <1>1, <2>1, <2>2 DEF IndInv, EventsInv, Rejected
  <2>4. SdkOf[d] \in Sdks /\ args[d].binding \in Bindings
    BY <1>1 DEF IndInv, TypeOK, Args
  <2> QED BY <2>3, <2>4 DEF MediaType, Understood, Sdks, Bindings
<1>2. HonestPath /\ IndInv => KnownBindingsAgree
  BY <1>1 DEF KnownBindingsAgree
<1>3. HonestPath => []HonestPath
  BY DEF HonestPath
<1> QED BY <1>2, <1>3, Inductive, PTL
=============================================================================
