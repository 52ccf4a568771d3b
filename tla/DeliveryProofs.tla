--------------------------- MODULE DeliveryProofs ---------------------------
(***************************************************************************)
(* Proofs about Delivery for every set of workers and deliveries, every    *)
(* mix of SDKs, every limit, number of retries and bound on the behaviour. *)
(***************************************************************************)
EXTENDS Delivery, TLAPS

USE DeliverySdkAssumption, LimitAssumption, DeliveryRetryAssumption,
    DeliveryFaultAssumption, BoundsAssumption

-----------------------------------------------------------------------------
(***************************************************************************)
(* The steps by what they touch: calls begin, send, end, back off; the     *)
(* inbox denies, leases, completes; a lease expires.                       *)
(***************************************************************************)
Pairs == [delivery : Deliveries, lease : Nat]
Ops   == [kind : {"claim", "ack", "reject"},
          delivery : Deliveries \cup {NoDelivery}, lease : Nat]
Completing(h) == {[kind |-> k, delivery |-> h.delivery, lease |-> h.lease] :
                     k \in {"ack", "reject"}}

BeginStep  == \E w \in Worker : \E o \in {Claiming} \cup UNION {Completing(h) : h \in held[w]} :
                 Begin(w, o) /\ rejects' \in {rejects, rejects + 1}
PostStep   == \E w \in Worker : Post(w)
SettleStep == \E w \in Worker : \E o : \E leased \in {{}, reply[w].leased} :
                 /\ pc[w] # "free" /\ Settle(w, o, leased)
                 /\ o.status \in {200, 409} => pc[w] = "waiting" /\ o.status = reply[w].status
BackoffStep == \E w \in Worker : Backoff(w)
DenyStep   == \E r \in net : Deny(r)
LeaseStep  == \E r \in net : ServeClaim(r)
CompleteStep == \E r \in net : ServeComplete(r)
ExpireStep == \E d \in Deliveries : Expire(d)

LEMMA StepKinds ==
    ASSUME [Next]_vars
    PROVE  \/ BeginStep \/ PostStep \/ SettleStep \/ BackoffStep
           \/ DenyStep \/ LeaseStep \/ CompleteStep \/ ExpireStep
           \/ UNCHANGED vars
<1>1. ASSUME NEW w \in Worker, ClaimDeliveries(w) PROVE BeginStep
  BY <1>1 DEF ClaimDeliveries, BeginStep
<1>2. ASSUME NEW w \in Worker, NEW h \in held[w],
             AcknowledgeDelivery(w, h) \/ RejectDelivery(w, h)
      PROVE  BeginStep
  <2> DEFINE a == [kind |-> "ack", delivery |-> h.delivery, lease |-> h.lease]
             b == [kind |-> "reject", delivery |-> h.delivery, lease |-> h.lease]
  <2>1. a \in Completing(h) /\ b \in Completing(h)
    BY DEF Completing
  <2>2. \/ Begin(w, a) /\ rejects' \in {rejects, rejects + 1}
        \/ Begin(w, b) /\ rejects' \in {rejects, rejects + 1}
    BY <1>2 DEF AcknowledgeDelivery, RejectDelivery
  <2> QED BY <2>1, <2>2, Zenon DEF BeginStep
<1>3. ASSUME NEW w \in Worker, Receive(w) PROVE SettleStep
  BY <1>3 DEF Receive, SettleStep
<1>4. ASSUME NEW w \in Worker, NEW o \in Faults, Fault(w, o) PROVE SettleStep
  <2>1. o.status \notin {200, 409}
    BY DEF IsTransient, Retryable
  <2> QED BY <1>4, <2>1 DEF Fault, SettleStep
<1> QED BY <1>1, <1>2, <1>3, <1>4, Zenon
        DEF Next, PostStep, BackoffStep, Serve, DenyStep, LeaseStep, CompleteStep, ExpireStep

(***************************************************************************)
(* A step changes the inbox only by serving a request or by an expiry, and *)
(* the client variables only in a step of the client.                      *)
(***************************************************************************)
ClientStep == BeginStep \/ PostStep \/ SettleStep \/ BackoffStep

LEMMA ClientLeavesInbox ==
    ASSUME ClientStep \/ UNCHANGED vars PROVE UNCHANGED inboxVars
BY DEF ClientStep, BeginStep, Begin, PostStep, Post, SettleStep, Settle, Raise,
       BackoffStep, Backoff, vars

LEMMA InboxLeavesClient ==
    ASSUME DenyStep \/ LeaseStep \/ CompleteStep \/ ExpireStep \/ UNCHANGED vars
    PROVE  UNCHANGED <<pc, op, call, attempt, held, told, conflicts, calls>>
BY DEF DenyStep, Deny, LeaseStep, ServeClaim, CompleteStep, ServeComplete, Answered,
       ExpireStep, Expire, clientVars, counters, vars
-----------------------------------------------------------------------------
(***************************************************************************)
(* Types: TypeOK, with the variables it leaves out and the requests.       *)
(***************************************************************************)
RequestTypes ==
    \A r \in net : /\ r.worker \in Worker /\ r.nonce \in Nat \X Nat
                   /\ r.kind \in {"claim", "ack", "reject"}
                   /\ r.kind # "claim" => r.delivery \in Deliveries
ReplyTypes == reply \in [Worker -> [status : Nat, leased : SUBSET Pairs]]
OpTypes ==
    \A w \in Worker : /\ op[w].kind # "claim" => op[w].delivery \in Deliveries
                      /\ pc[w] # "free" => call[w] \in 1 .. calls
TypeInv ==
    /\ TypeOK /\ RequestTypes /\ ReplyTypes /\ OpTypes
    /\ calls \in Nat /\ leases \in Nat

LEMMA TypeInit == Init => TypeInv
<1>1. Claiming \in Ops
  BY DEF Claiming, Ops
<1>2. NoReply \in [status : Nat, leased : SUBSET Pairs]
  BY DEF NoReply
<1>3. \A k : k \in {"claim"} => k \in {"claim", "ack", "reject"}
  OBVIOUS
<1> QED
  BY <1>1, <1>2 DEF Init, TypeInv, TypeOK, RequestTypes, ReplyTypes, OpTypes, Ops, Pairs,
     Claiming

LEMMA BeginTypes == TypeInv /\ BeginStep => TypeInv'
<1> SUFFICES ASSUME TypeInv, NEW w \in Worker,
                    NEW o \in {Claiming} \cup UNION {Completing(h) : h \in held[w]},
                    Begin(w, o)
             PROVE  TypeInv'
  BY DEF BeginStep
<1>1. o \in Ops /\ (o.kind # "claim" => o.delivery \in Deliveries)
  <2>1. CASE o = Claiming
    BY <2>1 DEF Claiming, Ops
  <2>2. ASSUME NEW h \in held[w], o \in Completing(h)
        PROVE  o \in Ops /\ o.delivery \in Deliveries
    <3>1. h \in Pairs
      BY DEF TypeInv, TypeOK, Pairs
    <3> QED BY <2>2, <3>1 DEF Completing, Pairs, Ops
  <2> QED BY <2>1, <2>2
<1>2. /\ calls' = calls + 1 /\ call' = [call EXCEPT ![w] = calls + 1]
      /\ op' = [op EXCEPT ![w] = o] /\ attempt' = [attempt EXCEPT ![w] = 0]
      /\ pc' = [pc EXCEPT ![w] = "sending"]
      /\ UNCHANGED <<held, told, conflicts, net, reply>>
      /\ UNCHANGED <<status, lease, leases, nonces, effects>>
  BY DEF Begin, inboxVars
<1>3. TypeOK'
  <2>1. op' \in [Worker -> Ops]
    BY <1>1, <1>2 DEF TypeInv, TypeOK, Ops
  <2>2. \A n : n \in 1 .. calls => n \in 1 .. calls'
    BY <1>2 DEF TypeInv
  <2>3. \A x \in effects' : x.pairs \subseteq Pairs /\ x.call \in 1 .. calls'
    BY <1>2, <2>2 DEF TypeInv, TypeOK, Pairs
  <2>4. \A r \in net' : r.lease \in Nat /\ r.call \in 1 .. calls'
    BY <1>2, <2>2 DEF TypeInv, TypeOK
  <2>5. conflicts' \subseteq 1 .. calls'
    BY <1>2, <2>2 DEF TypeInv, TypeOK
  <2> QED BY <1>2, <2>1, <2>3, <2>4, <2>5 DEF TypeInv, TypeOK, Ops, Pairs
<1>4. OpTypes'
  <2>1. \A n : n \in 1 .. calls => n \in 1 .. calls'
    BY <1>2 DEF TypeInv
  <2>2. calls + 1 \in 1 .. calls'
    BY <1>2 DEF TypeInv
  <2> QED BY <1>1, <1>2, <2>1, <2>2 DEF TypeInv, TypeOK, OpTypes
<1> QED BY <1>2, <1>3, <1>4 DEF TypeInv, RequestTypes, ReplyTypes, Pairs

(* What an attempt puts on the wire.                                       *)
Request(w) ==
    [worker |-> w, call |-> call[w], attempt |-> attempt[w],
     kind |-> op[w].kind, delivery |-> op[w].delivery,
     lease |-> LeaseField(SdkOf[w], op[w].lease),
     operation |-> Operation(op[w]), nonce |-> Nonce(call[w], attempt[w])]

LEMMA PostFacts ==
    ASSUME NEW w \in Worker, Post(w)
    PROVE  /\ pc[w] = "sending" /\ pc' = [pc EXCEPT ![w] = "waiting"]
           /\ net' = net \cup {Request(w)}
           /\ UNCHANGED <<op, call, attempt, held, told, conflicts, reply, calls>>
           /\ UNCHANGED <<status, lease, leases, nonces, effects>>
BY DEF Post, Request, inboxVars, counters

LEMMA RequestFacts ==
    ASSUME TypeInv, NEW w \in Worker
    PROVE  /\ Request(w).worker = w /\ Request(w).call = call[w]
           /\ Request(w).kind = op[w].kind /\ Request(w).delivery = op[w].delivery
           /\ Request(w).lease \in {0, op[w].lease}
           /\ Request(w).nonce = <<call[w], 0>>
BY DEF Request, Nonce, LeaseField

LEMMA PostTypes == TypeInv /\ PostStep => TypeInv'
<1> SUFFICES ASSUME TypeInv, NEW w \in Worker, Post(w) PROVE TypeInv'
  BY DEF PostStep
<1>1. PICK r : r = Request(w)
  OBVIOUS
<1>2. /\ r.worker \in Worker /\ r.kind \in {"claim", "ack", "reject"}
      /\ r.kind # "claim" => r.delivery \in Deliveries
      /\ r.lease \in Nat /\ r.call \in 1 .. calls
      /\ r.nonce \in Nat \X Nat
  <2>1. call[w] \in 1 .. calls /\ op[w] \in Ops
    BY PostFacts DEF TypeInv, TypeOK, OpTypes, Ops
  <2>2. /\ r.worker = w /\ r.call = call[w] /\ r.kind = op[w].kind
        /\ r.delivery = op[w].delivery /\ r.lease \in {0, op[w].lease}
        /\ r.nonce = <<call[w], 0>>
    BY <1>1, RequestFacts
  <2> QED BY <2>1, <2>2 DEF TypeInv, OpTypes, Ops
<1>3. net' = net \cup {r}
  BY <1>1, PostFacts
<1>4. RequestTypes' /\ \A q \in net' : q.lease \in Nat /\ q.call \in 1 .. calls'
  BY <1>2, <1>3, PostFacts DEF TypeInv, TypeOK, RequestTypes
<1>5. pc' \in [Worker -> {"free", "sending", "waiting", "backoff"}]
  BY PostFacts DEF TypeInv, TypeOK
<1>6. TypeOK'
  BY <1>4, <1>5, PostFacts DEF TypeInv, TypeOK
<1>7. OpTypes'
  BY PostFacts DEF TypeInv, TypeOK, OpTypes
<1> QED BY <1>4, <1>6, <1>7, PostFacts DEF TypeInv, ReplyTypes, Pairs

(* How an attempt that has ended leaves the worker.                        *)
LEMMA SettleFacts ==
    ASSUME TypeInv, NEW w \in Worker, NEW o, NEW leased, Settle(w, o, leased)
    PROVE  /\ reply' = [reply EXCEPT ![w] = NoReply]
           /\ UNCHANGED <<op, call, attempt, net, calls>>
           /\ UNCHANGED <<status, lease, leases, nonces, effects>>
           /\ \E p \in {"free", "backoff"} : pc' = [pc EXCEPT ![w] = p]
           /\ \E k : k \subseteq held[w] \cup leased /\ held' = [held EXCEPT ![w] = k]
           /\ \/ told' = told
              \/ /\ told' = told \cup {op[w]} /\ op[w].kind # "claim"
                 /\ Returns(SdkOf[w], o)
           /\ \/ conflicts' = conflicts
              \/ /\ conflicts' = conflicts \cup {call[w]} /\ o.status = 409
                 /\ pc' = [pc EXCEPT ![w] = "free"]
<1>1. /\ reply' = [reply EXCEPT ![w] = NoReply]
      /\ UNCHANGED <<op, call, attempt, net, calls>>
      /\ UNCHANGED <<status, lease, leases, nonces, effects>>
  BY DEF Settle, inboxVars
<1>2. held = [held EXCEPT ![w] = held[w]]
  BY DEF TypeInv, TypeOK
<1>3. CASE Returns(SdkOf[w], o)
  <2>1. pc' = [pc EXCEPT ![w] = "free"]
    BY <1>3 DEF Settle
  <2>2. \E k : k \subseteq held[w] \cup leased /\ held' = [held EXCEPT ![w] = k]
    <3>1. CASE op[w].kind = "claim"
      <4>1. held' = [held EXCEPT ![w] = held[w] \cup leased]
        BY <1>3, <3>1 DEF Settle
      <4> QED BY <4>1
    <3>2. CASE op[w].kind # "claim"
      <4>1. held' = [held EXCEPT ![w] = held[w] \ {Lease(w)}]
        BY <1>3, <3>2 DEF Settle
      <4>2. held[w] \ {Lease(w)} \subseteq held[w] \cup leased
        OBVIOUS
      <4> QED BY <4>1, <4>2
    <3> QED BY <3>1, <3>2
  <2>3. \/ told' = told
        \/ told' = told \cup {op[w]} /\ op[w].kind # "claim"
    BY <1>3 DEF Settle
  <2>4. conflicts' = conflicts
    BY <1>3 DEF Settle
  <2> QED BY <1>1, <1>3, <2>1, <2>2, <2>3, <2>4
<1>4. CASE /\ ~Returns(SdkOf[w], o)
           /\ Retries(SdkOf[w], o) /\ attempt[w] + 1 # Attempts(SdkOf[w], RetryAttempts)
  <2>1. pc' = [pc EXCEPT ![w] = "backoff"] /\ UNCHANGED <<held, told, conflicts>>
    BY <1>4 DEF Settle
  <2> QED BY <1>1, <1>2, <2>1
<1>5. CASE /\ ~Returns(SdkOf[w], o)
           /\ ~(Retries(SdkOf[w], o) /\ attempt[w] + 1 # Attempts(SdkOf[w], RetryAttempts))
  <2>1. Raise(w, o)
    BY <1>5 DEF Settle
  <2> QED BY <1>1, <2>1 DEF Raise
<1> QED BY <1>3, <1>4, <1>5

LEMMA SettleTypes == TypeInv /\ SettleStep => TypeInv'
<1> SUFFICES ASSUME TypeInv, NEW w \in Worker, NEW o, NEW leased \in {{}, reply[w].leased},
                    pc[w] # "free", Settle(w, o, leased)
             PROVE  TypeInv'
  BY DEF SettleStep
<1>1. /\ reply' = [reply EXCEPT ![w] = NoReply]
      /\ UNCHANGED <<op, call, attempt, net, calls>>
      /\ UNCHANGED <<status, lease, leases, nonces, effects>>
      /\ \E p \in {"free", "backoff"} : pc' = [pc EXCEPT ![w] = p]
      /\ \E k : k \subseteq held[w] \cup leased /\ held' = [held EXCEPT ![w] = k]
      /\ told' = told \/ told' = told \cup {op[w]}
      /\ conflicts' = conflicts \/ conflicts' = conflicts \cup {call[w]}
  BY SettleFacts, SMTT(40)
<1>2. leased \subseteq Pairs /\ NoReply \in [status : Nat, leased : SUBSET Pairs]
  BY DEF TypeInv, ReplyTypes, NoReply
<1>3. reply' \in [Worker -> [status : Nat, leased : SUBSET Pairs]]
  BY <1>1, <1>2 DEF TypeInv, ReplyTypes
<1>4. held' \in [Worker -> SUBSET Pairs]
  BY <1>1, <1>2 DEF TypeInv, TypeOK, Pairs
<1>5. pc' \in [Worker -> {"free", "sending", "waiting", "backoff"}]
  BY <1>1 DEF TypeInv, TypeOK
<1>6. told' \subseteq Ops
  BY <1>1 DEF TypeInv, TypeOK, Ops
<1>7. conflicts' \subseteq 1 .. calls'
  BY <1>1 DEF TypeInv, TypeOK, OpTypes
<1>8. TypeOK'
  BY <1>1, <1>4, <1>5, <1>6, <1>7 DEF TypeInv, TypeOK, Ops, Pairs
<1>9. OpTypes'
  BY <1>1 DEF TypeInv, TypeOK, OpTypes
<1> QED BY <1>1, <1>3, <1>8, <1>9 DEF TypeInv, RequestTypes, ReplyTypes, Pairs

LEMMA BackoffTypes == TypeInv /\ BackoffStep => TypeInv'
BY DEF BackoffStep, Backoff, inboxVars, counters, TypeInv, TypeOK, RequestTypes,
       ReplyTypes, OpTypes

(* What serving a request does outside of the inbox.                       *)
LEMMA AnsweredFacts ==
    ASSUME NEW r \in net, NEW a, Answered(r, a)
    PROVE  /\ net' = net \ {r}
           /\ reply' = reply \/ (Waiting(r) /\ reply' = [reply EXCEPT ![r.worker] = a])
           /\ UNCHANGED <<pc, op, call, attempt, held, told, conflicts, calls>>
BY DEF Answered, clientVars, counters

LEMMA AnsweredTypes ==
    ASSUME TypeInv, NEW r \in net, NEW a \in [status : Nat, leased : SUBSET Pairs],
           Answered(r, a)
    PROVE  /\ RequestTypes' /\ ReplyTypes' /\ OpTypes' /\ calls' \in Nat
           /\ pc' \in [Worker -> {"free", "sending", "waiting", "backoff"}]
           /\ op' \in [Worker -> Ops] /\ told' \subseteq Ops
           /\ call' \in [Worker -> Nat] /\ attempt' \in [Worker -> Nat]
           /\ held' \in [Worker -> SUBSET Pairs]
           /\ \A q \in net' : q.lease \in Nat /\ q.call \in 1 .. calls'
           /\ conflicts' \subseteq 1 .. calls'
<1>1. /\ net' = net \ {r}
      /\ reply' = reply \/ reply' = [reply EXCEPT ![r.worker] = a]
      /\ UNCHANGED <<pc, op, call, attempt, held, told, conflicts, calls>>
  BY AnsweredFacts
<1>2. RequestTypes' /\ \A q \in net' : q.lease \in Nat /\ q.call \in 1 .. calls'
  BY <1>1 DEF TypeInv, TypeOK, RequestTypes
<1>3. ReplyTypes'
  BY <1>1 DEF TypeInv, ReplyTypes, Pairs
<1>4. OpTypes' /\ calls' \in Nat
  BY <1>1 DEF TypeInv, OpTypes
<1> QED BY <1>1, <1>2, <1>3, <1>4 DEF TypeInv, TypeOK, Ops, Pairs

LEMMA AnswerTypes ==
    /\ \A code \in Nat : No(code) \in [status : Nat, leased : SUBSET Pairs]
    /\ \A pairs \in SUBSET Pairs : Yes(pairs) \in [status : Nat, leased : SUBSET Pairs]
BY DEF No, Yes

LEMMA DenyTypes == TypeInv /\ DenyStep => TypeInv'
<1> SUFFICES ASSUME TypeInv, NEW r \in net, Deny(r) PROVE TypeInv'
  BY DEF DenyStep
<1>1. PICK code \in {401, 409} : Answered(r, No(code))
  BY DEF Deny
<1>2. UNCHANGED <<status, lease, leases, nonces, effects>>
  BY DEF Deny, inboxVars
<1>3. No(code) \in [status : Nat, leased : SUBSET Pairs]
  BY AnswerTypes
<1>4. /\ RequestTypes' /\ ReplyTypes' /\ OpTypes' /\ calls' \in Nat
      /\ pc' \in [Worker -> {"free", "sending", "waiting", "backoff"}]
      /\ op' \in [Worker -> Ops] /\ told' \subseteq Ops
      /\ call' \in [Worker -> Nat] /\ attempt' \in [Worker -> Nat]
      /\ held' \in [Worker -> SUBSET Pairs]
      /\ \A q \in net' : q.lease \in Nat /\ q.call \in 1 .. calls'
      /\ conflicts' \subseteq 1 .. calls'
  BY <1>1, <1>3, AnsweredTypes
<1>5. leases' \in Nat
  BY <1>2 DEF TypeInv
<1>6. /\ status' \in [Deliveries -> {"queued", "leased", "done"}]
      /\ lease' \in [Deliveries -> 0 .. leases']
      /\ nonces' \subseteq Nat \X Nat
  BY <1>2 DEF TypeInv, TypeOK
<1>7. \A x \in effects' : x.pairs \subseteq Pairs /\ x.call \in 1 .. calls'
  BY <1>1, <1>2, AnsweredFacts DEF TypeInv, TypeOK, Pairs
<1> QED BY <1>4, <1>5, <1>6, <1>7 DEF TypeInv, TypeOK, Ops, Pairs

(* What a claim that finds deliveries does, D being what it leases.        *)
Granted(D) == {[delivery |-> d, lease |-> leases + 1] : d \in D}
Leasing(r, D) ==
    [worker |-> r.worker, call |-> r.call, attempt |-> r.attempt, kind |-> r.kind,
     pairs |-> Granted(D)]

LEMMA ClaimFacts ==
    ASSUME NEW r \in net, ServeClaim(r)
    PROVE  /\ r.kind = "claim" /\ r.nonce \notin nonces
           /\ nonces' = nonces \cup {r.nonce}
           /\ \E D \in SUBSET {d \in Deliveries : status[d] = "queued"} :
                 /\ status' = [d \in Deliveries |-> IF d \in D THEN "leased" ELSE status[d]]
                 /\ lease' = [d \in Deliveries |-> IF d \in D THEN leases + 1 ELSE lease[d]]
                 /\ \/ D = {} /\ UNCHANGED <<leases, effects>>
                    \/ D # {} /\ leases' = leases + 1 /\ effects' = effects \cup {Leasing(r, D)}
                 /\ Answered(r, Yes(Granted(D)))
<1>1. /\ r.kind = "claim" /\ r.nonce \notin nonces
      /\ nonces' = nonces \cup {r.nonce}
  BY DEF ServeClaim, Verified, VerifyAgentProof, Operation
<1>2. PICK D \in SUBSET {d \in Deliveries : status[d] = "queued"} :
          /\ status' = [d \in Deliveries |-> IF d \in D THEN "leased" ELSE status[d]]
          /\ lease' = [d \in Deliveries |-> IF d \in D THEN leases + 1 ELSE lease[d]]
          /\ leases' = IF D = {} THEN leases ELSE leases + 1
          /\ IF D = {} THEN UNCHANGED effects ELSE Effect(r, Granted(D))
          /\ Answered(r, Yes(Granted(D)))
  BY DEF ServeClaim, FreshLease, Granted
<1>3. Effect(r, Granted(D)) => effects' = effects \cup {Leasing(r, D)}
  BY DEF Effect, Leasing
<1> QED BY <1>1, <1>2, <1>3

LEMMA LeaseTypes == TypeInv /\ LeaseStep => TypeInv'
<1> SUFFICES ASSUME TypeInv, NEW r \in net, ServeClaim(r) PROVE TypeInv'
  BY DEF LeaseStep
<1>1. PICK D \in SUBSET {d \in Deliveries : status[d] = "queued"} :
          /\ status' = [d \in Deliveries |-> IF d \in D THEN "leased" ELSE status[d]]
          /\ lease' = [d \in Deliveries |-> IF d \in D THEN leases + 1 ELSE lease[d]]
          /\ \/ D = {} /\ UNCHANGED <<leases, effects>>
             \/ leases' = leases + 1 /\ effects' = effects \cup {Leasing(r, D)}
          /\ Answered(r, Yes(Granted(D)))
  BY ClaimFacts
<1>2. Granted(D) \in SUBSET Pairs
  BY DEF Granted, Pairs, TypeInv
<1>3. Yes(Granted(D)) \in [status : Nat, leased : SUBSET Pairs]
  BY <1>2, AnswerTypes
<1>4. /\ RequestTypes' /\ ReplyTypes' /\ OpTypes' /\ calls' \in Nat
      /\ pc' \in [Worker -> {"free", "sending", "waiting", "backoff"}]
      /\ op' \in [Worker -> Ops] /\ told' \subseteq Ops
      /\ call' \in [Worker -> Nat] /\ attempt' \in [Worker -> Nat]
      /\ held' \in [Worker -> SUBSET Pairs]
      /\ \A q \in net' : q.lease \in Nat /\ q.call \in 1 .. calls'
      /\ conflicts' \subseteq 1 .. calls'
  BY <1>1, <1>3, AnsweredTypes
<1>5. leases' \in Nat /\ status' \in [Deliveries -> {"queued", "leased", "done"}]
  BY <1>1 DEF TypeInv, TypeOK
<1>6. lease' \in [Deliveries -> 0 .. leases']
  BY <1>1 DEF TypeInv, TypeOK
<1>7. nonces' \subseteq Nat \X Nat
  BY ClaimFacts DEF TypeInv, TypeOK, RequestTypes
<1>8. \A x \in effects' : x.pairs \subseteq Pairs /\ x.call \in 1 .. calls'
  <2>1. Leasing(r, D).pairs = Granted(D) /\ Leasing(r, D).call = r.call
    BY DEF Leasing
  <2>2. calls' = calls /\ r.call \in 1 .. calls
    BY <1>1, AnsweredFacts DEF TypeInv, TypeOK
  <2>3. \A x \in effects : x.pairs \subseteq Pairs /\ x.call \in 1 .. calls
    BY DEF TypeInv, TypeOK, Pairs
  <2> QED BY <1>1, <1>2, <2>1, <2>2, <2>3
<1> QED BY <1>4, <1>5, <1>6, <1>7, <1>8 DEF TypeInv, TypeOK, Ops, Pairs

(* What acknowledging or rejecting does: complete the lease, or refuse.    *)
Completion(r) ==
    [worker |-> r.worker, call |-> r.call, attempt |-> r.attempt, kind |-> r.kind,
     pairs |-> {[delivery |-> r.delivery, lease |-> r.lease]}]

LEMMA CompleteFacts ==
    ASSUME TypeInv, NEW r \in net, ServeComplete(r)
    PROVE  /\ r.kind \in {"ack", "reject"} /\ r.lease # 0 /\ r.delivery \in Deliveries
           /\ r.nonce \notin nonces /\ nonces' = nonces \cup {r.nonce}
           /\ leases' = leases
           /\ \/ /\ status[r.delivery] = "leased" /\ lease[r.delivery] = r.lease
                 /\ status' = [status EXCEPT ![r.delivery] =
                                   IF r.kind = "ack" THEN "done" ELSE "queued"]
                 /\ lease' = [lease EXCEPT ![r.delivery] = 0]
                 /\ effects' = effects \cup {Completion(r)}
                 /\ Answered(r, Yes({}))
              \/ Answered(r, No(409)) /\ UNCHANGED <<status, lease, effects>>
<1>1. /\ r.kind # "claim" /\ ~NoLease(r) /\ Verified(r)
      /\ nonces' = nonces \cup {r.nonce} /\ leases' = leases
      /\ IF Holds(r)
         THEN /\ status' = [status EXCEPT ![r.delivery] =
                                IF r.kind = "ack" THEN "done" ELSE "queued"]
              /\ lease' = [lease EXCEPT ![r.delivery] = 0]
              /\ Effect(r, {[delivery |-> r.delivery, lease |-> r.lease]})
              /\ Answered(r, Yes({}))
         ELSE Answered(r, No(409)) /\ UNCHANGED <<status, lease, effects>>
  BY DEF ServeComplete
<1>2. r.kind \in {"ack", "reject"} /\ r.lease # 0 /\ r.delivery \in Deliveries
  BY <1>1 DEF NoLease, TypeInv, RequestTypes
<1>3. r.nonce \notin nonces
  BY <1>1 DEF Verified, VerifyAgentProof, Operation
<1>4. Effect(r, {[delivery |-> r.delivery, lease |-> r.lease]})
      => effects' = effects \cup {Completion(r)}
  BY DEF Effect, Completion
<1>5. Holds(r) <=> status[r.delivery] = "leased" /\ lease[r.delivery] = r.lease
  BY DEF Holds
<1>6. CASE Holds(r)
  BY <1>1, <1>2, <1>3, <1>4, <1>5, <1>6
<1>7. CASE ~Holds(r)
  BY <1>1, <1>2, <1>3, <1>7
<1> QED BY <1>6, <1>7

LEMMA CompleteTypes == TypeInv /\ CompleteStep => TypeInv'
<1> SUFFICES ASSUME TypeInv, NEW r \in net, ServeComplete(r) PROVE TypeInv'
  BY DEF CompleteStep
<1>1. PICK a \in {No(409), Yes({})} : Answered(r, a)
  BY CompleteFacts
<1>2. a \in [status : Nat, leased : SUBSET Pairs]
  BY AnswerTypes
<1>3. /\ RequestTypes' /\ ReplyTypes' /\ OpTypes' /\ calls' \in Nat
      /\ pc' \in [Worker -> {"free", "sending", "waiting", "backoff"}]
      /\ op' \in [Worker -> Ops] /\ told' \subseteq Ops
      /\ call' \in [Worker -> Nat] /\ attempt' \in [Worker -> Nat]
      /\ held' \in [Worker -> SUBSET Pairs]
      /\ \A q \in net' : q.lease \in Nat /\ q.call \in 1 .. calls'
      /\ conflicts' \subseteq 1 .. calls'
  BY <1>1, <1>2, AnsweredTypes
<1>4. /\ leases' \in Nat /\ status' \in [Deliveries -> {"queued", "leased", "done"}]
      /\ lease' \in [Deliveries -> 0 .. leases']
  BY CompleteFacts DEF TypeInv, TypeOK
<1>5. nonces' \subseteq Nat \X Nat
  BY CompleteFacts DEF TypeInv, TypeOK, RequestTypes
<1>6. \A x \in effects' : x.pairs \subseteq Pairs /\ x.call \in 1 .. calls'
  <2>1. /\ Completion(r).pairs = {[delivery |-> r.delivery, lease |-> r.lease]}
        /\ Completion(r).call = r.call
    BY DEF Completion
  <2>2. [delivery |-> r.delivery, lease |-> r.lease] \in Pairs
    BY CompleteFacts DEF TypeInv, TypeOK, Pairs
  <2>3. calls' = calls /\ r.call \in 1 .. calls
    BY <1>1, AnsweredFacts DEF TypeInv, TypeOK
  <2>4. \A x \in effects : x.pairs \subseteq Pairs /\ x.call \in 1 .. calls
    BY DEF TypeInv, TypeOK, Pairs
  <2>5. effects' = effects \/ effects' = effects \cup {Completion(r)}
    BY CompleteFacts
  <2> QED BY <2>1, <2>2, <2>3, <2>4, <2>5
<1> QED BY <1>3, <1>4, <1>5, <1>6 DEF TypeInv, TypeOK, Ops, Pairs

LEMMA ExpireTypes == TypeInv /\ ExpireStep => TypeInv'
BY DEF ExpireStep, Expire, clientVars, TypeInv, TypeOK, RequestTypes, ReplyTypes, OpTypes,
       Ops, Pairs

LEMMA TypeStep == TypeInv /\ [Next]_vars => TypeInv'
<1>1. TypeInv /\ UNCHANGED vars => TypeInv'
  BY DEF vars, clientVars, inboxVars, counters, TypeInv, TypeOK, RequestTypes, ReplyTypes,
         OpTypes, Ops, Pairs
<1> QED BY <1>1, StepKinds, BeginTypes, PostTypes, SettleTypes, BackoffTypes, DenyTypes,
           LeaseTypes, CompleteTypes, ExpireTypes

LEMMA AlwaysTyped == Spec => []TypeInv
BY TypeInit, TypeStep, PTL DEF Spec

(* The state has its type; in particular a worker's lease is one that was  *)
(* handed out, and every request belongs to a call that was made.          *)
THEOREM TypeCorrect == Spec => []TypeOK
<1>1. TypeInv => TypeOK
  BY DEF TypeInv
<1> QED BY <1>1, AlwaysTyped, PTL
-----------------------------------------------------------------------------
(***************************************************************************)
(* One effect per call.  Every attempt of a call carries the call's nonce, *)
(* and the nonce of a call with an effect is consumed: no request of that  *)
(* call still under way can have another.                                  *)
(***************************************************************************)
OnceInv ==
    /\ \A r \in net : r.nonce = <<r.call, 0>>
    /\ \A x \in effects : <<x.call, 0>> \in nonces
    /\ OneEffectPerCall

LEMMA OnceInit == Init => OnceInv
BY DEF Init, OnceInv, OneEffectPerCall

(* What a step does to the requests and to the effects.                    *)
Consumed(r) == r.nonce \notin nonces /\ nonces' = nonces \cup {r.nonce}

LEMMA NetOrEffects ==
    ASSUME TypeInv, [Next]_vars
    PROVE  /\ \/ net' \subseteq net
              \/ \E w \in Worker : Post(w) /\ net' = net \cup {Request(w)}
           /\ \/ effects' = effects /\ nonces \subseteq nonces'
              \/ \E r \in net : \E x : /\ x.call = r.call /\ Consumed(r) /\ ~NoLease(r)
                                     /\ effects' = effects \cup {x}
<1>1. CASE BeginStep \/ BackoffStep \/ ExpireStep \/ UNCHANGED vars
  BY <1>1 DEF BeginStep, Begin, BackoffStep, Backoff, ExpireStep, Expire, inboxVars, vars
<1>2. CASE SettleStep
  <2> SUFFICES ASSUME NEW w \in Worker, NEW o, NEW leased, Settle(w, o, leased)
               PROVE  UNCHANGED <<net, nonces, effects>>
    BY <1>2 DEF SettleStep
  <2> QED BY SettleFacts
<1>3. CASE PostStep
  <2> SUFFICES ASSUME NEW w \in Worker, Post(w)
               PROVE  net' = net \cup {Request(w)} /\ UNCHANGED <<nonces, effects>>
    BY <1>3 DEF PostStep
  <2> QED BY PostFacts
<1>4. CASE DenyStep
  BY <1>4 DEF DenyStep, Deny, Answered, inboxVars
<1>5. CASE LeaseStep
  <2> SUFFICES ASSUME NEW r \in net, ServeClaim(r)
               PROVE  /\ net' \subseteq net /\ Consumed(r) /\ ~NoLease(r)
                      /\ \/ effects' = effects
                         \/ \E x : x.call = r.call /\ effects' = effects \cup {x}
    BY <1>5 DEF LeaseStep, Consumed
  <2>1. Consumed(r) /\ ~NoLease(r)
    BY ClaimFacts DEF Consumed, NoLease
  <2>2. PICK D : /\ effects' = effects \/ effects' = effects \cup {Leasing(r, D)}
                 /\ Answered(r, Yes(Granted(D)))
    BY ClaimFacts
  <2>3. Leasing(r, D).call = r.call
    BY DEF Leasing
  <2> QED BY <2>1, <2>2, <2>3, AnsweredFacts
<1>6. CASE CompleteStep
  <2> SUFFICES ASSUME NEW r \in net, ServeComplete(r)
               PROVE  /\ net' \subseteq net /\ Consumed(r) /\ ~NoLease(r)
                      /\ \/ effects' = effects
                         \/ \E x : x.call = r.call /\ effects' = effects \cup {x}
    BY <1>6 DEF CompleteStep, Consumed
  <2>1. Consumed(r) /\ ~NoLease(r)
    BY CompleteFacts DEF Consumed, NoLease
  <2>2. PICK a : Answered(r, a)
    BY CompleteFacts
  <2>3. effects' = effects \/ effects' = effects \cup {Completion(r)}
    BY CompleteFacts
  <2>4. Completion(r).call = r.call
    BY DEF Completion
  <2> QED BY <2>1, <2>2, <2>3, <2>4, AnsweredFacts
<1> QED BY <1>1, <1>2, <1>3, <1>4, <1>5, <1>6, StepKinds

LEMMA OnceStep == TypeInv /\ OnceInv /\ [Next]_vars => OnceInv'
<1> SUFFICES ASSUME TypeInv, OnceInv, [Next]_vars PROVE OnceInv'
  OBVIOUS
<1>1. \A r \in net' : r.nonce = <<r.call, 0>>
  <2>1. CASE net' \subseteq net
    BY <2>1 DEF OnceInv
  <2>2. ASSUME NEW w \in Worker, net' = net \cup {Request(w)}
        PROVE  \A r \in net' : r.nonce = <<r.call, 0>>
    BY <2>2, RequestFacts DEF OnceInv
  <2> QED BY <2>1, <2>2, NetOrEffects
<1>2. CASE effects' = effects /\ nonces \subseteq nonces'
  BY <1>1, <1>2 DEF OnceInv, OneEffectPerCall
<1>3. ASSUME NEW r \in net, NEW x, x.call = r.call, Consumed(r), effects' = effects \cup {x}
      PROVE  OnceInv'
  <2>1. <<x.call, 0>> \notin nonces /\ nonces' = nonces \cup {<<x.call, 0>>}
    BY <1>3 DEF Consumed, OnceInv
  <2>2. \A y \in effects : y.call # x.call
    BY <2>1 DEF OnceInv
  <2> QED BY <1>1, <1>3, <2>1, <2>2 DEF OnceInv, OneEffectPerCall
<1> QED BY <1>2, <1>3, NetOrEffects

(* However often a call is attempted, and however late its requests reach  *)
(* the inbox, it changes the inbox at most once: every attempt of _post    *)
(* resends the proof, and with it the nonce, it was called with.           *)
THEOREM CallsTakeEffectOnce == Spec => []OneEffectPerCall
<1>1. Spec => []OnceInv
  BY AlwaysTyped, OnceInit, OnceStep, PTL DEF Spec
<1>2. OnceInv => OneEffectPerCall
  BY DEF OnceInv
<1> QED BY <1>1, <1>2, PTL
-----------------------------------------------------------------------------
(***************************************************************************)
(* A conflict is final.  An inbox that answers 409 has either read a       *)
(* request without a lease, as every attempt of that call is, or consumed  *)
(* the nonce of a call without an effect: no attempt under way can change  *)
(* the inbox any more, and a call that has raised makes no other attempt.  *)
(***************************************************************************)
Live(w)  == pc[w] # "free"
Bare(w)  == op[w].kind # "claim" /\ LeaseField(SdkOf[w], op[w].lease) = 0
Idle(c)  == \A x \in effects : x.call # c
Spent(c) == Idle(c) /\ (<<c, 0>> \in nonces \/ \A r \in net : r.call = c => NoLease(r))

CallsInv ==     \* live calls are not each other's, and none has ended
    /\ \A v, w \in Worker : Live(v) /\ Live(w) /\ call[v] = call[w] => v = w
    /\ \A w \in Worker : Live(w) => call[w] \notin conflicts
BareInv ==      \* the attempts of a live call all carry a lease, or none does
    \A w \in Worker : Live(w) =>
        /\ \A r \in net : r.call = call[w] => (NoLease(r) <=> Bare(w))
        /\ \A x \in effects : x.call = call[w] => ~Bare(w)
SpentInv ==     \* a call that is told 409, or was, is spent
    /\ \A w \in Worker : reply[w].status = 409 => pc[w] = "waiting" /\ Spent(call[w])
    /\ \A c \in conflicts : Spent(c)
FinalInv == CallsInv /\ BareInv /\ SpentInv

LEMMA FinalInit == Init => FinalInv
BY DEF Init, FinalInv, CallsInv, BareInv, SpentInv, Live, NoReply

LEMMA CallsStep == TypeInv /\ CallsInv /\ [Next]_vars => CallsInv'
<1> SUFFICES ASSUME TypeInv, CallsInv, [Next]_vars PROVE CallsInv'
  OBVIOUS
<1>1. CASE BeginStep
  <2> SUFFICES ASSUME NEW w \in Worker, NEW o, Begin(w, o) PROVE CallsInv'
    BY <1>1 DEF BeginStep
  <2>1. /\ call' = [call EXCEPT ![w] = calls + 1] /\ pc' = [pc EXCEPT ![w] = "sending"]
        /\ conflicts' = conflicts
    BY DEF Begin
  <2>2. \A v \in Worker : Live(v) => call[v] \in 1 .. calls
    BY DEF TypeInv, OpTypes, Live
  <2>3. calls + 1 \notin 1 .. calls /\ conflicts \subseteq 1 .. calls
    BY DEF TypeInv, TypeOK
  <2>4. \A v \in Worker : v # w => pc'[v] = pc[v] /\ call'[v] = call[v]
    BY <2>1 DEF TypeInv, TypeOK
  <2>5. call'[w] = calls + 1
    BY <2>1 DEF TypeInv, TypeOK
  <2> QED BY <2>1, <2>2, <2>3, <2>4, <2>5 DEF CallsInv, Live
<1>2. CASE PostStep
  <2>1. PICK w \in Worker : Post(w)
    BY <1>2 DEF PostStep
  <2>2. /\ pc[w] = "sending" /\ pc' = [pc EXCEPT ![w] = "waiting"]
        /\ UNCHANGED <<call, conflicts>>
    BY <2>1, PostFacts
  <2>3. \A v \in Worker : (pc'[v] = "free") <=> (pc[v] = "free")
    BY <2>2 DEF TypeInv, TypeOK
  <2> QED BY <2>2, <2>3 DEF CallsInv, Live
<1>3. CASE SettleStep
  <2> SUFFICES ASSUME NEW w \in Worker, NEW o, NEW leased,
                      pc[w] # "free", Settle(w, o, leased)
               PROVE  CallsInv'
    BY <1>3 DEF SettleStep
  <2>1. /\ call' = call
        /\ \E p \in {"free", "backoff"} : pc' = [pc EXCEPT ![w] = p]
        /\ \/ conflicts' = conflicts
           \/ /\ conflicts' = conflicts \cup {call[w]}
              /\ pc' = [pc EXCEPT ![w] = "free"]
    BY SettleFacts
  <2>2. \A v \in Worker : v # w => pc'[v] = pc[v]
    BY <2>1 DEF TypeInv, TypeOK
  <2>3. conflicts' = conflicts \/ (conflicts' = conflicts \cup {call[w]} /\ pc'[w] = "free")
    BY <2>1 DEF TypeInv, TypeOK
  <2> QED BY <2>1, <2>2, <2>3 DEF CallsInv, Live
<1>4. CASE BackoffStep
  <2>1. PICK w \in Worker : Backoff(w)
    BY <1>4 DEF BackoffStep
  <2>2. \A v \in Worker : (pc'[v] = "free") <=> (pc[v] = "free")
    BY <2>1 DEF Backoff, TypeInv, TypeOK
  <2> QED BY <2>1, <2>2 DEF Backoff, CallsInv, Live
<1>5. CASE DenyStep \/ LeaseStep \/ CompleteStep \/ ExpireStep \/ UNCHANGED vars
  BY <1>5, InboxLeavesClient DEF CallsInv, Live
<1> QED BY <1>1, <1>2, <1>3, <1>4, <1>5, StepKinds

(* Steps that are not Begin leave every call that stays alive as it was.   *)
LEMMA LiveStays ==
    ASSUME TypeInv, [Next]_vars, ~BeginStep, NEW w \in Worker, Live(w)'
    PROVE  Live(w) /\ call'[w] = call[w] /\ op'[w] = op[w]
<1>1. CASE PostStep
  BY <1>1 DEF PostStep, Post, Live, TypeInv, TypeOK
<1>2. CASE SettleStep
  <2> SUFFICES ASSUME NEW v \in Worker, NEW o, NEW leased,
                      pc[v] # "free", Settle(v, o, leased)
               PROVE  Live(w) /\ UNCHANGED <<call, op>>
    BY <1>2 DEF SettleStep
  <2> QED BY SettleFacts DEF Live, TypeInv, TypeOK
<1>3. CASE BackoffStep
  BY <1>3 DEF BackoffStep, Backoff, Live, TypeInv, TypeOK
<1>4. CASE DenyStep \/ LeaseStep \/ CompleteStep \/ ExpireStep \/ UNCHANGED vars
  BY <1>4, InboxLeavesClient DEF Live
<1> QED BY <1>1, <1>2, <1>3, <1>4, StepKinds

LEMMA BareStep == TypeInv /\ CallsInv /\ BareInv /\ [Next]_vars => BareInv'
<1> SUFFICES ASSUME TypeInv, CallsInv, BareInv, [Next]_vars PROVE BareInv'
  OBVIOUS
<1>1. CASE BeginStep
  <2> SUFFICES ASSUME NEW w \in Worker, NEW o, Begin(w, o) PROVE BareInv'
    BY <1>1 DEF BeginStep
  <2>1. /\ call' = [call EXCEPT ![w] = calls + 1] /\ pc' = [pc EXCEPT ![w] = "sending"]
        /\ op' = [op EXCEPT ![w] = o] /\ UNCHANGED <<net, effects>>
    BY DEF Begin, inboxVars
  <2>2. \A v \in Worker : v # w => pc'[v] = pc[v] /\ call'[v] = call[v] /\ op'[v] = op[v]
    BY <2>1 DEF TypeInv, TypeOK
  <2>3. call'[w] = calls + 1
    BY <2>1 DEF TypeInv, TypeOK
  <2>4. /\ \A r \in net : r.call # calls + 1
        /\ \A x \in effects : x.call # calls + 1
    BY DEF TypeInv, TypeOK
  <2> QED BY <2>1, <2>2, <2>3, <2>4 DEF BareInv, Live, Bare, NoLease
<1>2. ASSUME ~BeginStep, NEW w \in Worker, Live(w)'
      PROVE  /\ \A r \in net' : r.call = call'[w] => (NoLease(r) <=> Bare(w)')
             /\ \A x \in effects' : x.call = call'[w] => ~Bare(w)'
  <2>1. Live(w) /\ call'[w] = call[w] /\ op'[w] = op[w] /\ (Bare(w)' <=> Bare(w))
    BY <1>2, LiveStays DEF Bare
  <2>2. ASSUME NEW v \in Worker, Post(v), net' = net \cup {Request(v)}, v = w
        PROVE  NoLease(Request(v)) <=> Bare(w)
    BY <2>2 DEF Request, NoLease, Bare
  <2>3. ASSUME NEW v \in Worker, Post(v), Request(v).call = call[w] PROVE v = w
    BY <2>1, <2>3, PostFacts, RequestFacts DEF CallsInv, Live
  <2>4. \A r \in net' : r.call = call'[w] => (NoLease(r) <=> Bare(w))
    BY <2>1, <2>2, <2>3, NetOrEffects DEF BareInv
  <2>5. \A x \in effects' : x.call = call'[w] => ~Bare(w)
    BY <2>1, NetOrEffects DEF BareInv
  <2> QED BY <2>1, <2>4, <2>5
<1>3. CASE ~BeginStep
  BY <1>2, <1>3 DEF BareInv, Live, NoLease
<1> QED BY <1>1, <1>3

(* A spent call stays so while it makes no other attempt.                  *)
LEMMA SpentStays ==
    ASSUME TypeInv, OnceInv, [Next]_vars, NEW c, Spent(c),
           \A w \in Worker : Post(w) => call[w] # c
    PROVE  Spent(c)'
<1>1. \A r \in net' : r.call = c => r \in net
  BY NetOrEffects, RequestFacts
<1>2. CASE effects' = effects /\ nonces \subseteq nonces'
  BY <1>1, <1>2 DEF Spent, Idle, NoLease
<1>3. ASSUME NEW r \in net, NEW x, x.call = r.call, Consumed(r), ~NoLease(r),
             effects' = effects \cup {x}
      PROVE  Spent(c)'
  <2>1. r.call # c
    BY <1>3 DEF Spent, Consumed, OnceInv
  <2> QED BY <1>1, <1>3, <2>1 DEF Spent, Idle, Consumed, NoLease
<1> QED BY <1>2, <1>3, NetOrEffects

(* An answer a to a request r, where a 409 leaves the call of r spent.     *)
LEMMA SpentAnswered ==
    ASSUME TypeInv, OnceInv, CallsInv, SpentInv, [Next]_vars,
           NEW r \in net, NEW a, Answered(r, a),
           a.status = 409 /\ Waiting(r) => Spent(r.call)'
    PROVE  SpentInv'
<1>1. /\ UNCHANGED <<pc, call, conflicts>>
      /\ reply' = reply \/ (Waiting(r) /\ reply' = [reply EXCEPT ![r.worker] = a])
  BY AnsweredFacts
<1>2. \A w \in Worker : ~Post(w)
  <2> SUFFICES ASSUME NEW w \in Worker, Post(w) PROVE FALSE
    OBVIOUS
  <2>1. pc[w] = "sending" /\ pc' = [pc EXCEPT ![w] = "waiting"] /\ pc' = pc
    BY <1>1, PostFacts
  <2> QED BY <2>1 DEF TypeInv, TypeOK
<1>3. \A c : Spent(c) => Spent(c)'
  BY <1>2, SpentStays
<1>4. \A w \in Worker : reply'[w] = reply[w]
                        \/ (Waiting(r) /\ w = r.worker /\ reply'[w] = a)
  BY <1>1 DEF TypeInv, ReplyTypes
<1>5. Waiting(r) => call[r.worker] = r.call /\ pc[r.worker] = "waiting"
  BY DEF Waiting
<1>6. ASSUME NEW w \in Worker, reply'[w].status = 409
      PROVE  pc[w] = "waiting" /\ \A c : c = call[w] => Spent(c)'
  BY <1>3, <1>4, <1>5, <1>6 DEF SpentInv
<1> QED BY <1>1, <1>3, <1>6 DEF SpentInv

LEMMA SpentStep == TypeInv /\ OnceInv /\ FinalInv /\ [Next]_vars => SpentInv'
<1> SUFFICES ASSUME TypeInv, OnceInv, CallsInv, BareInv, SpentInv, [Next]_vars
             PROVE  SpentInv'
  BY DEF FinalInv
<1>0. ASSUME NEW c, Spent(c), \A w \in Worker : Post(w) => call[w] # c PROVE Spent(c)'
  BY <1>0, SpentStays
<1>1. \A c \in conflicts : Spent(c)'
  <2> SUFFICES ASSUME NEW c \in conflicts PROVE Spent(c)'
    OBVIOUS
  <2>1. \A w \in Worker : Post(w) => call[w] # c
    BY PostFacts DEF CallsInv, Live
  <2> QED BY <1>0, <2>1 DEF SpentInv
<1>2. ASSUME NEW w \in Worker, reply[w].status = 409
      PROVE  pc[w] = "waiting" /\ \A c : c = call[w] => Spent(c)'
  <2>1. \A v \in Worker : Post(v) => call[v] # call[w]
    BY <1>2, PostFacts DEF CallsInv, SpentInv, Live
  <2>2. pc[w] = "waiting" /\ Spent(call[w])
    BY <1>2 DEF SpentInv
  <2> QED BY <1>0, <2>1, <2>2
<1>3. CASE BeginStep \/ BackoffStep
  <2>1. UNCHANGED <<conflicts, reply>>
    BY <1>3 DEF BeginStep, Begin, BackoffStep, Backoff
  <2>2. \A w \in Worker : pc[w] = "waiting" => pc'[w] = "waiting" /\ call'[w] = call[w]
    BY <1>3 DEF BeginStep, Begin, BackoffStep, Backoff, TypeInv, TypeOK
  <2> QED BY <1>1, <1>2, <2>1, <2>2 DEF SpentInv
<1>4. CASE PostStep
  <2> SUFFICES ASSUME NEW w \in Worker, Post(w) PROVE SpentInv'
    BY <1>4 DEF PostStep
  <2>1. pc[w] = "sending" /\ pc' = [pc EXCEPT ![w] = "waiting"]
        /\ UNCHANGED <<call, conflicts, reply>>
    BY PostFacts
  <2> QED BY <1>1, <1>2, <2>1 DEF SpentInv, TypeInv, TypeOK
<1>5. CASE SettleStep
  <2> SUFFICES ASSUME NEW w \in Worker, NEW o, NEW leased, Settle(w, o, leased),
                      o.status = 409 => pc[w] = "waiting" /\ o.status = reply[w].status
               PROVE  SpentInv'
    BY <1>5 DEF SettleStep
  <2>1. /\ call' = call
        /\ \E p \in {"free", "backoff"} : pc' = [pc EXCEPT ![w] = p]
        /\ reply' = [reply EXCEPT ![w] = NoReply]
        /\ \/ conflicts' = conflicts
           \/ conflicts' = conflicts \cup {call[w]} /\ o.status = 409
    BY SettleFacts
  <2>2. \A v \in Worker : v # w => pc'[v] = pc[v]
    BY <2>1 DEF TypeInv, TypeOK
  <2>3. \A v \in Worker : reply'[v].status = 409 => v # w /\ reply'[v] = reply[v]
    BY <2>1 DEF TypeInv, ReplyTypes, NoReply
  <2>4. \A c \in conflicts' : Spent(c)'
    BY <1>1, <1>2, <2>1
  <2> QED BY <1>2, <2>1, <2>2, <2>3, <2>4 DEF SpentInv
<1>6. CASE DenyStep
  <2> SUFFICES ASSUME NEW r \in net, Deny(r) PROVE SpentInv'
    BY <1>6 DEF DenyStep
  <2>1. UNCHANGED <<nonces, effects>> /\ \A code : No(code).status = code
    BY DEF Deny, inboxVars, No
  <2>2. CASE NoLease(r) /\ Answered(r, No(409))
    <3>1. ASSUME Waiting(r) PROVE Spent(r.call)'
      <4>1. r.worker \in Worker /\ Live(r.worker) /\ call[r.worker] = r.call
        BY <3>1 DEF Waiting, Live, TypeInv, RequestTypes
      <4>2. Bare(r.worker)
        BY <2>2, <4>1 DEF BareInv
      <4>3. Idle(r.call) /\ \A q \in net : q.call = r.call => NoLease(q)
        BY <4>1, <4>2 DEF BareInv, Idle
      <4>4. net' = net \ {r}
        BY <2>2, AnsweredFacts
      <4> QED BY <2>1, <4>3, <4>4 DEF Spent, Idle, NoLease
    <3> QED BY <2>2, <3>1, SpentAnswered
  <2>3. CASE Answered(r, No(401))
    BY <2>1, <2>3, SpentAnswered
  <2> QED BY <2>2, <2>3 DEF Deny
<1>7. CASE LeaseStep
  <2>1. PICK r \in net : \E pairs : Answered(r, Yes(pairs))
    BY <1>7, ClaimFacts DEF LeaseStep
  <2>2. \A pairs : Yes(pairs).status # 409
    BY DEF Yes
  <2> QED BY <2>1, <2>2, SpentAnswered
<1>8. CASE CompleteStep
  <2> SUFFICES ASSUME NEW r \in net, ServeComplete(r) PROVE SpentInv'
    BY <1>8 DEF CompleteStep
  <2>1. CASE Answered(r, Yes({}))
    <3>1. Yes({}).status # 409
      BY DEF Yes
    <3> QED BY <2>1, <3>1, SpentAnswered
  <2>2. CASE Answered(r, No(409)) /\ effects' = effects
    <3>1. r.nonce = <<r.call, 0>> /\ r.nonce \notin nonces
          /\ nonces' = nonces \cup {r.nonce}
      BY CompleteFacts DEF OnceInv
    <3>2. Spent(r.call)'
      BY <2>2, <3>1 DEF Spent, Idle, OnceInv
    <3> QED BY <2>2, <3>2, SpentAnswered
  <2> QED BY <2>1, <2>2, CompleteFacts
<1>9. CASE ExpireStep \/ UNCHANGED vars
  <2>1. UNCHANGED <<pc, call, reply, conflicts>>
    BY <1>9 DEF ExpireStep, Expire, clientVars, vars
  <2> QED BY <1>1, <1>2, <2>1 DEF SpentInv
<1> QED BY <1>3, <1>4, <1>5, <1>6, <1>7, <1>8, <1>9, StepKinds

(* A method that raises an error of status 409 has changed nothing in the  *)
(* inbox, and no attempt of it that is still under way ever will: for each *)
(* of them carries the one nonce of the call.                              *)
THEOREM ConflictsAreFinal == Spec => []ConflictIsFinal
<1>1. TypeInv /\ OnceInv /\ FinalInv /\ [Next]_vars => FinalInv'
  BY CallsStep, BareStep, SpentStep DEF FinalInv
<1>2. Spec => [](TypeInv /\ OnceInv /\ FinalInv)
  BY <1>1, AlwaysTyped, OnceInit, OnceStep, FinalInit, PTL DEF Spec
<1>3. FinalInv => ConflictIsFinal
  BY DEF FinalInv, SpentInv, Spent, Idle, ConflictIsFinal
<1> QED BY <1>2, <1>3, PTL
-----------------------------------------------------------------------------
(***************************************************************************)
(* Who holds what.  A worker knows a lease only from the answer to a claim *)
(* of its own, and completes only leases it knows.                         *)
(***************************************************************************)
Owned(w, h) == \E c \in Claims : h \in c.pairs /\ c.worker = w
OwnInv ==
    /\ \A w \in Worker : \A h \in held[w] \cup reply[w].leased : Owned(w, h)
    /\ \A w \in Worker : op[w].kind # "claim" => Owned(w, Lease(w))
    /\ \A r \in net : r.kind # "claim" /\ r.lease # 0 =>
                         Owned(r.worker, [delivery |-> r.delivery, lease |-> r.lease])

LEMMA EffectsGrow == TypeInv /\ [Next]_vars => effects \subseteq effects'
BY NetOrEffects

LEMMA OwnedStays ==
    ASSUME TypeInv, [Next]_vars, NEW w, NEW h, Owned(w, h) PROVE Owned(w, h)'
BY EffectsGrow DEF Owned, Claims

LEMMA OwnInit == Init => OwnInv
BY DEF Init, OwnInv, NoReply, Claiming

LEMMA OwnStep == TypeInv /\ OwnInv /\ [Next]_vars => OwnInv'
<1> SUFFICES ASSUME TypeInv, OwnInv, [Next]_vars PROVE OwnInv'
  OBVIOUS
<1> DEFINE Known1 == \A w \in Worker : \A h \in held[w] \cup reply[w].leased : Owned(w, h)
           Known2 == \A w \in Worker : op[w].kind # "claim" => Owned(w, Lease(w))
           Known3 == \A r \in net : r.kind # "claim" /\ r.lease # 0 =>
                        Owned(r.worker, [delivery |-> r.delivery, lease |-> r.lease])
<1>0. \A w, h : Owned(w, h) => Owned(w, h)'
  BY OwnedStays
<1>1. CASE BeginStep
  <2> SUFFICES ASSUME NEW w \in Worker,
                      NEW o \in {Claiming} \cup UNION {Completing(h) : h \in held[w]},
                      Begin(w, o)
               PROVE  OwnInv'
    BY <1>1 DEF BeginStep
  <2>1. UNCHANGED <<held, net, reply>> /\ op' = [op EXCEPT ![w] = o]
    BY DEF Begin
  <2>2. o.kind # "claim" => Owned(w, [delivery |-> o.delivery, lease |-> o.lease])
    <3>1. CASE o = Claiming
      BY <3>1 DEF Claiming
    <3>2. ASSUME NEW h \in held[w], o \in Completing(h)
          PROVE  Owned(w, [delivery |-> o.delivery, lease |-> o.lease])
      <4>1. o.delivery = h.delivery /\ o.lease = h.lease
        BY <3>2 DEF Completing
      <4>2. h \in Pairs /\ Owned(w, h)
        BY DEF OwnInv, TypeInv, TypeOK, Pairs
      <4>3. h = [delivery |-> h.delivery, lease |-> h.lease]
        BY <4>2 DEF Pairs
      <4> QED BY <4>1, <4>2, <4>3, Zenon
    <3> QED BY <3>1, <3>2
  <2>3. Known2'
    <3> SUFFICES ASSUME NEW v \in Worker, (op[v].kind # "claim")'
                 PROVE  Owned(v, [delivery |-> op'[v].delivery, lease |-> op'[v].lease])
      BY <1>0 DEF Lease
    <3>1. CASE v = w
      BY <2>1, <2>2, <3>1 DEF TypeInv, TypeOK
    <3>2. CASE v # w
      BY <2>1, <3>2 DEF TypeInv, TypeOK, OwnInv, Lease
    <3> QED BY <3>1, <3>2
  <2> QED BY <1>0, <2>1, <2>3 DEF OwnInv
<1>2. CASE PostStep
  <2> SUFFICES ASSUME NEW w \in Worker, Post(w) PROVE OwnInv'
    BY <1>2 DEF PostStep
  <2>1. UNCHANGED <<held, reply, op>> /\ net' = net \cup {Request(w)}
    BY PostFacts
  <2>2. PICK q : q = Request(w)
    OBVIOUS
  <2>3. q.kind # "claim" /\ q.lease # 0 =>
           Owned(q.worker, [delivery |-> q.delivery, lease |-> q.lease])
    BY <2>2, RequestFacts DEF OwnInv, Lease
  <2>4. Known3'
    BY <1>0, <2>1, <2>2, <2>3 DEF OwnInv
  <2> QED BY <1>0, <2>1, <2>4 DEF OwnInv, Lease
<1>3. CASE SettleStep
  <2> SUFFICES ASSUME NEW w \in Worker, NEW o, NEW leased \in {{}, reply[w].leased},
                      Settle(w, o, leased)
               PROVE  OwnInv'
    BY <1>3 DEF SettleStep
  <2>1. UNCHANGED <<op, net>> /\ reply' = [reply EXCEPT ![w] = NoReply]
    BY SettleFacts
  <2>2. PICK k : k \subseteq held[w] \cup leased /\ held' = [held EXCEPT ![w] = k]
    BY SettleFacts, SMTT(40)
  <2>3. Known1'
    <3>1. k \subseteq held[w] \cup reply[w].leased
      BY <2>2
    <3>2. \A v \in Worker : held'[v] \cup reply'[v].leased \subseteq held[v] \cup reply[v].leased
      BY <2>1, <2>2, <3>1 DEF TypeInv, TypeOK, ReplyTypes, NoReply
    <3> QED BY <1>0, <3>2 DEF OwnInv
  <2> QED BY <1>0, <2>1, <2>3 DEF OwnInv, Lease
<1>4. CASE BackoffStep
  BY <1>0, <1>4 DEF BackoffStep, Backoff, OwnInv, Lease
<1>5. ASSUME NEW r \in net, NEW a, Answered(r, a), \A h \in a.leased : Owned(r.worker, h)'
      PROVE  OwnInv'
  <2>1. /\ net' \subseteq net /\ UNCHANGED <<held, op>>
        /\ reply' = reply \/ reply' = [reply EXCEPT ![r.worker] = a]
    BY <1>5, AnsweredFacts
  <2>2. Known1'
    BY <1>0, <1>5, <2>1 DEF OwnInv, TypeInv, ReplyTypes
  <2> QED BY <1>0, <2>1, <2>2 DEF OwnInv, Lease
<1>6. CASE DenyStep
  <2>1. PICK r \in net : \E code \in {401, 409} : Answered(r, No(code))
    BY <1>6 DEF DenyStep, Deny
  <2> QED BY <1>5, <2>1 DEF No
<1>7. CASE LeaseStep
  <2> SUFFICES ASSUME NEW r \in net, ServeClaim(r) PROVE OwnInv'
    BY <1>7 DEF LeaseStep
  <2>1. PICK D : /\ \/ D = {}
                    \/ effects' = effects \cup {Leasing(r, D)}
                 /\ Answered(r, Yes(Granted(D)))
    BY ClaimFacts
  <2>2. /\ Leasing(r, D).kind = "claim" /\ Leasing(r, D).worker = r.worker
        /\ Leasing(r, D).pairs = Granted(D)
    BY ClaimFacts DEF Leasing
  <2>3. \A h \in Granted(D) : Owned(r.worker, h)'
    BY <2>1, <2>2 DEF Owned, Claims, Granted
  <2> QED BY <1>5, <2>1, <2>3 DEF Yes
<1>8. CASE CompleteStep
  <2>1. PICK r \in net : \E a \in {No(409), Yes({})} : Answered(r, a)
    BY <1>8, CompleteFacts DEF CompleteStep
  <2> QED BY <1>5, <2>1 DEF No, Yes
<1>9. CASE ExpireStep \/ UNCHANGED vars
  BY <1>0, <1>9 DEF ExpireStep, Expire, clientVars, vars, OwnInv, Lease
<1> QED BY <1>1, <1>2, <1>3, <1>4, <1>6, <1>7, <1>8, <1>9, StepKinds
-----------------------------------------------------------------------------
(***************************************************************************)
(* What the inbox does to leases.  A number is granted to one claim; while *)
(* a delivery is leased, its current lease is the latest it was granted.   *)
(***************************************************************************)
GrantInv ==
    /\ \A c \in Claims : \A g \in c.pairs :
          /\ g.delivery \in Deliveries /\ g.lease \in 1 .. leases
          /\ status[g.delivery] = "leased" => g.lease <= lease[g.delivery]
    /\ \A c, e \in Claims : \A g \in c.pairs : \A f \in e.pairs :
          g.lease = f.lease => c = e

(* A step of the inbox grants, completes, expires, or leaves it alone.     *)
Grants ==
    \E r \in net : \E D \in SUBSET {d \in Deliveries : status[d] = "queued"} :
        /\ D # {}
        /\ status' = [d \in Deliveries |-> IF d \in D THEN "leased" ELSE status[d]]
        /\ lease' = [d \in Deliveries |-> IF d \in D THEN leases + 1 ELSE lease[d]]
        /\ leases' = leases + 1 /\ effects' = effects \cup {Leasing(r, D)}
        /\ r.kind = "claim"
Completes ==
    \E r \in net :
        /\ r.kind \in {"ack", "reject"} /\ r.delivery \in Deliveries /\ r.lease # 0
        /\ status[r.delivery] = "leased" /\ lease[r.delivery] = r.lease
        /\ status' = [status EXCEPT ![r.delivery] =
                          IF r.kind = "ack" THEN "done" ELSE "queued"]
        /\ lease' = [lease EXCEPT ![r.delivery] = 0]
        /\ leases' = leases /\ effects' = effects \cup {Completion(r)}
Expires ==
    \E d \in Deliveries :
        /\ status[d] = "leased" /\ status' = [status EXCEPT ![d] = "queued"]
        /\ lease' = [lease EXCEPT ![d] = 0]
        /\ UNCHANGED <<leases, effects>>
Untouched == UNCHANGED <<status, lease, leases, effects>>

LEMMA InboxSteps ==
    ASSUME TypeInv, [Next]_vars PROVE Grants \/ Completes \/ Expires \/ Untouched
<1>1. CASE ClientStep \/ DenyStep \/ UNCHANGED vars
  BY <1>1, ClientLeavesInbox DEF Untouched, inboxVars, DenyStep, Deny
<1>2. CASE LeaseStep
  <2> SUFFICES ASSUME NEW r \in net, ServeClaim(r) PROVE Grants \/ Untouched
    BY <1>2 DEF LeaseStep
  <2>1. PICK D \in SUBSET {d \in Deliveries : status[d] = "queued"} :
          /\ status' = [d \in Deliveries |-> IF d \in D THEN "leased" ELSE status[d]]
          /\ lease' = [d \in Deliveries |-> IF d \in D THEN leases + 1 ELSE lease[d]]
          /\ \/ D = {} /\ UNCHANGED <<leases, effects>>
             \/ D # {} /\ leases' = leases + 1 /\ effects' = effects \cup {Leasing(r, D)}
    BY ClaimFacts
  <2>2. CASE D # {} /\ leases' = leases + 1 /\ effects' = effects \cup {Leasing(r, D)}
    BY <2>1, <2>2, ClaimFacts DEF Grants
  <2>3. CASE D = {} /\ UNCHANGED <<leases, effects>>
    BY <2>1, <2>3 DEF Untouched, TypeInv, TypeOK
  <2> QED BY <2>1, <2>2, <2>3
<1>3. CASE CompleteStep
  <2> SUFFICES ASSUME NEW r \in net, ServeComplete(r) PROVE Completes \/ Untouched
    BY <1>3 DEF CompleteStep
  <2> QED BY CompleteFacts DEF Completes, Untouched
<1>4. CASE ExpireStep
  BY <1>4 DEF ExpireStep, Expire, Expires
<1> QED BY <1>1, <1>2, <1>3, <1>4, StepKinds DEF ClientStep

LEMMA GrantInit == Init => GrantInv
BY DEF Init, GrantInv, Claims

LEMMA GrantStep == TypeInv /\ GrantInv /\ [Next]_vars => GrantInv'
<1> SUFFICES ASSUME TypeInv, GrantInv, [Next]_vars PROVE GrantInv'
  OBVIOUS
<1>1. CASE Grants
  <2>1. PICK r \in net, D \in SUBSET {d \in Deliveries : status[d] = "queued"} :
          /\ status' = [d \in Deliveries |-> IF d \in D THEN "leased" ELSE status[d]]
          /\ lease' = [d \in Deliveries |-> IF d \in D THEN leases + 1 ELSE lease[d]]
          /\ leases' = leases + 1 /\ effects' = effects \cup {Leasing(r, D)}
          /\ r.kind = "claim"
    BY <1>1 DEF Grants
  <2>2. /\ Leasing(r, D).pairs = Granted(D) /\ Claims' = Claims \cup {Leasing(r, D)}
    BY <2>1 DEF Leasing, Claims
  <2>3. \A g \in Granted(D) : /\ g.delivery \in D /\ g.lease = leases + 1
    BY DEF Granted
  <2>4. \A c \in Claims : \A g \in c.pairs :
           g.delivery \in Deliveries /\ g.lease \in 1 .. leases /\ g.lease # leases + 1
    BY DEF GrantInv, TypeInv
  <2>5. \A c \in Claims' : \A g \in c.pairs :
           g.delivery \in Deliveries /\ g.lease \in 1 .. leases'
    BY <2>1, <2>2, <2>3, <2>4 DEF TypeInv
  <2>6. ASSUME NEW c \in Claims', NEW g \in c.pairs, status'[g.delivery] = "leased"
        PROVE  g.lease <= lease'[g.delivery]
    <3>1. CASE g.delivery \in D
      BY <2>1, <2>5, <3>1 DEF TypeInv
    <3>2. CASE g.delivery \notin D
      BY <2>1, <2>2, <2>3, <2>4, <2>6, <3>2 DEF GrantInv
    <3> QED BY <3>1, <3>2
  <2>7. \A c, e \in Claims' : \A g \in c.pairs : \A f \in e.pairs :
           g.lease = f.lease => c = e
    BY <2>2, <2>3, <2>4 DEF GrantInv
  <2> QED BY <2>5, <2>6, <2>7 DEF GrantInv
<1>2. CASE Completes
  <2>1. PICK r \in net :
          /\ r.kind \in {"ack", "reject"} /\ r.delivery \in Deliveries
          /\ status' = [status EXCEPT ![r.delivery] =
                            IF r.kind = "ack" THEN "done" ELSE "queued"]
          /\ lease' = [lease EXCEPT ![r.delivery] = 0]
          /\ leases' = leases /\ effects' = effects \cup {Completion(r)}
    BY <1>2 DEF Completes
  <2>2. Claims' = Claims
    BY <2>1 DEF Completion, Claims
  <2>3. \A d \in Deliveries : status'[d] = "leased" => status[d] = "leased" /\ lease'[d] = lease[d]
    BY <2>1 DEF TypeInv, TypeOK
  <2> QED BY <2>1, <2>2, <2>3 DEF GrantInv
<1>3. CASE Expires
  <2>1. \A d \in Deliveries : status'[d] = "leased" => status[d] = "leased" /\ lease'[d] = lease[d]
    BY <1>3 DEF Expires, TypeInv, TypeOK
  <2> QED BY <1>3, <2>1 DEF Expires, GrantInv, Claims
<1>4. CASE Untouched
  BY <1>4 DEF Untouched, GrantInv, Claims
<1> QED BY <1>1, <1>2, <1>3, <1>4, InboxSteps

LEMMA AlwaysLeased == Spec => [](TypeInv /\ OwnInv /\ GrantInv)
BY AlwaysTyped, OwnInit, OwnStep, GrantInit, GrantStep, PTL DEF Spec

-----------------------------------------------------------------------------
(***************************************************************************)
(* What callers are told.  The answer a waiting worker gets is the answer  *)
(* to a request of its present call, and a request is for the delivery and *)
(* lease of the call, or leaves the lease out and is denied.               *)
(***************************************************************************)
Done(t) == \E x \in Completions :
              x.kind = t.kind /\ x.pairs = {[delivery |-> t.delivery, lease |-> t.lease]}
Matches(r, o) == r.kind = o.kind /\ r.delivery = o.delivery /\ r.lease \in {0, o.lease}
ToldInv ==
    /\ \A w \in Worker : pc[w] # "waiting" => reply[w] = NoReply
    /\ \A r \in net : r.call = call[r.worker] => Matches(r, op[r.worker])
    /\ \A w \in Worker : reply[w].status = 200 /\ op[w].kind # "claim" => Done(op[w])
    /\ ToldTruthful

LEMMA DoneStays ==
    ASSUME TypeInv, [Next]_vars, NEW t, Done(t) PROVE Done(t)'
BY EffectsGrow DEF Done, Completions

LEMMA ToldInit == Init => ToldInv
BY DEF Init, ToldInv, ToldTruthful, NoReply

(* An answer to a request r, truthful if r completed a lease.              *)
LEMMA ToldAnswered ==
    ASSUME TypeInv, ToldInv, [Next]_vars, NEW r \in net, NEW a, Answered(r, a),
           a.status = 200 /\ r.kind # "claim" =>
               r.lease # 0 /\ (Done([kind |-> r.kind, delivery |-> r.delivery,
                                    lease |-> r.lease]))'
    PROVE  ToldInv'
<1>1. /\ net' \subseteq net /\ UNCHANGED <<pc, op, call, told>>
      /\ reply' = reply \/ (Waiting(r) /\ reply' = [reply EXCEPT ![r.worker] = a])
  BY AnsweredFacts
<1>2. \A t : Done(t) => Done(t)'
  BY DoneStays
<1>3. ToldTruthful'
  BY <1>1, <1>2 DEF ToldInv, ToldTruthful, Done
<1>4. CASE reply' = reply
  BY <1>1, <1>2, <1>3, <1>4 DEF ToldInv, Matches
<1>5. CASE Waiting(r) /\ reply' = [reply EXCEPT ![r.worker] = a]
  <2>1. pc[r.worker] = "waiting" /\ Matches(r, op[r.worker]) /\ r.worker \in Worker
    BY <1>5 DEF Waiting, ToldInv, TypeInv, RequestTypes
  <2>2. \A w \in Worker : reply'[w] = IF w = r.worker THEN a ELSE reply[w]
    BY <1>5 DEF TypeInv, ReplyTypes
  <2>3. a.status = 200 /\ op[r.worker].kind # "claim" => Done(op[r.worker])'
    BY <1>1, <2>1 DEF Matches, Done
  <2>4. \A w \in Worker : pc'[w] # "waiting" => reply'[w] = NoReply
    BY <1>1, <2>1, <2>2 DEF ToldInv
  <2>5. \A w \in Worker : reply'[w].status = 200 /\ op'[w].kind # "claim" => Done(op[w])'
    BY <1>1, <1>2, <2>2, <2>3 DEF ToldInv
  <2> QED BY <1>1, <1>3, <2>4, <2>5 DEF ToldInv, Matches
<1> QED BY <1>1, <1>4, <1>5

LEMMA ToldStep == TypeInv /\ ToldInv /\ [Next]_vars => ToldInv'
<1> SUFFICES ASSUME TypeInv, ToldInv, [Next]_vars PROVE ToldInv'
  OBVIOUS
<1>0. \A t : Done(t) => Done(t)'
  BY DoneStays
<1>1. CASE BeginStep
  <2> SUFFICES ASSUME NEW w \in Worker, NEW o, Begin(w, o) PROVE ToldInv'
    BY <1>1 DEF BeginStep
  <2>1. /\ pc[w] = "free" /\ pc' = [pc EXCEPT ![w] = "sending"]
        /\ call' = [call EXCEPT ![w] = calls + 1] /\ op' = [op EXCEPT ![w] = o]
        /\ UNCHANGED <<told, net, reply, effects>>
    BY DEF Begin, inboxVars
  <2>2. reply[w] = NoReply /\ NoReply.status # 200
    BY <2>1 DEF ToldInv, NoReply
  <2>3. \A v \in Worker : v # w => pc'[v] = pc[v] /\ call'[v] = call[v] /\ op'[v] = op[v]
    BY <2>1 DEF TypeInv, TypeOK
  <2>4. \A r \in net : r.worker \in Worker /\ (r.worker = w => r.call # call'[w])
    BY <2>1 DEF TypeInv, TypeOK, RequestTypes
  <2>5. \A r \in net' : r.call = call'[r.worker] => Matches(r, op'[r.worker])
    BY <2>1, <2>3, <2>4 DEF ToldInv
  <2>6. ToldTruthful'
    BY <2>1 DEF ToldInv, ToldTruthful, Completions
  <2>7. \A v \in Worker : reply'[v].status = 200 /\ op'[v].kind # "claim" => Done(op[v])'
    BY <1>0, <2>1, <2>2, <2>3 DEF ToldInv
  <2> QED BY <2>1, <2>2, <2>3, <2>5, <2>6, <2>7 DEF ToldInv, Matches, Done
<1>2. CASE PostStep
  <2> SUFFICES ASSUME NEW w \in Worker, Post(w) PROVE ToldInv'
    BY <1>2 DEF PostStep
  <2>1. /\ pc[w] = "sending" /\ pc' = [pc EXCEPT ![w] = "waiting"]
        /\ net' = net \cup {Request(w)} /\ UNCHANGED <<op, call, told, reply, effects>>
    BY PostFacts
  <2>2. Request(w).worker = w /\ Matches(Request(w), op[w])
    BY RequestFacts DEF Matches
  <2>3. \A r \in net' : r.call = call'[r.worker] => Matches(r, op'[r.worker])
    BY <2>1, <2>2 DEF ToldInv
  <2>4. \A v \in Worker : pc'[v] # "waiting" => reply'[v] = NoReply
    BY <2>1 DEF ToldInv, TypeInv, TypeOK
  <2> QED BY <1>0, <2>1, <2>3, <2>4 DEF ToldInv, ToldTruthful, Done, Completions, Matches
<1>3. CASE SettleStep
  <2> SUFFICES ASSUME NEW w \in Worker, NEW o, NEW leased, Settle(w, o, leased),
                      o.status = 200 => o.status = reply[w].status
               PROVE  ToldInv'
    BY <1>3 DEF SettleStep
  <2>1. /\ reply' = [reply EXCEPT ![w] = NoReply] /\ UNCHANGED <<op, call, net, effects>>
        /\ \E p \in {"free", "backoff"} : pc' = [pc EXCEPT ![w] = p]
    BY SettleFacts
  <2>2. \/ told' = told
        \/ told' = told \cup {op[w]} /\ Done(op[w])
    BY SettleFacts DEF ToldInv, Returns
  <2>3. ToldTruthful'
    BY <2>1, <2>2 DEF ToldInv, ToldTruthful, Done, Completions
  <2>4. \A v \in Worker : pc'[v] # "waiting" => reply'[v] = NoReply
    BY <2>1 DEF ToldInv, TypeInv, TypeOK, ReplyTypes
  <2>5. \A v \in Worker : reply'[v].status = 200 /\ op'[v].kind # "claim" => Done(op[v])'
    BY <1>0, <2>1 DEF ToldInv, TypeInv, ReplyTypes, NoReply
  <2> QED BY <2>1, <2>3, <2>4, <2>5 DEF ToldInv, Matches, Done
<1>4. CASE BackoffStep
  <2>1. PICK w \in Worker : Backoff(w)
    BY <1>4 DEF BackoffStep
  <2>2. \A v \in Worker : pc'[v] # "waiting" => pc[v] # "waiting"
    BY <2>1 DEF Backoff, TypeInv, TypeOK
  <2>3. UNCHANGED <<op, call, told, net, reply, effects>>
    BY <2>1 DEF Backoff, inboxVars
  <2> QED BY <2>2, <2>3 DEF ToldInv, ToldTruthful, Done, Completions, Matches
<1>5. CASE DenyStep
  <2>1. PICK r \in net : \E code \in {401, 409} : Answered(r, No(code))
    BY <1>5 DEF DenyStep, Deny
  <2>2. \A code : No(code).status = code
    BY DEF No
  <2>3. PICK a : Answered(r, a) /\ a.status # 200
    BY <2>1, <2>2
  <2> QED BY <2>3, ToldAnswered
<1>6. CASE LeaseStep
  <2>1. PICK r \in net : r.kind = "claim" /\ \E pairs : Answered(r, Yes(pairs))
    BY <1>6, ClaimFacts DEF LeaseStep
  <2> QED BY <2>1, ToldAnswered
<1>7. CASE CompleteStep
  <2> SUFFICES ASSUME NEW r \in net, ServeComplete(r) PROVE ToldInv'
    BY <1>7 DEF CompleteStep
  <2>1. CASE Answered(r, No(409))
    <3>1. No(409).status # 200
      BY DEF No
    <3> QED BY <2>1, <3>1, ToldAnswered
  <2>2. CASE Answered(r, Yes({})) /\ effects' = effects \cup {Completion(r)}
    <3>1. /\ Completion(r).kind = r.kind
          /\ Completion(r).pairs = {[delivery |-> r.delivery, lease |-> r.lease]}
          /\ Completion(r) \in Completions'
      BY <2>2, CompleteFacts DEF Completion, Completions
    <3>2. Done([kind |-> r.kind, delivery |-> r.delivery, lease |-> r.lease])'
      BY <3>1 DEF Done
    <3> QED BY <2>2, <3>2, CompleteFacts, ToldAnswered
  <2> QED BY <2>1, <2>2, CompleteFacts
<1>8. CASE ExpireStep \/ UNCHANGED vars
  BY <1>8 DEF ExpireStep, Expire, clientVars, inboxVars, vars, ToldInv, ToldTruthful, Done,
     Completions, Matches
<1> QED BY <1>1, <1>2, <1>3, <1>4, <1>5, <1>6, <1>7, <1>8, StepKinds

(* A method that returns has done what it says: the delivery was completed *)
(* under the very lease it was called with, by one of the call's attempts. *)
THEOREM ReportsAreTrue == Spec => []ToldTruthful
<1>1. Spec => []ToldInv
  BY AlwaysTyped, ToldInit, ToldStep, PTL DEF Spec
<1>2. ToldInv => ToldTruthful
  BY DEF ToldInv
<1> QED BY <1>1, <1>2, PTL
-----------------------------------------------------------------------------
(***************************************************************************)
(* Refinement of the inbox.  A step of the inbox is the step of the same   *)
(* name there; the end of a call that reports a completion is Tell.        *)
(***************************************************************************)
LEMMA ToldMoves ==
    ASSUME TypeInv, [Next]_vars
    PROVE  \/ told' = told
           \/ /\ \E t : told' = told \cup {t}
              /\ UNCHANGED <<status, lease, leases, effects>>
<1>1. CASE SettleStep
  <2>1. PICK w \in Worker : \E o, leased : Settle(w, o, leased)
    BY <1>1 DEF SettleStep
  <2> QED BY <2>1, SettleFacts
<1>2. CASE BeginStep \/ PostStep \/ BackoffStep
  BY <1>2 DEF BeginStep, Begin, PostStep, Post, BackoffStep, Backoff
<1>3. CASE DenyStep \/ LeaseStep \/ CompleteStep \/ ExpireStep \/ UNCHANGED vars
  BY <1>3, InboxLeavesClient
<1> QED BY <1>1, <1>2, <1>3, StepKinds

LEMMA InboxInit == Init => Inbox!Init
BY DEF Init, Inbox!Init, OwnersBar, ClosedBar, Claims, Completions

LEMMA GrantSimulates ==
    ASSUME TypeInv, [Next]_vars, Grants PROVE Inbox!Next
<1>1. PICK r \in net, D \in SUBSET {d \in Deliveries : status[d] = "queued"} :
        /\ D # {}
        /\ status' = [d \in Deliveries |-> IF d \in D THEN "leased" ELSE status[d]]
        /\ lease' = [d \in Deliveries |-> IF d \in D THEN leases + 1 ELSE lease[d]]
        /\ leases' = leases + 1 /\ effects' = effects \cup {Leasing(r, D)}
        /\ r.kind = "claim"
  BY DEF Grants
<1>2. told' = told
  BY <1>1, ToldMoves DEF TypeInv
<1>3. /\ Claims' = Claims \cup {Leasing(r, D)} /\ Completions' = Completions
      /\ Leasing(r, D).pairs = Granted(D) /\ Leasing(r, D).worker = r.worker
  BY <1>1 DEF Claims, Completions, Leasing
<1>4. {<<r.worker, h.delivery, h.lease>> : h \in Granted(D)}
        = {<<r.worker, d, leases + 1>> : d \in D}
  <2>1. \A h \in Granted(D) : h.delivery \in D /\ h.lease = leases + 1
    BY DEF Granted
  <2>2. ASSUME NEW d \in D
        PROVE  \E h \in Granted(D) : h.delivery = d /\ h.lease = leases + 1
    <3>1. [delivery |-> d, lease |-> leases + 1] \in Granted(D)
      BY DEF Granted
    <3> QED BY <3>1
  <2> QED BY <2>1, <2>2
<1>5. OwnersBar' = OwnersBar \cup {<<r.worker, d, leases + 1>> : d \in D}
  BY <1>3, <1>4 DEF OwnersBar
<1>6. ClosedBar' = ClosedBar
  BY <1>3 DEF ClosedBar
<1>7. Inbox!Grant(r.worker, D)
  BY <1>1, <1>2, <1>5, <1>6 DEF Inbox!Grant
<1>8. r.worker \in Worker /\ D \in SUBSET Deliveries
  BY DEF TypeInv, RequestTypes
<1> QED BY <1>7, <1>8 DEF Inbox!Next

(* What a completion x adds to ClosedBar.                                  *)
ClosedBy(x) ==
    {[worker |-> x.worker, kind |-> x.kind, delivery |-> h.delivery, lease |-> h.lease] :
        h \in x.pairs}

LEMMA ClosedByOne ==
    ASSUME NEW x, NEW d, NEW l, x.pairs = {[delivery |-> d, lease |-> l]}
    PROVE  ClosedBy(x) = {[worker |-> x.worker, kind |-> x.kind, delivery |-> d, lease |-> l]}
<1>1. \A h \in x.pairs : h.delivery = d /\ h.lease = l
  OBVIOUS
<1>2. [delivery |-> d, lease |-> l] \in x.pairs
  OBVIOUS
<1> QED BY <1>1, <1>2 DEF ClosedBy

LEMMA CloseSimulates ==
    ASSUME TypeInv, OwnInv, [Next]_vars, Completes PROVE Inbox!Next
<1>1. PICK r \in net :
        /\ r.kind \in {"ack", "reject"} /\ r.delivery \in Deliveries /\ r.lease # 0
        /\ status[r.delivery] = "leased" /\ lease[r.delivery] = r.lease
        /\ status' = [status EXCEPT ![r.delivery] =
                          IF r.kind = "ack" THEN "done" ELSE "queued"]
        /\ lease' = [lease EXCEPT ![r.delivery] = 0]
        /\ leases' = leases /\ effects' = effects \cup {Completion(r)}
  BY DEF Completes
<1> DEFINE h == [delivery |-> r.delivery, lease |-> r.lease]
           c == [worker |-> r.worker, kind |-> r.kind, delivery |-> r.delivery,
                 lease |-> lease[r.delivery]]
<1>2. told' = told
  <2>1. status' # status
    BY <1>1 DEF TypeInv, TypeOK
  <2> QED BY <2>1, ToldMoves
<1>3. /\ Completions' = Completions \cup {Completion(r)} /\ Claims' = Claims
      /\ Completion(r).pairs = {h} /\ Completion(r).worker = r.worker
      /\ Completion(r).kind = r.kind
  BY <1>1 DEF Claims, Completions, Completion
<1>4. OwnersBar' = OwnersBar
  BY <1>3 DEF OwnersBar
<1>5. ClosedBar' = ClosedBar \cup {c}
  <2>1. ClosedBy(Completion(r)) = {c}
    BY <1>1, <1>3, ClosedByOne
  <2>2. ClosedBar = UNION {ClosedBy(x) : x \in Completions}
    BY DEF ClosedBar, ClosedBy
  <2>3. ClosedBar' = UNION {ClosedBy(x) : x \in Completions'}
    BY DEF ClosedBar, ClosedBy
  <2> QED BY <1>3, <2>1, <2>2, <2>3
<1>6. <<r.worker, r.delivery, lease[r.delivery]>> \in OwnersBar
  <2>1. Owned(r.worker, h)
    BY <1>1 DEF OwnInv
  <2>2. PICK x \in Claims : h \in x.pairs /\ x.worker = r.worker
    BY <2>1 DEF Owned
  <2> QED BY <1>1, <2>2 DEF OwnersBar
<1>7. Inbox!Close(r.worker, r.delivery, r.kind)
  BY <1>1, <1>2, <1>4, <1>5, <1>6 DEF Inbox!Close
<1>8. r.worker \in Worker
  BY DEF TypeInv, RequestTypes
<1> QED BY <1>1, <1>7, <1>8 DEF Inbox!Next

LEMMA LapseSimulates ==
    ASSUME TypeInv, [Next]_vars, Expires PROVE Inbox!Next
<1>1. PICK d \in Deliveries :
        /\ status[d] = "leased" /\ status' = [status EXCEPT ![d] = "queued"]
        /\ lease' = [lease EXCEPT ![d] = 0]
        /\ UNCHANGED <<leases, effects>>
  BY DEF Expires
<1>2. status' # status
  BY <1>1 DEF TypeInv, TypeOK
<1>3. told' = told
  BY <1>2, ToldMoves
<1>4. OwnersBar' = OwnersBar /\ ClosedBar' = ClosedBar
  BY <1>1 DEF OwnersBar, ClosedBar, Claims, Completions
<1> QED BY <1>1, <1>3, <1>4 DEF Inbox!Lapse, Inbox!Next

LEMMA TellSimulates ==
    ASSUME TypeInv', ToldInv', [Next]_vars, TypeInv, Untouched
    PROVE  [Inbox!Next]_(Inbox!vars)
<1>1. OwnersBar' = OwnersBar /\ ClosedBar' = ClosedBar
  BY DEF Untouched, OwnersBar, ClosedBar, Claims, Completions
<1>2. CASE told' = told
  BY <1>1, <1>2 DEF Untouched, Inbox!vars
<1>3. ASSUME NEW t, told' = told \cup {t} PROVE Inbox!Next
  <2>1. t \in told' /\ t \in Ops
    BY <1>3 DEF TypeInv, TypeOK, Ops
  <2>2. t = [kind |-> t.kind, delivery |-> t.delivery, lease |-> t.lease]
    BY <2>1 DEF Ops
  <2>3. PICK x \in Completions :
           x.kind = t.kind /\ x.pairs = {[delivery |-> t.delivery, lease |-> t.lease]}
    BY <2>1 DEF ToldInv, ToldTruthful, Completions, Untouched
  <2> DEFINE c == [worker |-> x.worker, kind |-> x.kind, delivery |-> t.delivery,
                   lease |-> t.lease]
  <2>4. c \in ClosedBar
    <3>1. ClosedBy(x) = {c}
      BY <2>3, ClosedByOne
    <3> QED BY <3>1 DEF ClosedBar, ClosedBy
  <2>5. Inbox!Tell(c)
    BY <1>1, <1>3, <2>2, <2>3 DEF Inbox!Tell, Untouched
  <2> QED BY <2>4, <2>5 DEF Inbox!Next
<1> QED BY <1>2, <1>3, ToldMoves

LEMMA InboxSimulates ==
    TypeInv /\ OwnInv /\ TypeInv' /\ ToldInv' /\ [Next]_vars => [Inbox!Next]_(Inbox!vars)
BY InboxSteps, GrantSimulates, CloseSimulates, LapseSimulates, TellSimulates

(* Whatever is late, repeated or lost, workers see an inbox that leases    *)
(* each delivery to one of them at a time, and closes a lease at most once *)
(* and by its owner.                                                       *)
THEOREM Refinement == Spec => ImplementsInbox
<1>1. Spec => [](TypeInv /\ OwnInv /\ ToldInv)
  BY AlwaysLeased, AlwaysTyped, ToldInit, ToldStep, PTL DEF Spec
<1> QED BY <1>1, InboxInit, InboxSimulates, PTL
        DEF Spec, ImplementsInbox, Inbox!Spec
-----------------------------------------------------------------------------
(***************************************************************************)
(* Refusals.  A worker that runs the Python SDK sends the lease of its     *)
(* call, so a 409 speaks of that lease; and a lease that is not current    *)
(* will never be, for the next one to be granted has another number.       *)
(***************************************************************************)
PythonWorkers == \A w \in Worker : SdkOf[w] = Python

Superseded(o) ==
    /\ o.kind # "claim" /\ o.delivery \in Deliveries /\ o.lease \in 1 .. leases
    /\ ~(status[o.delivery] = "leased" /\ lease[o.delivery] = o.lease)

HolderInv ==
    /\ \A r \in net : r.call = call[r.worker] => r.lease = op[r.worker].lease
    /\ \A w \in Worker : reply[w].status = 409 => Superseded(op[w])

LEMMA SupersededStays ==
    ASSUME TypeInv, [Next]_vars, NEW o \in Ops, Superseded(o) PROVE Superseded(o)'
<1>1. CASE Grants
  BY <1>1 DEF Grants, Superseded, TypeInv, TypeOK, Ops
<1>2. CASE Completes
  BY <1>2 DEF Completes, Superseded, TypeInv, TypeOK, Ops
<1>3. CASE Expires
  BY <1>3 DEF Expires, Superseded, TypeInv, TypeOK, Ops
<1>4. CASE Untouched
  BY <1>4 DEF Untouched, Superseded
<1> QED BY <1>1, <1>2, <1>3, <1>4, InboxSteps

LEMMA HolderInit == Init => HolderInv
BY DEF Init, HolderInv, NoReply

(* An answer a to a request r, where a 409 refuses a lease not current.    *)
LEMMA HolderAnswered ==
    ASSUME TypeInv, HolderInv, [Next]_vars, NEW r \in net, NEW a, Answered(r, a),
           a.status = 409 /\ Waiting(r) => Superseded(op[r.worker])'
    PROVE  HolderInv'
<1>1. /\ net' \subseteq net /\ UNCHANGED <<pc, op, call>>
      /\ reply' = reply \/ (Waiting(r) /\ reply' = [reply EXCEPT ![r.worker] = a])
  BY AnsweredFacts
<1>2. \A w \in Worker : op[w] \in Ops
  BY DEF TypeInv, TypeOK, Ops
<1>3. \A w \in Worker : reply[w].status = 409 => Superseded(op[w])'
  BY <1>1, <1>2, SupersededStays DEF HolderInv, Superseded
<1>4. \A w \in Worker : reply'[w] = reply[w] \/ (Waiting(r) /\ w = r.worker /\ reply'[w] = a)
  BY <1>1 DEF TypeInv, ReplyTypes
<1>5. \A w \in Worker : reply'[w].status = 409 => Superseded(op[w])'
  BY <1>3, <1>4
<1> QED BY <1>1, <1>5 DEF HolderInv

LEMMA HolderStep ==
    ASSUME PythonWorkers, TypeInv, OwnInv, GrantInv, ToldInv, HolderInv, [Next]_vars
    PROVE  HolderInv'
<1>0. \A w \in Worker : Superseded(op[w]) => op[w] \in Ops
  BY DEF TypeInv, TypeOK, Ops
<1>1. CASE BeginStep
  <2> SUFFICES ASSUME NEW w \in Worker, NEW o, Begin(w, o) PROVE HolderInv'
    BY <1>1 DEF BeginStep
  <2>1. /\ pc[w] = "free" /\ call' = [call EXCEPT ![w] = calls + 1]
        /\ op' = [op EXCEPT ![w] = o]
        /\ UNCHANGED <<net, reply, status, lease, leases>>
    BY DEF Begin, inboxVars
  <2>2. reply[w].status # 409
    BY <2>1 DEF ToldInv, NoReply
  <2>3. \A v \in Worker : v # w => call'[v] = call[v] /\ op'[v] = op[v]
    BY <2>1 DEF TypeInv, TypeOK
  <2>4. \A r \in net : r.worker \in Worker /\ (r.worker = w => r.call # call'[w])
    BY <2>1 DEF TypeInv, TypeOK, RequestTypes
  <2> QED BY <2>1, <2>2, <2>3, <2>4 DEF HolderInv, Superseded
<1>2. CASE PostStep
  <2> SUFFICES ASSUME NEW w \in Worker, Post(w) PROVE HolderInv'
    BY <1>2 DEF PostStep
  <2>1. /\ net' = net \cup {Request(w)}
        /\ UNCHANGED <<op, call, reply, status, lease, leases>>
    BY PostFacts
  <2>2. Request(w).worker = w /\ Request(w).lease = op[w].lease
    BY DEF Request, LeaseField, PythonWorkers
  <2> QED BY <2>1, <2>2 DEF HolderInv, Superseded
<1>3. CASE SettleStep
  <2> SUFFICES ASSUME NEW w \in Worker, NEW o, NEW leased, Settle(w, o, leased)
               PROVE  HolderInv'
    BY <1>3 DEF SettleStep
  <2>1. /\ reply' = [reply EXCEPT ![w] = NoReply]
        /\ UNCHANGED <<op, call, net, status, lease, leases>>
    BY SettleFacts
  <2>2. \A v \in Worker : reply'[v].status = 409 => reply'[v] = reply[v]
    BY <2>1 DEF TypeInv, ReplyTypes, NoReply
  <2> QED BY <2>1, <2>2 DEF HolderInv, Superseded
<1>4. CASE BackoffStep \/ UNCHANGED vars
  BY <1>4 DEF BackoffStep, Backoff, inboxVars, clientVars, vars, HolderInv, Superseded
<1>5. ASSUME NEW r \in net, Answered(r, No(409)), Waiting(r), r.lease # 0 => ~Holds(r),
             UNCHANGED <<status, lease, leases>>, r.kind # "claim"
      PROVE  Superseded(op[r.worker])'
  <2>1. /\ r.worker \in Worker /\ r.lease = op[r.worker].lease
        /\ r.delivery = op[r.worker].delivery /\ op[r.worker].kind # "claim"
        /\ op' = op
    BY <1>5, AnsweredFacts DEF Waiting, HolderInv, ToldInv, Matches, TypeInv, RequestTypes
  <2>2. op[r.worker].lease \in 1 .. leases
    <3>1. PICK c \in Claims : Lease(r.worker) \in c.pairs
      BY <2>1 DEF OwnInv, Owned
    <3> QED BY <3>1 DEF GrantInv, Lease
  <2>3. op[r.worker].delivery \in Deliveries
    BY <2>1 DEF TypeInv, OpTypes
  <2> QED BY <1>5, <2>1, <2>2, <2>3 DEF Superseded, Holds, TypeInv
<1>6. CASE DenyStep
  <2> SUFFICES ASSUME NEW r \in net, Deny(r) PROVE HolderInv'
    BY <1>6 DEF DenyStep
  <2>1. UNCHANGED <<status, lease, leases>> /\ \A code : No(code).status = code
    BY DEF Deny, inboxVars, No
  <2>2. CASE NoLease(r) /\ Answered(r, No(409))
    <3>1. r.lease = 0 /\ r.kind # "claim"
      BY <2>2 DEF NoLease
    <3> QED BY <1>5, <2>1, <2>2, <3>1, HolderAnswered
  <2>3. CASE Answered(r, No(401))
    BY <2>1, <2>3, HolderAnswered
  <2> QED BY <2>2, <2>3 DEF Deny
<1>7. CASE LeaseStep
  <2>1. PICK r \in net : \E pairs : Answered(r, Yes(pairs))
    BY <1>7, ClaimFacts DEF LeaseStep
  <2>2. \A pairs : Yes(pairs).status # 409
    BY DEF Yes
  <2> QED BY <2>1, <2>2, HolderAnswered
<1>8. CASE CompleteStep
  <2> SUFFICES ASSUME NEW r \in net, ServeComplete(r) PROVE HolderInv'
    BY <1>8 DEF CompleteStep
  <2>1. CASE Holds(r)
    <3>1. Answered(r, Yes({})) /\ Yes({}).status # 409
      BY <2>1 DEF ServeComplete, Yes
    <3> QED BY <3>1, HolderAnswered
  <2>2. CASE ~Holds(r)
    <3>1. Answered(r, No(409)) /\ UNCHANGED <<status, lease, leases>> /\ r.kind # "claim"
      BY <2>2 DEF ServeComplete
    <3> QED BY <1>5, <2>2, <3>1, HolderAnswered
  <2> QED BY <2>1, <2>2
<1>9. CASE ExpireStep
  <2>1. UNCHANGED <<net, op, call, reply>>
    BY <1>9 DEF ExpireStep, Expire, clientVars
  <2> QED BY <1>0, <2>1, SupersededStays DEF HolderInv, Superseded
<1> QED BY <1>1, <1>2, <1>3, <1>4, <1>6, <1>7, <1>8, <1>9, StepKinds

(* Workers of the Python SDK: while a worker passes the current lease, it  *)
(* is not told that it lost it, and when it is told so, the lease is gone. *)
(* (The TypeScript SDK sends no lease, and is always told so.)             *)
THEOREM HoldersAreServed == PythonWorkers /\ Spec => []HolderNotRefused
<1>1. PythonWorkers /\ TypeInv /\ OwnInv /\ GrantInv /\ ToldInv /\ HolderInv /\ [Next]_vars
        => HolderInv'
  BY HolderStep
<1>2. Spec => [](TypeInv /\ OwnInv /\ GrantInv /\ ToldInv)
  BY AlwaysLeased, AlwaysTyped, ToldInit, ToldStep, PTL DEF Spec
<1>3. HolderInv => HolderNotRefused
  BY DEF HolderInv, HolderNotRefused, Superseded
<1> SUFFICES ASSUME PythonWorkers PROVE Spec => []HolderNotRefused
  OBVIOUS
<1>4. TypeInv /\ OwnInv /\ GrantInv /\ ToldInv /\ HolderInv /\ [Next]_vars => HolderInv'
  BY <1>1
<1> QED BY <1>2, <1>3, <1>4, HolderInit, PTL DEF Spec
=============================================================================
