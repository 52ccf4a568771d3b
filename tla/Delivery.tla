------------------------------ MODULE Delivery ------------------------------
(***************************************************************************)
(* The delivery inbox as an agent's workers use it: claim_deliveries,      *)
(* acknowledge_delivery and reject_delivery of both SDKs, each a call of   *)
(* the retrying HTTP helper carrying one signed operation proof, against   *)
(* the inbox of ACN Cloud (external): leases that expire, and nonces that  *)
(* are consumed once.                                                      *)
(***************************************************************************)
EXTENDS PostPolicy, FiniteSets

CONSTANTS
    Worker,         \* processes of one agent that share its inbox
    SdkOf,          \* the SDK each worker runs
    Deliveries,     \* deliveries in the inbox
    Limit,          \* the limit argument of claim_deliveries
    RetryAttempts,  \* the client's retry_attempts / retries option
    Faults,         \* outcomes the path puts in place of an answer
    MaxCalls, MaxFaults, MaxRejects, MaxExpiries   \* bounds of a behaviour

ASSUME DeliverySdkAssumption == SdkOf \in [Worker -> Sdks]
ASSUME LimitAssumption == Limit \in Nat \ {0}
ASSUME DeliveryRetryAssumption == RetryAttempts \in Nat
ASSUME DeliveryFaultAssumption == \A o \in Faults : o \in Outcomes /\ IsTransient(o)
ASSUME BoundsAssumption == {MaxCalls, MaxFaults, MaxRejects, MaxExpiries} \subseteq Nat

VARIABLES
    pc,        \* where each worker is in _post ("free" outside of a call)
    op,        \* the operation of each worker's call
    call,      \* the number of each worker's call
    attempt,   \* the loop variable of that call
    held,      \* the [delivery, lease] pairs each worker knows it claimed
    told,      \* the completions the SDK reported as successful (history)
    conflicts, \* the calls that raised an error of status 409 (history)
    net,       \* requests on their way
    reply,     \* the answer on its way to each worker
    status,    \* the inbox: "queued", "leased" or "done"
    lease,     \* the current lease of each delivery, 0 when there is none
    leases,    \* how many leases were granted
    nonces,    \* nonces the server has consumed
    effects,   \* what calls have changed in the inbox (history)
    calls, faults, rejects, expiries               \* the counters bounded

clientVars  == <<pc, op, call, attempt, held, told, conflicts>>
inboxVars   == <<status, lease, leases, nonces, effects>>
counters    == <<calls, faults, rejects, expiries>>
vars == <<clientVars, net, reply, inboxVars, counters>>
-----------------------------------------------------------------------------
NoDelivery == "none"
Claiming   == [kind |-> "claim", delivery |-> NoDelivery, lease |-> 0]

(* The operation that sign_agent_proof signs with the agent, the time and  *)
(* the nonce, for instance "delivery.ack:{delivery_id}:{lease_id}".        *)
Operation(o) == <<o.kind, o.delivery, o.lease>>

(* Defect: a proof is signed for each attempt.                             *)
NonceOfAttempt(c, n) == <<c, n>>

(* Defect: the nonce is a default argument, evaluated once for all calls.  *)
NonceOfModule(c, n) == <<0, 0>>

(* The proof is an argument of the call: every attempt resends its nonce.  *)
Nonce(c, n) == <<c, 0>>

(* Defect: the lease is left out of the request.                           *)
LeaseFieldOmitted(sdk, l) == 0

(* Defect: a call without a lease sends -1 for it.                         *)
LeaseFieldUnset(sdk, l) == IF l = 0 THEN -1 ELSE l

(* The leaseId of the request body; the TypeScript SDK sends none.         *)
LeaseField(sdk, l) == IF sdk = Python THEN l ELSE 0

Waiting(r) == /\ pc[r.worker] = "waiting"
              /\ call[r.worker] = r.call
              /\ attempt[r.worker] = r.attempt

NoReply    == [status |-> 0, leased |-> {}]
Yes(pairs) == [status |-> 200, leased |-> pairs]
No(code)   == [status |-> code, leased |-> {}]

Init ==
    /\ pc = [w \in Worker |-> "free"]
    /\ op = [w \in Worker |-> Claiming]
    /\ call = [w \in Worker |-> 0]
    /\ attempt = [w \in Worker |-> 0]
    /\ held = [w \in Worker |-> {}]
    /\ told = {} /\ conflicts = {}
    /\ net = {}
    /\ reply = [w \in Worker |-> NoReply]
    /\ status = [d \in Deliveries |-> "queued"]
    /\ lease = [d \in Deliveries |-> 0]
    /\ leases = 0
    /\ nonces = {}
    /\ effects = {}
    /\ calls = 0 /\ faults = 0 /\ rejects = 0 /\ expiries = 0
-----------------------------------------------------------------------------
(* A worker invokes one of the three methods with a fresh proof.           *)
Begin(w, o) ==
    /\ pc[w] = "free"
    /\ calls < MaxCalls
    /\ calls' = calls + 1
    /\ call' = [call EXCEPT ![w] = calls + 1]
    /\ op' = [op EXCEPT ![w] = o]
    /\ attempt' = [attempt EXCEPT ![w] = 0]
    /\ pc' = [pc EXCEPT ![w] = "sending"]
    /\ UNCHANGED <<held, told, conflicts, net, reply, inboxVars, faults, expiries>>

ClaimDeliveries(w) == Begin(w, Claiming) /\ UNCHANGED rejects

AcknowledgeDelivery(w, h) ==
    Begin(w, [kind |-> "ack", delivery |-> h.delivery, lease |-> h.lease])
        /\ UNCHANGED rejects

RejectDelivery(w, h) ==
    /\ rejects < MaxRejects
    /\ Begin(w, [kind |-> "reject", delivery |-> h.delivery, lease |-> h.lease])
    /\ rejects' = rejects + 1

(* One attempt of _post goes on the wire.                                  *)
Post(w) ==
    /\ pc[w] = "sending"
    /\ pc' = [pc EXCEPT ![w] = "waiting"]
    /\ net' = net \cup
         {[worker |-> w, call |-> call[w], attempt |-> attempt[w],
           kind |-> op[w].kind, delivery |-> op[w].delivery,
           lease |-> LeaseField(SdkOf[w], op[w].lease),
           operation |-> Operation(op[w]), nonce |-> Nonce(call[w], attempt[w])]}
    /\ UNCHANGED <<op, call, attempt, held, told, conflicts, reply, inboxVars,
                   counters>>

Lease(w) == [delivery |-> op[w].delivery, lease |-> op[w].lease]

(* The method raises: the caller keeps what it holds, to try again with    *)
(* another proof, or forgets the lease it could not complete.              *)
Raise(w, o) ==
    /\ pc' = [pc EXCEPT ![w] = "free"]
    /\ \E kept \in {held[w], held[w] \ {Lease(w)}} : held' = [held EXCEPT ![w] = kept]
    /\ conflicts' = IF o.status = 409 THEN conflicts \cup {call[w]} ELSE conflicts
    /\ UNCHANGED told

(* The rest of the loop body after an attempt that ended in o.             *)
Settle(w, o, leased) ==
    /\ reply' = [reply EXCEPT ![w] = NoReply]
    /\ UNCHANGED <<op, call, attempt, net, inboxVars, calls, rejects, expiries>>
    /\ IF Returns(SdkOf[w], o)
       THEN /\ pc' = [pc EXCEPT ![w] = "free"]
            /\ held' = [held EXCEPT ![w] = IF op[w].kind = "claim"
                                           THEN @ \cup leased ELSE @ \ {Lease(w)}]
            /\ told' = IF op[w].kind = "claim" THEN told ELSE told \cup {op[w]}
            /\ UNCHANGED conflicts
       ELSE IF Retries(SdkOf[w], o) /\ attempt[w] + 1 # Attempts(SdkOf[w], RetryAttempts)
       THEN pc' = [pc EXCEPT ![w] = "backoff"] /\ UNCHANGED <<held, told, conflicts>>
       ELSE Raise(w, o)

(* The path hands the client a transient outcome; the request travels on,  *)
(* unless the connection could not be made.                                *)
Fault(w, o) ==
    /\ pc[w] = IF o = Unreachable THEN "sending" ELSE "waiting"
    /\ faults < MaxFaults
    /\ faults' = faults + 1
    /\ Settle(w, o, {})

Receive(w) ==
    /\ pc[w] = "waiting"
    /\ reply[w] # NoReply
    /\ Settle(w, [status |-> reply[w].status, body |-> "object"], reply[w].leased)
    /\ UNCHANGED faults

Backoff(w) ==
    /\ pc[w] = "backoff"
    /\ pc' = [pc EXCEPT ![w] = "sending"]
    /\ attempt' = [attempt EXCEPT ![w] = @ + 1]
    /\ UNCHANGED <<op, call, held, told, conflicts, net, reply, inboxVars, counters>>
-----------------------------------------------------------------------------
(* The server consumes a request and answers it if its worker still waits. *)
Answered(r, a) ==
    /\ net' = net \ {r}
    /\ reply' = IF Waiting(r) THEN [reply EXCEPT ![r.worker] = a] ELSE reply
    /\ UNCHANGED <<clientVars, counters>>

NoLease(r)  == r.kind # "claim" /\ r.lease = 0

(* verify_agent_proof_signature, for the operation a request asks for.     *)
VerifyAgentProof(r, o) == r.operation = Operation(o)
Verified(r) == /\ VerifyAgentProof(r, r)
               /\ r.nonce \notin nonces

(* A request without a lease, or with a proof that does not verify or was  *)
(* used before, changes nothing.                                           *)
Deny(r) ==
    /\ \/ NoLease(r) /\ Answered(r, No(409))
       \/ ~NoLease(r) /\ ~Verified(r) /\ Answered(r, No(401))
    /\ UNCHANGED inboxVars

Effect(r, pairs) ==
    effects' = effects \cup {[worker |-> r.worker, call |-> r.call,
                              attempt |-> r.attempt, kind |-> r.kind, pairs |-> pairs]}

FreshLease == leases + 1

(* Up to Limit queued deliveries are leased to the caller, under one lease. *)
ServeClaim(r) ==
    /\ r.kind = "claim" /\ Verified(r)
    /\ \E D \in SUBSET {d \in Deliveries : status[d] = "queued"} :
        LET pairs == {[delivery |-> d, lease |-> FreshLease] : d \in D}
        IN /\ Cardinality(D) <= Limit
           /\ D = {} => \A d \in Deliveries : status[d] # "queued"
           /\ status' = [d \in Deliveries |-> IF d \in D THEN "leased" ELSE status[d]]
           /\ lease' = [d \in Deliveries |-> IF d \in D THEN FreshLease ELSE lease[d]]
           /\ leases' = IF D = {} THEN leases ELSE leases + 1
           /\ IF D = {} THEN UNCHANGED effects ELSE Effect(r, pairs)
           /\ Answered(r, Yes(pairs))
    /\ nonces' = nonces \cup {r.nonce}

Holds(r) == status[r.delivery] = "leased" /\ lease[r.delivery] = r.lease

(* Acknowledging completes the delivery, rejecting returns it to the queue. *)
ServeComplete(r) ==
    /\ r.kind # "claim" /\ ~NoLease(r) /\ Verified(r)
    /\ nonces' = nonces \cup {r.nonce}
    /\ UNCHANGED leases
    /\ IF Holds(r)
       THEN /\ status' = [status EXCEPT ![r.delivery] =
                              IF r.kind = "ack" THEN "done" ELSE "queued"]
            /\ lease' = [lease EXCEPT ![r.delivery] = 0]
            /\ Effect(r, {[delivery |-> r.delivery, lease |-> r.lease]})
            /\ Answered(r, Yes({}))
       ELSE Answered(r, No(409)) /\ UNCHANGED <<status, lease, effects>>

Serve(r) == Deny(r) \/ ServeClaim(r) \/ ServeComplete(r)

(* A lease nobody completes in time expires and the delivery is queued     *)
(* again.  Only expiries that overtake a worker who knows the lease count. *)
Known(d) == \/ \E w \in Worker : [delivery |-> d, lease |-> lease[d]] \in held[w]
            \/ \E w \in Worker : [delivery |-> d, lease |-> lease[d]] \in reply[w].leased
            \/ \E r \in net : r.delivery = d /\ r.lease = lease[d]
Expire(d) ==
    /\ status[d] = "leased"
    /\ Known(d) => expiries < MaxExpiries
    /\ expiries' = IF Known(d) THEN expiries + 1 ELSE expiries
    /\ status' = [status EXCEPT ![d] = "queued"]
    /\ lease' = [lease EXCEPT ![d] = 0]
    /\ UNCHANGED <<clientVars, net, reply, leases, nonces, effects,
                   calls, faults, rejects>>

Next ==
    \/ \E w \in Worker : \/ ClaimDeliveries(w)
                         \/ \E h \in held[w] : AcknowledgeDelivery(w, h)
                         \/ \E h \in held[w] : RejectDelivery(w, h)
                         \/ Post(w) \/ Receive(w) \/ Backoff(w)
                         \/ \E o \in Faults : Fault(w, o)
    \/ \E r \in net : Serve(r)
    \/ \E d \in Deliveries : Expire(d)

Spec == Init /\ [][Next]_vars

(***************************************************************************)
(* Workers that poll: claim when they hold nothing, then acknowledge or    *)
(* reject what they hold, and forget a lease once its call has ended, well *)
(* or badly.  A claim that would find the queue empty changes nothing in   *)
(* the inbox and is left out, so that MaxCalls is not spent on it.  The    *)
(* client code runs, the server answers, leases expire.                    *)
(***************************************************************************)
Poll(w) == held[w] = {} /\ (\E d \in Deliveries : status[d] = "queued")
              /\ ClaimDeliveries(w)
Work(w) == \/ \E h \in held[w] : AcknowledgeDelivery(w, h) \/ RejectDelivery(w, h)
           \/ Post(w) \/ Receive(w) \/ Backoff(w)
Forgets(w) == pc[w] # "free" /\ pc'[w] = "free" => Lease(w) \notin held'[w]
PollingNext ==
    \/ \E w \in Worker : /\ Poll(w) \/ Work(w) \/ \E o \in Faults : Fault(w, o)
                         /\ Forgets(w)
    \/ \E r \in net : Serve(r)
    \/ \E d \in Deliveries : Expire(d)
PollingSpec ==
    /\ Init /\ [][PollingNext]_vars
    /\ \A w \in Worker : WF_vars(Poll(w)) /\ WF_vars(Work(w))
    /\ WF_vars(\E r \in net : Serve(r))
    /\ \A d \in Deliveries : WF_vars(~Known(d) /\ Expire(d))
-----------------------------------------------------------------------------
TypeOK ==
    LET Pairs == [delivery : Deliveries, lease : Nat]
        Ops   == [kind : {"claim", "ack", "reject"},
                  delivery : Deliveries \cup {NoDelivery}, lease : Nat]
    IN /\ pc \in [Worker -> {"free", "sending", "waiting", "backoff"}]
       /\ op \in [Worker -> Ops] /\ told \subseteq Ops
       /\ call \in [Worker -> Nat] /\ attempt \in [Worker -> Nat]
       /\ held \in [Worker -> SUBSET Pairs]
       /\ \A r \in net : r.lease \in Nat /\ r.call \in 1 .. calls
       /\ status \in [Deliveries -> {"queued", "leased", "done"}]
       /\ lease \in [Deliveries -> 0 .. leases]
       /\ nonces \subseteq Nat \X Nat
       /\ \A x \in effects : x.pairs \subseteq Pairs /\ x.call \in 1 .. calls
       /\ conflicts \subseteq 1 .. calls

Claims      == {x \in effects : x.kind = "claim"}
Completions == {x \in effects : x.kind # "claim"}

(* Whatever is retried or arrives late, a call changes the inbox once.     *)
OneEffectPerCall == \A x, y \in effects : x.call = y.call => x = y

(* A call that raised an error of status 409 changed nothing, and no late  *)
(* attempt of it ever will: an attempt that was processed consumed the     *)
(* nonce of the call, so a later one is told 401 and never 409.            *)
ConflictIsFinal == \A x \in effects : x.call \notin conflicts

(* What a method reported as done was done, against that lease.            *)
ToldTruthful ==
    \A t \in told : \E x \in Completions :
        x.kind = t.kind /\ x.pairs = {[delivery |-> t.delivery, lease |-> t.lease]}

(* The worker that passes the current lease is not told that it lost it.   *)
HolderNotRefused ==
    \A w \in Worker :
        /\ pc[w] = "waiting" /\ reply[w].status = 409
        => ~(status[op[w].delivery] = "leased" /\ lease[op[w].delivery] = op[w].lease)

(* A delivery in the queue is eventually completed.                        *)
EveryDeliveryDone == \A d \in Deliveries : <>(status[d] = "done")
-----------------------------------------------------------------------------
(* The inbox LeasedInbox describes, read off the history of effects.       *)
OwnersBar == UNION {{<<x.worker, h.delivery, h.lease>> : h \in x.pairs} : x \in Claims}
ClosedBar ==
    UNION {{[worker |-> x.worker, kind |-> x.kind, delivery |-> h.delivery, lease |-> h.lease] :
               h \in x.pairs} : x \in Completions}

Inbox == INSTANCE LeasedInbox WITH owners <- OwnersBar, closed <- ClosedBar

(* Late, repeated and lost requests and answers do not show: what becomes  *)
(* of a delivery is what leasing it to one worker at a time, closing it    *)
(* and lapses make of it, and no worker is told otherwise.                 *)
ImplementsInbox == Inbox!Spec
=============================================================================
