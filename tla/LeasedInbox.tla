----------------------------- MODULE LeasedInbox -----------------------------
(***************************************************************************)
(* What the workers of an agent are promised of their inbox, as if there   *)
(* were no requests, proofs, retries and lost answers: deliveries are      *)
(* leased to one worker at a time, that worker alone closes a lease, once, *)
(* unless it lapses first, and what it is told was closed is closed.       *)
(***************************************************************************)
EXTENDS Naturals

CONSTANTS Worker, Deliveries

VARIABLES
    status,   \* "queued", "leased" or "done"
    lease,    \* the current lease of each delivery, or 0
    leases,   \* the last lease
    owners,   \* the <<worker, delivery, lease>> that were granted
    closed,   \* the [worker, kind, delivery, lease] that were closed
    told      \* the [kind, delivery, lease] workers were told are closed

vars == <<status, lease, leases, owners, closed, told>>

Init == /\ status = [d \in Deliveries |-> "queued"]
        /\ lease = [d \in Deliveries |-> 0]
        /\ leases = 0
        /\ owners = {} /\ closed = {} /\ told = {}

Grant(w, D) ==
    /\ D # {} /\ \A d \in D : status[d] = "queued"
    /\ status' = [d \in Deliveries |-> IF d \in D THEN "leased" ELSE status[d]]
    /\ lease' = [d \in Deliveries |-> IF d \in D THEN leases + 1 ELSE lease[d]]
    /\ leases' = leases + 1
    /\ owners' = owners \cup {<<w, d, leases + 1>> : d \in D}
    /\ UNCHANGED <<closed, told>>

(* The owner of the current lease acknowledges or rejects the delivery.    *)
Close(w, d, kind) ==
    /\ status[d] = "leased" /\ <<w, d, lease[d]>> \in owners
    /\ status' = [status EXCEPT ![d] = IF kind = "ack" THEN "done" ELSE "queued"]
    /\ lease' = [lease EXCEPT ![d] = 0]
    /\ closed' = closed \cup
         {[worker |-> w, kind |-> kind, delivery |-> d, lease |-> lease[d]]}
    /\ UNCHANGED <<leases, owners, told>>

Lapse(d) ==
    /\ status[d] = "leased"
    /\ status' = [status EXCEPT ![d] = "queued"]
    /\ lease' = [lease EXCEPT ![d] = 0]
    /\ UNCHANGED <<leases, owners, closed, told>>

Tell(c) ==
    /\ told' = told \cup {[kind |-> c.kind, delivery |-> c.delivery, lease |-> c.lease]}
    /\ UNCHANGED <<status, lease, leases, owners, closed>>

Next == \/ \E w \in Worker, D \in SUBSET Deliveries : Grant(w, D)
        \/ \E w \in Worker, d \in Deliveries, kind \in {"ack", "reject"} : Close(w, d, kind)
        \/ \E d \in Deliveries : Lapse(d)
        \/ \E c \in closed : Tell(c)
Spec == Init /\ [][Next]_vars
=============================================================================
