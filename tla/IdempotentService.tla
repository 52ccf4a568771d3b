-------------------------- MODULE IdempotentService --------------------------
(***************************************************************************)
(* What a caller is promised by a submission service: each key is bound to *)
(* at most one payload, a call is told "accepted" only for a payload it    *)
(* asked for and that its key is bound to, a call that is told "refused"   *)
(* has bound nothing and never will, and a call that ended without knowing *)
(* may still bind its key afterwards.                                      *)
(*                                                                         *)
(* A call asks for one thing, but for the calls in Fickle, which may ask   *)
(* again for another while they are pending.  Of those that did, nothing   *)
(* is promised but that what they bind and are told they asked for.        *)
(***************************************************************************)
CONSTANTS Call, Keys, Payloads, Fickle, Unbound

VARIABLES
    asked,     \* the [key, payload] pairs each call has asked for
    binders,   \* the calls that took effect
    bound,     \* the payload each key is bound to
    verdict    \* what each call was told

vars == <<asked, binders, bound, verdict>>

Init == /\ asked = [c \in Call |-> {}]
        /\ binders = {}
        /\ bound = [k \in Keys |-> Unbound]
        /\ verdict = [c \in Call |-> "pending"]

Changed(c) == \E r, s \in asked[c] : r # s

Ask(c) ==
    /\ verdict[c] = "pending"
    /\ asked[c] = {} \/ c \in Fickle
    /\ \E r \in [key : Keys, payload : Payloads] :
          asked' = [asked EXCEPT ![c] = @ \cup {r}]
    /\ UNCHANGED <<binders, bound, verdict>>

(* The call takes effect, during the call or after it gave up.             *)
Bind(c) ==
    /\ verdict[c] \in {"pending", "unknown"} \/ Changed(c)
    /\ \E r \in asked[c] : /\ bound[r.key] = Unbound
                           /\ bound' = [bound EXCEPT ![r.key] = r.payload]
    /\ binders' = binders \cup {c}
    /\ UNCHANGED <<asked, verdict>>

Tell(c, v) == /\ verdict[c] = "pending"
              /\ verdict' = [verdict EXCEPT ![c] = v]
              /\ UNCHANGED <<asked, binders, bound>>

Accept(c) == (\E r \in asked[c] : bound[r.key] = r.payload) /\ Tell(c, "accepted")
Refuse(c) == (c \notin binders \/ Changed(c)) /\ Tell(c, "refused")
GiveUp(c) == Tell(c, "unknown")

Next == \E c \in Call : Ask(c) \/ Bind(c) \/ Accept(c) \/ Refuse(c) \/ GiveUp(c)
Spec == Init /\ [][Next]_vars
=============================================================================
