----------------------------- MODULE Submission -----------------------------
(***************************************************************************)
(* Submitting envelopes: concurrent submit / submit_a2a calls of both      *)
(* SDKs, their bounded retry loop, an unreliable HTTP path, and the ACN    *)
(* Cloud endpoint (external) with its (sender, idempotencyKey) ledger.     *)
(*                                                                         *)
(* A request outlives the attempt that sent it: when the client stops      *)
(* waiting (timeout, dropped connection, a gateway's 504) the request may  *)
(* still reach the server, before or after a later attempt.                *)
(*                                                                         *)
(* The envelope stays the caller's own object: another thread, or code     *)
(* that runs while the call awaits, may edit it before the call has ended. *)
(***************************************************************************)
EXTENDS PostPolicy, Sequences, FiniteSets

CONSTANTS
    Call,           \* invocations of submit or submit_a2a
    SdkOf,          \* the SDK that runs each call
    Envelopes,      \* envelopes the callers submit
    Acceptable,     \* those the server's validation accepts
    RetryAttempts,  \* the client's retry_attempts / retries option
    Faults,         \* outcomes the path puts in place of the server's answer
    MaxFaults,      \* bound on the number of faults of a behaviour
    MaxEdits        \* bound on the edits of envelopes in flight

ASSUME SdkAssumption == SdkOf \in [Call -> Sdks]
ASSUME EnvelopeAssumption ==
    \A e \in Envelopes : DOMAIN e = {"sender", "idempotencyKey", "document"}
ASSUME AcceptableAssumption == Acceptable \subseteq Envelopes
ASSUME RetryAssumption == RetryAttempts \in Int
ASSUME FaultAssumption == Faults \subseteq Outcomes \ {Accepted}
ASSUME MaxFaultsAssumption == MaxFaults \in Nat
ASSUME MaxEditsAssumption == MaxEdits \in Nat

VARIABLES
    pc,        \* where each call is in _post
    args,      \* the envelope, as the caller has it now, and binding of each call
    body,      \* the envelope as each call has serialised it
    attempt,   \* the loop variable of each call
    written,   \* every envelope a call has serialised (history)
    seen,      \* the outcomes of each call's attempts, in order (history)
    outcome,   \* what each call returned or raised
    net,       \* requests on their way to the server
    reply,     \* the answer on its way to each call
    ledger,    \* the server's idempotency ledger
    events,    \* the commercial events the server recorded (history)
    faults,    \* how many faults happened
    edits      \* how many envelopes were edited in flight

bodyVars   == <<args, body, written>>
serverVars == <<ledger, events>>
bounds     == <<faults, edits>>
vars == <<pc, bodyVars, attempt, seen, outcome, net, reply, serverVars, bounds>>
-----------------------------------------------------------------------------
Namespace(e) == <<e.sender, e.idempotencyKey>>
Namespaces   == {Namespace(e) : e \in Envelopes}

Bindings == {"direct", "a2a"}
Args     == [envelope : Envelopes, binding : Bindings]

(* Defect: the label of an earlier draft of the binding.                   *)
MediaTypeOfDraft(sdk, binding) ==
    IF binding = "direct" THEN "application/json"
    ELSE "application/vnd.acn.envelope+json;version=0.1"

(* The media type that labels the envelope on each binding.                *)
MediaType(sdk, binding) ==
    IF binding = "direct" THEN "application/json"
    ELSE IF sdk = Python THEN "application/vnd.acn+json"
    ELSE "application/vnd.acn.envelope+json;version=0.1"

MediaTypes == {MediaType(s, b) : s \in Sdks, b \in Bindings}

(* parse_a2a_message accepts one media type; /v1/messages takes JSON.      *)
Understood == {"application/json", "application/vnd.acn+json"}

Request == [call : Call, attempt : Nat, envelope : Envelopes, mediaType : MediaTypes]

(* Defect: each retry builds the envelope again, under a new key.          *)
BodyRebuilt(c) ==
    CHOOSE e \in Envelopes : e.document = body[c].document
            /\ (e # body[c] \/ \A f \in Envelopes : f.document = e.document => f = e)

(* Defect: the A2A wrapper is sent where the envelope belongs.             *)
BodyWrapped(c) == args[c]

(* What a retry sends: json.dumps of Python runs before the loop, once;    *)
(* JSON.stringify of TypeScript in it, on the object as it is by then.     *)
Body(c) == IF SdkOf[c] = Python THEN body[c] ELSE args[c].envelope

None  == [kind |-> "none"]
Raw   == [kind |-> "raw"]
Empty == [kind |-> "empty"]
Submitted(e, dup)      == [kind |-> "submission", envelope |-> e, duplicate |-> dup]
Typed(status, retry)   == [kind |-> "typed", status |-> status, retryable |-> retry]

Submissions == {Submitted(e, d) : e \in Envelopes, d \in BOOLEAN}
(* The server's own error answers: media type, conflict, invalid document. *)
RefusalStatuses == {400, 409, 422}
Refusals    == {Typed(s, FALSE) : s \in RefusalStatuses}
TypedErrors == {Typed(s, r) : s \in Statuses \cup {0}, r \in BOOLEAN}
Results     == Submissions \cup TypedErrors \cup {None, Raw, Empty}

Event == [envelope : Envelopes, call : Call, attempt : Nat]

Limit(c) == Attempts(SdkOf[c], RetryAttempts)
-----------------------------------------------------------------------------
Init ==
    /\ pc = [c \in Call |-> "idle"]
    /\ args \in [Call -> Args]
    /\ body = [c \in Call |-> args[c].envelope]
    /\ written = [c \in Call |-> {}]
    /\ attempt = [c \in Call |-> 0]
    /\ seen = [c \in Call |-> <<>>]
    /\ outcome = [c \in Call |-> None]
    /\ net = {}
    /\ reply = [c \in Call |-> None]
    /\ ledger = [k \in Namespaces |-> None]
    /\ events = {}
    /\ faults = 0
    /\ edits = 0

(* Call c serialises envelope e.                                           *)
Write(c, e) == /\ body' = [body EXCEPT ![c] = e]
               /\ written' = [written EXCEPT ![c] = @ \cup {e}]

(* The caller invokes submit or submit_a2a: both SDKs serialise the first  *)
(* body within the call.  With a negative retries the TypeScript loop body *)
(* never runs, and submit reads a field of undefined.                      *)
Submit(c) ==
    /\ pc[c] = "idle"
    /\ IF Limit(c) > 0
       THEN /\ pc' = [pc EXCEPT ![c] = "sending"]
            /\ Write(c, args[c].envelope)
            /\ UNCHANGED outcome
       ELSE /\ pc' = [pc EXCEPT ![c] = "done"]
            /\ outcome' = [outcome EXCEPT ![c] = Raw]
            /\ UNCHANGED <<body, written>>
    /\ UNCHANGED <<args, attempt, seen, net, reply, serverVars, bounds>>

(* The application assigns a member of the envelope of a call in flight.   *)
(* It may at any time; as no loop reads the object before the back-off     *)
(* ends, it does so here between two attempts.                             *)
Edit(c, e) ==
    /\ pc[c] = "backoff"
    /\ edits < MaxEdits
    /\ edits' = edits + 1
    /\ \E m \in DOMAIN e : e # args[c].envelope /\ e = [args[c].envelope EXCEPT ![m] = e[m]]
    /\ args' = [args EXCEPT ![c].envelope = e]
    /\ UNCHANGED <<pc, body, written, attempt, seen, outcome, net, reply, serverVars, faults>>

(* urlopen / fetch put the request on the wire and wait.                   *)
Post(c) ==
    /\ pc[c] = "sending"
    /\ pc' = [pc EXCEPT ![c] = "waiting"]
    /\ net' = net \cup
         {[call |-> c, attempt |-> attempt[c], envelope |-> body[c],
           mediaType |-> MediaType(SdkOf[c], args[c].binding)]}
    /\ UNCHANGED <<bodyVars, attempt, seen, outcome, reply, serverVars, bounds>>

(* Defect: the flag of a duplicate is not read.                            *)
DecodedAsFirst(c, o, result) ==
    IF o.body = "object" THEN Submitted(result.envelope, FALSE)
    ELSE IF SdkOf[c] = TypeScript /\ args[c].binding = "direct" /\ o.body = "odd" THEN Empty
    ELSE Raw

(* What submit or submit_a2a makes of the body o that _post returned: of   *)
(* JSON of another shape, the TypeScript submit makes a Submission of      *)
(* undefined fields; all others fail on it.                                *)
Decoded(c, o, result) ==
    IF o.body = "object" THEN result
    ELSE IF SdkOf[c] = TypeScript /\ args[c].binding = "direct" /\ o.body = "odd" THEN Empty
    ELSE Raw

(* The rest of the loop body once an attempt of call c ended in o.         *)
Settle(c, o, result) ==
    LET sdk  == SdkOf[c]
        last == attempt[c] + 1 = Limit(c)
        Finish(r) == /\ pc' = [pc EXCEPT ![c] = "done"]
                     /\ outcome' = [outcome EXCEPT ![c] = r]
    IN /\ seen' = [seen EXCEPT ![c] = Append(@, o)]
       /\ reply' = [reply EXCEPT ![c] = None]
       /\ IF Returns(sdk, o) THEN Finish(Decoded(c, o, result))
          ELSE IF Retries(sdk, o) /\ last
               THEN Finish(Typed(ExhaustedStatus(sdk, o), TRUE))
          ELSE IF Retries(sdk, o)
               THEN pc' = [pc EXCEPT ![c] = "backoff"] /\ UNCHANGED outcome
          ELSE IF RaisesTyped(sdk, o) THEN Finish(Typed(o.status, FALSE))
          ELSE Finish(Raw)

Fault(o) == /\ o \in Faults
            /\ faults < MaxFaults
            /\ faults' = faults + 1
            /\ UNCHANGED edits

(* The connection cannot be made: nothing reaches the server.              *)
Refused(c) ==
    /\ pc[c] = "sending"
    /\ Fault(Unreachable)
    /\ Settle(c, Unreachable, None)
    /\ UNCHANGED <<bodyVars, attempt, net, serverVars>>

(* The path gives the client something else than the server's answer, at   *)
(* any moment of the wait; the request itself travels on.                  *)
Disturbed(c, o) ==
    /\ pc[c] = "waiting"
    /\ o # Unreachable
    /\ Fault(o)
    /\ Settle(c, o, None)
    /\ UNCHANGED <<bodyVars, attempt, net, serverVars>>

(* The server's answer arrives.                                            *)
Receive(c) ==
    /\ pc[c] = "waiting"
    /\ reply[c] # None
    /\ IF reply[c].kind = "submission"
       THEN Settle(c, Accepted, reply[c])
       ELSE Settle(c, [status |-> reply[c].status, body |-> "object"], None)
    /\ UNCHANGED <<bodyVars, attempt, net, serverVars, bounds>>

(* The sleep ends and the loop takes its next turn, with the next body.    *)
Backoff(c) ==
    /\ pc[c] = "backoff"
    /\ pc' = [pc EXCEPT ![c] = "sending"]
    /\ attempt' = [attempt EXCEPT ![c] = @ + 1]
    /\ Write(c, Body(c))
    /\ UNCHANGED <<args, seen, outcome, net, reply, serverVars, bounds>>

(* The server's answer to request r, from its ledger before the request.   *)
Answer(r) ==
    LET entry == ledger[Namespace(r.envelope)]
    IN IF r.mediaType \notin Understood THEN Typed(400, FALSE)
       ELSE IF r.envelope \notin Acceptable THEN Typed(422, FALSE)
       ELSE IF entry = None THEN Submitted(r.envelope, FALSE)
       ELSE IF entry.envelope = r.envelope THEN Submitted(entry.envelope, TRUE)
       ELSE Typed(409, FALSE)

IsFresh(a) == a.kind = "submission" /\ ~a.duplicate

(* A request reaches the endpoint: it is validated, looked up in the       *)
(* ledger, recorded if new, and answered if the client still waits for it. *)
Serve(r) ==
    LET a == Answer(r)
    IN /\ net' = net \ {r}
       /\ IF IsFresh(a)
          THEN /\ ledger' = [ledger EXCEPT ![Namespace(r.envelope)] = a]
               /\ events' = events \cup
                    {[envelope |-> r.envelope, call |-> r.call, attempt |-> r.attempt]}
          ELSE UNCHANGED serverVars
       /\ reply' = IF pc[r.call] = "waiting" /\ attempt[r.call] = r.attempt
                   THEN [reply EXCEPT ![r.call] = a] ELSE reply
       /\ UNCHANGED <<pc, bodyVars, attempt, seen, outcome, bounds>>

Finished == /\ \A c \in Call : pc[c] = "done"
            /\ net = {}
            /\ UNCHANGED vars

Step(c) == Submit(c) \/ Post(c) \/ Refused(c) \/ Receive(c) \/ Backoff(c)
              \/ (\E o \in Faults : Disturbed(c, o)) \/ (\E e \in Envelopes : Edit(c, e))

Next == (\E c \in Call : Step(c)) \/ (\E r \in net : Serve(r)) \/ Finished

(***************************************************************************)
(* Fairness.  A started call is running Python or JavaScript: it sends,    *)
(* reads the answer that arrived and sleeps a bounded time.  Nothing makes *)
(* a caller submit or edit, or a fault happen, a timeout included.         *)
(* That the server answers is assumed where a property says so.            *)
(***************************************************************************)
ClientFairness ==
    \A c \in Call : /\ WF_vars(Post(c) \/ Refused(c))
                    /\ WF_vars(Receive(c))
                    /\ WF_vars(Backoff(c))
ServerFairness == WF_vars(\E r \in net : Serve(r))

Spec           == Init /\ [][Next]_vars
ResponsiveSpec == Spec /\ ClientFairness /\ ServerFairness
-----------------------------------------------------------------------------
TypeOK ==
    /\ pc \in [Call -> {"idle", "sending", "waiting", "backoff", "done"}]
    /\ args \in [Call -> Args]
    /\ body \in [Call -> Envelopes]
    /\ written \in [Call -> SUBSET Envelopes]
    /\ attempt \in [Call -> Nat]
    /\ seen \in [Call -> Seq(Outcomes)]
    /\ outcome \in [Call -> Results]
    /\ net \subseteq Request
    /\ reply \in [Call -> Submissions \cup Refusals \cup {None}]
    /\ ledger \in [Namespaces -> Submissions \cup {None}]
    /\ events \subseteq Event
    /\ faults \in Nat
    /\ edits \in Nat
-----------------------------------------------------------------------------
(* What every attempt of call c has sent is the same.                      *)
Kept(c) == \A e, f \in written[c] : e = f

(* Calls that must be one commercial action: all of Python, whatever the   *)
(* caller does to its envelope meanwhile, and those of TypeScript whose    *)
(* body did not change under the loop.                                     *)
Steady(c) == SdkOf[c] = Python \/ Kept(c)

(* The attempts of one call are one commercial action: "A transport retry  *)
(* must not become a new commercial action."                               *)
RetryIsOneAction ==
    \A x, y \in events : x.call = y.call => x = y

(* What the SDKs keep of that: a call whose caller edits nothing, and any  *)
(* call of Python, records one event at most, however many of its attempts *)
(* arrive, in any order.                                                   *)
OneEventPerCall ==
    \A x, y \in events : x.call = y.call /\ Steady(x.call) => x = y

(* The service has recorded what call c sent last, and recorded it for     *)
(* this very call if s says that it was not a duplicate.                   *)
Confirmed(c, s) ==
    /\ s.envelope = body[c]
    /\ \E x \in events : /\ x.envelope = body[c]
                         /\ ~s.duplicate => x.call = c

(* A returned Submission speaks of the envelope that the call sent last,   *)
(* which has been recorded; duplicate = False means that this very call    *)
(* recorded it, even when the answer to that attempt was lost.             *)
ResultTruthful ==
    \A c \in Call : outcome[c].kind = "submission" => Confirmed(c, outcome[c])

(* No fault is mistaken for one of the server's own refusals.              *)
HonestPath == \A o \in Faults : o.status \notin RefusalStatuses

IsRefusal(c) == /\ outcome[c].kind = "typed"
                /\ ~outcome[c].retryable
                /\ outcome[c].status \in RefusalStatuses

(* On such a path a typed non-retryable refusal is the last word: unless   *)
(* the body changed under the loop, no attempt of the call has been        *)
(* recorded or ever will be, not even one still on its way.                *)
RefusalIsFinal ==
    \A c \in Call : HonestPath /\ IsRefusal(c) /\ Steady(c) => \A x \in events : x.call # c

(* The TypeScript SDK awaits response.json() before it looks at the status *)
(* and retries what that throws: it does not know a final answer with      *)
(* another body than JSON of the expected shape for what it is.            *)
Legible(sdk, o) == sdk = Python \/ o.body = "object"

(* The loop goes on only after transient outcomes: a call that has seen a  *)
(* final answer it can read is over and has sent nothing since.            *)
FinalAnswerEndsCall ==
    \A c \in Call : \A i \in 1 .. Len(seen[c]) :
        IsFinalAnswer(seen[c][i]) /\ Legible(SdkOf[c], seen[c][i])
            => i = Len(seen[c]) /\ pc[c] = "done"

LastSeen(c) == seen[c][Len(seen[c])]

(* A call that gave up on a transient outcome had used all its attempts.   *)
Persistent(c) ==
    pc[c] = "done" /\ seen[c] # <<>> /\ IsTransient(LastSeen(c)) => Len(seen[c]) = Limit(c)

(* "Synchronous ACN client with bounded retries for transient failures."   *)
TransientRetried == \A c \in Call : Persistent(c)

(* What the TypeScript SDK keeps of that: all of its attempts are used,    *)
(* whatever the body of the transient answer, and when none arrives.       *)
TypeScriptPersistent == \A c \in Call : SdkOf[c] = TypeScript => Persistent(c)

(* A typed error of the Python SDK, or of the TypeScript SDK about a body  *)
(* it can read, is retryable exactly when the last outcome was transient.  *)
RetryableFlagTruthful ==
    \A c \in Call : outcome[c].kind = "typed" /\ Legible(SdkOf[c], LastSeen(c)) =>
        (outcome[c].retryable <=> IsTransient(LastSeen(c)))

(* The service takes what call c sent and refuses the same to call d.      *)
Disagree(c, d) ==
    /\ body[c] = body[d]
    /\ outcome[c].kind = "submission"
    /\ IsRefusal(d)

(* An envelope the service takes on one binding is not refused on the      *)
(* other: both carry the same commerce operation.                          *)
BindingsAgree == \A c, d \in Call : ~Disagree(c, d)

(* So it is but for the A2A messages of the TypeScript SDK, whose media    *)
(* type the binding does not know.                                         *)
KnownBindingsAgree ==
    \A c, d \in Call : Disagree(c, d) => SdkOf[d] = TypeScript /\ args[d].binding = "a2a"

(* The path spoils a call by a fault the SDK does not retry (in Python the *)
(* ones of TransientRetried), or by as many faults as it has attempts.     *)
Tolerable(sdk, o) ==
    IsTransient(o) /\ (sdk = TypeScript \/ o = Unreachable \/ o.body \in {"object", "garbled"})
Spoiled(c) ==
    LET met == {i \in DOMAIN seen[c] : seen[c][i] \in Faults}
    IN \/ \E i \in met : ~Tolerable(SdkOf[c], seen[c][i])
       \/ Cardinality(met) > RetryAttempts

(* With a server that answers, a valid envelope whose key means nothing    *)
(* else is submitted in the end, unless the path spoils the call, whatever *)
(* the order of late requests, answers and retries, and unless an edit     *)
(* changes it under the loop.  Not so by the A2A messages of the           *)
(* TypeScript SDK, which are refused.                                      *)
Uncontested(c) ==
    /\ body[c] \in Acceptable
    /\ \A f \in Envelopes : Namespace(f) = Namespace(body[c]) => f = body[c]
    /\ SdkOf[c] = Python \/ args[c].binding = "direct"
FaultsTolerated ==
    \A c \in Call : (pc[c] = "sending" /\ Uncontested(c))
        ~> (outcome[c].kind = "submission" \/ Spoiled(c) \/ ~Steady(c))
-----------------------------------------------------------------------------
(* The service can only refuse envelope e of call c, now and later.        *)
Rejected(c, e) ==
    LET entry == ledger[Namespace(e)]
    IN \/ MediaType(SdkOf[c], args[c].binding) \notin Understood
       \/ e \notin Acceptable
       \/ entry # None /\ entry.envelope # e

(* body is among what was written, and is all of it in Python.             *)
BodiesInv ==
    \A c \in Call : /\ pc[c] = "idle" => written[c] = {}
                    /\ pc[c] \in {"sending", "waiting", "backoff"} => body[c] \in written[c]
                    /\ written[c] # {} => body[c] \in written[c]
                    /\ SdkOf[c] = Python => written[c] \subseteq {body[c]}

(* Requests carry what their call wrote, those of the current attempt what *)
(* it wrote last.                                                          *)
RequestsInv ==
    \A r \in net :
        /\ pc[r.call] # "idle"
        /\ r.envelope \in written[r.call]
        /\ r.attempt <= attempt[r.call]
        /\ r.attempt = attempt[r.call] => r.envelope = body[r.call]
        /\ r.mediaType = MediaType(SdkOf[r.call], args[r.call].binding)

EventsInv ==
    \A x \in events : /\ x.envelope \in written[x.call]
                      /\ ledger[Namespace(x.envelope)] # None
                      /\ ~Rejected(x.call, x.envelope)

(* The server's own promise: a (sender, idempotencyKey) has one event.     *)
LedgerInv ==
    /\ \A x, y \in events : Namespace(x.envelope) = Namespace(y.envelope) => x = y
    /\ \A k \in Namespaces : ledger[k] # None =>
         \E x \in events : Namespace(x.envelope) = k /\ x.envelope = ledger[k].envelope

RepliesInv ==
    \A c \in Call : /\ reply[c] # None => pc[c] = "waiting"
                    /\ reply[c].kind = "submission" => Confirmed(c, reply[c])
                    /\ reply[c].kind = "typed" => Rejected(c, body[c])

ResultsInv ==
    \A c \in Call : /\ outcome[c].kind = "submission" => Confirmed(c, outcome[c])
                    /\ HonestPath /\ IsRefusal(c) => Rejected(c, body[c])
                    /\ pc[c] # "done" => outcome[c] = None

(* The inductive invariant behind the properties above: what was written,  *)
(* what is on the wire, in the ledger, in the answers and in the results   *)
(* fits together.                                                          *)
IndInv == TypeOK /\ BodiesInv /\ RequestsInv /\ EventsInv /\ LedgerInv
             /\ RepliesInv /\ ResultsInv
-----------------------------------------------------------------------------
(* What each call was told, in the words of the abstract service.          *)
Verdict(c) ==
    IF outcome[c].kind = "none" THEN "pending"
    ELSE IF outcome[c].kind = "submission" THEN "accepted"
    ELSE IF HonestPath /\ IsRefusal(c) THEN "refused"
    ELSE "unknown"

Demand(e) == [key |-> Namespace(e), payload |-> e]

Service == INSTANCE IdempotentService WITH
    Keys     <- Namespaces,
    Payloads <- Envelopes,
    Fickle   <- {c \in Call : SdkOf[c] = TypeScript},
    Unbound  <- None,
    asked    <- [c \in Call |-> {Demand(e) : e \in written[c]}],
    binders  <- {x.call : x \in events},
    bound    <- [k \in Namespaces |->
                    IF ledger[k] = None THEN None ELSE ledger[k].envelope],
    verdict  <- [c \in Call |-> Verdict(c)]

(* Submission implements the abstract idempotent service: a refused call   *)
(* has bound nothing, an accepted one is bound to what it asked for, and   *)
(* only calls of TypeScript ask for a second thing.                        *)
ImplementsService == Service!Spec
=============================================================================
