---------------------------- MODULE MCSubmission ----------------------------
(* Small instances of Submission: two calls, and envelopes of one sender   *)
(* that collide on a key, differ only in the key, or are invalid.          *)
EXTENDS Submission

Envelope(key, document) ==
    [sender |-> "buyer", idempotencyKey |-> key, document |-> document]

MCEnvelopes  == {Envelope("k1", "rfq"), Envelope("k1", "order"),
                 Envelope("k2", "rfq"), Envelope("k3", "invalid")}
MCAcceptable == {e \in Envelopes : e.document # "invalid"}

(* One envelope that both calls may carry, and one of another key.         *)
FewEnvelopes  == {Envelope("k1", "rfq"), Envelope("k2", "rfq")}

AllPython     == [c \in Call |-> Python]
AllTypeScript == [c \in Call |-> TypeScript]
OneOfEach     == [c \in Call |-> IF c = "c1" THEN Python ELSE TypeScript]

Transients == {Unreachable, [status |-> 503, body |-> "object"],
               [status |-> 429, body |-> "garbled"]}

(* What proxies, gateways and the network make of an answer.               *)
PathFaults == Transients \cup
    {Lost, [status |-> 504, body |-> "odd"], [status |-> 502, body |-> "null"],
     [status |-> 500, body |-> "object"], [status |-> 500, body |-> "garbled"],
     [status |-> 200, body |-> "garbled"], [status |-> 200, body |-> "odd"]}

(* Without two that end as others do: a garbled 429 as any 503, and a 502  *)
(* of null as the odd 504.                                                 *)
FewerFaults == PathFaults \
    {[status |-> 429, body |-> "garbled"], [status |-> 502, body |-> "null"]}
=============================================================================
