----------------------------- MODULE MCDelivery -----------------------------
(* Small instances of Delivery: two workers of one agent, one inbox.       *)
EXTENDS Delivery

AllPython     == [w \in Worker |-> Python]
AllTypeScript == [w \in Worker |-> TypeScript]

(* A gateway that gives up on the server, and a connection refused.        *)
GatewayFaults == {Unreachable, [status |-> 504, body |-> "object"]}

(* ... and answers lost on the way.                                        *)
PathFaults == GatewayFaults \cup {Lost}
=============================================================================
