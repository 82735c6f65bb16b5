----------------------------- MODULE FrontDesk -----------------------------
(***************************************************************************)
(* What the front desk promises a client, without queues, leases or models:*)
(* every message is received once, and answered at most once, possibly     *)
(* together with others; a message may also be left to people, who are not *)
(* part of this specification, and may still be answered after that.       *)
(***************************************************************************)
EXTENDS Naturals

CONSTANT Msg   \* the client's messages

VARIABLES received,  \* messages the firm has
          replies,   \* answers each message got
          left       \* messages left to people

vars == <<received, replies, left>>

Init == received = {} /\ replies = [m \in Msg |-> 0] /\ left = {}

Receive(m) ==
    /\ m \in Msg \ received
    /\ received' = received \cup {m}
    /\ UNCHANGED <<replies, left>>

(* One answer for a set of messages none of which has one.                 *)
Answer(S) ==
    /\ S \subseteq received
    /\ \A m \in S : replies[m] = 0
    /\ replies' = [m \in Msg |-> IF m \in S THEN 1 ELSE replies[m]]
    /\ UNCHANGED <<received, left>>

Leave(S) ==
    /\ S \subseteq received
    /\ left' = left \cup S
    /\ UNCHANGED <<received, replies>>

Next ==
    \/ \E m \in Msg : Receive(m)
    \/ \E S \in SUBSET received : Answer(S) \/ Leave(S)

Spec == Init /\ [][Next]_vars
=============================================================================
