----------------------------- MODULE MCBilling -----------------------------
(* Small instances of Billing: a lawyer with windows on three days of a week, *)
(* of which the second is a holiday.                                       *)
EXTENDS Billing, TLC

Thrice == << [weekday |-> 0, from |-> 2, to |-> 7, dur |-> 2],
             [weekday |-> 1, from |-> 2, to |-> 4, dur |-> 2],
             [weekday |-> 2, from |-> 2, to |-> 4, dur |-> 2] >>
(* An empty diary, and one with an appointment that was called off.        *)
CalledOff ==
    {[a \in Appt |-> NoRow]} \cup
    {[a \in Appt |-> IF a = x THEN [st |-> "CANCELLED", client |-> c, from |-> 2, to |-> 4]
                               ELSE NoRow] : x \in Appt, c \in Clients}
TwoSpans == {[from |-> 2, to |-> 4], [from |-> 3, to |-> 5]}
Symmetric == Permutations(Clients) \cup Permutations(Appt) \cup Permutations(Pay) \cup Permutations(EventWorkers)
=============================================================================
