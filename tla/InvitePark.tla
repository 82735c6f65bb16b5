----------------------------- MODULE InvitePark -----------------------------
(***************************************************************************)
(* The SIP INVITEs of Wavoip and the connect jobs that wait for them       *)
(* (sip-invite-park.ts).  Each side comes first as often as the other: an  *)
(* INVITE waits in the park for a job, a job in the list of waiters for an *)
(* INVITE, both for 25 seconds.  They match by the caller's number; since  *)
(* WhatsApp and SIP may disagree on it, a lone INVITE and a lone job match *)
(* anyway.  Abstracted: the order of those that match alike.               *)
(***************************************************************************)
EXTENDS Integers, FiniteSets

CONSTANTS
    Callers,   \* calls whose job may wait
    Invites,   \* INVITEs, each sent once
    Matches    \* phonesMatch: pairs of a caller and an INVITE

ASSUME ParkParameters ==
    /\ Matches \subseteq Callers \X Invites
    /\ {"unsent", "parked", "over"} \cap Callers = {}

VARIABLES
    waiters,   \* callers whose claim is not resolved
    invite     \* each INVITE: unsent, parked, over, or the caller that has it

parkVars == <<waiters, invite>>

Parked == {i \in Invites : invite[i] = "parked"}
DialogsOf(k) == {i \in Invites : invite[i] = k}

(* Seeded bug: a job that comes late does not look into the park.          *)
ClaimBlindly(k) ==
    /\ k \notin waiters /\ DialogsOf(k) = {}
    /\ waiters' = waiters \cup {k} /\ UNCHANGED invite

(* claim: a parked INVITE of this number, the only one there is while      *)
(* nobody else waits, or a place among the waiters.                        *)
Claim(k) ==
    LET mine == {i \in Parked : <<k, i>> \in Matches}
        sole == IF Cardinality(Parked) = 1 /\ waiters = {} THEN Parked ELSE {}
        found == IF mine # {} THEN mine ELSE sole
    IN  /\ k \notin waiters /\ DialogsOf(k) = {}
        /\ \/ \E i \in found : invite' = [invite EXCEPT ![i] = k] /\ UNCHANGED waiters
           \/ found = {} /\ waiters' = waiters \cup {k} /\ UNCHANGED invite

(* Seeded bug: the waiter is not taken off the list.                       *)
ParkTwice(i) ==
    LET mine == {k \in waiters : <<k, i>> \in Matches}
        sole == IF Cardinality(waiters) = 1 /\ Parked = {} THEN waiters ELSE {}
        found == IF mine # {} THEN mine ELSE sole
    IN  /\ invite[i] = "unsent"
        /\ \/ \E k \in found : invite' = [invite EXCEPT ![i] = k] /\ UNCHANGED waiters
           \/ found = {} /\ invite' = [invite EXCEPT ![i] = "parked"] /\ UNCHANGED waiters

(* park: to a waiter of this number, to the only waiter if nothing is      *)
(* parked, or into the park.                                               *)
Park(i) ==
    LET mine == {k \in waiters : <<k, i>> \in Matches}
        sole == IF Cardinality(waiters) = 1 /\ Parked = {} THEN waiters ELSE {}
        found == IF mine # {} THEN mine ELSE sole
    IN  /\ invite[i] = "unsent"
        /\ \/ \E k \in found : /\ invite' = [invite EXCEPT ![i] = k]
                               /\ waiters' = waiters \ {k}
           \/ found = {} /\ invite' = [invite EXCEPT ![i] = "parked"] /\ UNCHANGED waiters

(* A parked INVITE is idle for too long, or its caller gives up (drop).    *)
LeavePark(i) ==
    /\ invite[i] = "parked"
    /\ invite' = [invite EXCEPT ![i] = "over"] /\ UNCHANGED waiters

(* The claim resolves to null after 25 s.                                  *)
ClaimTimesOut(k) ==
    /\ k \in waiters
    /\ waiters' = waiters \ {k} /\ UNCHANGED invite

(* The dialogs of a caller end, or nobody has them any more.               *)
DropDialogs(k) == invite' = [i \in Invites |-> IF invite[i] = k THEN "over" ELSE invite[i]]

(* The process that held the park is gone.                                 *)
ParkLost ==
    /\ waiters' = {}
    /\ invite' = [i \in Invites |-> IF invite[i] = "unsent" THEN "unsent" ELSE "over"]

ParkInit == waiters = {} /\ invite = [i \in Invites |-> "unsent"]

ParkTypeOK ==
    /\ waiters \subseteq Callers
    /\ invite \in [Invites -> {"unsent", "parked", "over"} \cup Callers]

-----------------------------------------------------------------------------
(* Properties                                                              *)

(* claim resolves once: a caller gets no second INVITE, and one that has   *)
(* an INVITE waits for no other.                                           *)
OneInvitePerCaller ==
    \A i \in Invites : invite[i] \in Callers =>
        invite[i] \notin waiters /\ DialogsOf(invite[i]) = {i}

(* Nobody waits for an INVITE that lies in the park, whichever came first  *)
(* and whoever left in between.                                            *)
NoMatchWaits == \A k \in waiters, i \in Parked : <<k, i>> \notin Matches
=============================================================================
