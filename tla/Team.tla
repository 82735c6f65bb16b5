-------------------------------- MODULE Team --------------------------------
(***************************************************************************)
(* The team of one firm in two places: rows of app.users, which decide     *)
(* what a person may do (users.service.ts, auth.service.ts), and the       *)
(* organization at Clerk, which decides who may sign in                    *)
(* (clerk.organization-inviter.ts).  Requests of the team page run side by *)
(* side in Slots; each has its transactions and its calls to Clerk as      *)
(* steps of their own.  A transaction reads committed rows, and the row it *)
(* has written is locked until it ends.                                    *)
(*                                                                         *)
(* Abstracted: a person is one e-mail address and one Clerk account, so    *)
(* that lookups by address find nobody else; "Lawyer" stands for every     *)
(* role but Admin; Clerk is enabled and the firm linked to it; names and   *)
(* events of the audit log.  Left out: an update to INVITED, which the     *)
(* schema allows and no screen sends.                                      *)
(***************************************************************************)
EXTENDS Naturals, FiniteSets

CONSTANTS
    People,
    Founders,       \* active Admins of the firm at the start
    Slots,          \* requests of the team page under way at once
    OnePerPerson,   \* two of them never concern the same person
    MaxOps,         \* bound: requests of the team page
    MaxFaults       \* bound: failed calls, failed commits, edits at Clerk

ASSUME TeamParameters ==
    /\ Founders \subseteq People /\ Founders # {}
    /\ OnePerPerson \in BOOLEAN
    /\ MaxOps \in Nat /\ MaxFaults \in Nat

VARIABLES
    user,         \* committed rows of app.users
    invitation,   \* Clerk's pending invitation: the role it carries, or none
    member,       \* role in Clerk's organization, or none
    visit,        \* a person's own request while the principal is resolved
    demotion,     \* a demoteInClerk nobody waits for is under way
    op,           \* the request in a slot
    ops, faults, edits   \* how often, for the bounds

clerkVars == <<invitation, member>>
personVars == <<visit, demotion>>
counters == <<ops, faults, edits>>
vars == <<user, clerkVars, personVars, op, counters>>

-----------------------------------------------------------------------------
RoleNames == {"Admin", "Lawyer"}
ClerkRoles == {"none", "org:admin", "org:member"}
NoRow == [role |-> "none", status |-> "none", bound |-> FALSE]

(* "bound": clerkUserId is a Clerk account, not or no longer invite_...    *)
Rows == [role: RoleNames, status: {"INVITED", "ACTIVE", "SUSPENDED"}, bound: BOOLEAN]

Visits == [step: {"none", "resolve"}, claim: ClerkRoles]
NoVisit == [step |-> "none", claim |-> "none"]

(* A request: its next step, the person it is about, the role (to set, or  *)
(* to invite with) and status it carries.  History: the other Admins it    *)
(* has counted; the invitation that somebody whose row is bound had        *)
(* pending when Clerk was called.                                          *)
Ops == [step: {"idle", "write", "sync", "commit", "send", "revoke", "remove"},
        who: People, role: RoleNames \cup {"same"},
        status: {"same", "ACTIVE", "SUSPENDED"}, others: SUBSET People, link: ClerkRoles]
Idle == [step |-> "idle", who |-> CHOOSE p \in People : TRUE, role |-> "same",
         status |-> "same", others |-> {}, link |-> "none"]

(* Every variable has a value of its type.                                 *)
TypeOK ==
    /\ user \in [People -> Rows \cup {NoRow}]
    /\ invitation \in [People -> ClerkRoles]
    /\ member \in [People -> ClerkRoles]
    /\ visit \in [People -> Visits]
    /\ demotion \in [People -> BOOLEAN]
    /\ op \in [Slots -> Ops]
    /\ ops \in 0..MaxOps /\ faults \in 0..MaxFaults /\ edits \in 0..MaxFaults

IsActiveAdmin(row) == row.role = "Admin" /\ row.status = "ACTIVE"
ActiveAdmins == {p \in People : IsActiveAdmin(user[p])}
Busy(p) == \E s \in Slots : op[s].step # "idle" /\ op[s].who = p
Locked(p) == \E s \in Slots : op[s].step \in {"sync", "commit"} /\ op[s].who = p

(* Seeded bug: the firm's own name of the role goes to Clerk.              *)
RoleVerbatim(role) == role

(* clerkRole                                                               *)
OrgRole(role) == IF role = "Admin" THEN "org:admin" ELSE "org:member"

Fault == faults + edits < MaxFaults /\ faults' = faults + 1 /\ UNCHANGED <<ops, edits>>
Finish(s) == op' = [op EXCEPT ![s] = Idle]
Step(s, step) == op' = [op EXCEPT ![s].step = step]

-----------------------------------------------------------------------------
(* Requests of the team page: who may begin one, and what it reads first   *)

(* The guards let active Admins manage the team: users:write is theirs.    *)
Actors == {p \in ActiveAdmins : user[p].bound}

Begin(s, p, step, role, status) ==
    /\ op[s].step = "idle" /\ ops < MaxOps
    /\ OnePerPerson => ~Busy(p)
    /\ op' = [op EXCEPT ![s] = [step |-> step, who |-> p, role |-> role,
                                status |-> status, others |-> ActiveAdmins \ {p},
                                link |-> "none"]]
    /\ ops' = ops + 1
    /\ UNCHANGED <<clerkVars, personVars, faults, edits>>

(* Seeded bug: the person who is to go is counted as well.                 *)
CountsHimself(p) == IsActiveAdmin(user[p]) => ActiveAdmins # {}

(* assertNotLastAdmin                                                      *)
NotLastAdmin(p) == IsActiveAdmin(user[p]) => ActiveAdmins \ {p} # {}

(* update, with a role or a status: reads, guards.  Nobody suspends        *)
(* himself.                                                                *)
BeginUpdate(s, p, role, status) ==
    /\ Actors # {} /\ user[p] # NoRow
    /\ role # "same" \/ status # "same"
    /\ status = "SUSPENDED" => Actors \ {p} # {}
    /\ role \notin {"same", user[p].role} \/ status \notin {"same", "ACTIVE"}
         => NotLastAdmin(p)
    /\ Begin(s, p, "write", role, status)
    /\ UNCHANGED user

BeginDeactivate(s, p) ==
    /\ Actors \ {p} # {} /\ user[p] # NoRow
    /\ user[p].status # "SUSPENDED"
    /\ NotLastAdmin(p)
    /\ Begin(s, p, "write", "same", "SUSPENDED")
    /\ UNCHANGED user

BeginReactivate(s, p) ==
    /\ Actors # {} /\ user[p] # NoRow
    /\ user[p].status # "ACTIVE"
    /\ Begin(s, p, "write", "same", "ACTIVE")
    /\ UNCHANGED user

(* invite: the transaction that creates the row, or finds it still         *)
(* INVITED; the invitation carries the role that was asked for.  The       *)
(* caller may name the account the row is for (known).                     *)
BeginInvite(s, p, role, known) ==
    /\ Actors # {}
    /\ user[p] = NoRow \/ user[p].status = "INVITED"
    /\ user' = IF user[p] = NoRow
                 THEN [user EXCEPT ![p] = [role |-> role, status |-> "INVITED", bound |-> known]]
                 ELSE user
    /\ Begin(s, p, "send", role, "same")

BeginResend(s, p) ==
    /\ Actors # {} /\ user[p].status = "INVITED"
    /\ Begin(s, p, "send", user[p].role, "same")
    /\ UNCHANGED user

BeginCancel(s, p) ==
    /\ Actors # {} /\ user[p].status = "INVITED"
    /\ Begin(s, p, "revoke", "same", "same")
    /\ UNCHANGED user

-----------------------------------------------------------------------------
(* update, deactivate, reactivate: the rest of the transaction             *)

(* The row as the transaction has written it.                              *)
Written(s) ==
    LET row == user[op[s].who]
    IN  [row EXCEPT !.role = IF op[s].role = "same" THEN @ ELSE op[s].role,
                    !.status = IF op[s].status = "same" THEN @ ELSE op[s].status]

(* tx.user.update: waits for the row, and throws when it is gone.          *)
WriteRow(s) ==
    /\ op[s].step = "write" /\ ~Locked(op[s].who)
    /\ IF user[op[s].who] = NoRow THEN Finish(s) ELSE Step(s, "sync")
    /\ UNCHANGED <<user, clerkVars, personVars, counters>>

(* Seeded bug: the role is taken from the name alone.                      *)
SyncedByName(s) ==
    LET p == op[s].who  row == Written(s)
        role == OrgRole(row.role)
        Now(r) == IF r = "none" THEN "none" ELSE role
        gone == ~row.bound /\ row.status = "SUSPENDED"
    IN  <<IF row.bound THEN invitation[p] ELSE IF gone THEN "none" ELSE Now(invitation[p]),
          IF gone THEN "none" ELSE Now(member[p])>>

(* syncClerkRole: the invitation and the membership it aims at.  A person  *)
(* whose row is bound is addressed by id; an invitee by address,           *)
(* invitation and membership alike (retargetPending, revokeInvitation).    *)
Synced(s) ==
    LET p == op[s].who  row == Written(s)
        role == IF IsActiveAdmin(row) THEN "org:admin" ELSE "org:member"
        Now(r) == IF r = "none" THEN "none" ELSE role
        gone == ~row.bound /\ row.status = "SUSPENDED"
    IN  <<IF row.bound THEN invitation[p] ELSE IF gone THEN "none" ELSE Now(invitation[p]),
          IF gone THEN "none" ELSE Now(member[p])>>

SyncClerk(s) ==
    /\ op[s].step = "sync"
    /\ invitation' = [invitation EXCEPT ![op[s].who] = Synced(s)[1]]
    /\ member' = [member EXCEPT ![op[s].who] = Synced(s)[2]]
    /\ op' = [op EXCEPT ![s].step = "commit",
                        ![s].link = IF user[op[s].who].bound THEN invitation[op[s].who] ELSE @]
    /\ UNCHANGED <<user, personVars, counters>>

(* Clerk refuses or is away: the transaction is rolled back.  The requests *)
(* the call is made of may have been carried out up to any point: nothing, *)
(* a stale invitation revoked, the new one sent, all but the answer.       *)
SyncRefused(s) ==
    LET p == op[s].who
        revoked == IF invitation[p] = Synced(s)[1] THEN {} ELSE {<<"none", member[p]>>}
        reached == {<<invitation[p], member[p]>>, <<Synced(s)[1], member[p]>>, Synced(s)}
    IN  /\ op[s].step = "sync" /\ Fault
        /\ \E done \in reached \cup revoked :
              /\ invitation' = [invitation EXCEPT ![p] = done[1]]
              /\ member' = [member EXCEPT ![p] = done[2]]
        /\ Finish(s)
        /\ UNCHANGED <<user, personVars>>

Commit(s) ==
    /\ op[s].step = "commit"
    /\ user' = [user EXCEPT ![op[s].who] = Written(s)]
    /\ Finish(s)
    /\ UNCHANGED <<clerkVars, personVars, counters>>

(* The connection is lost or the transaction has timed out: Clerk has      *)
(* changed, the row has not.                                               *)
CommitFails(s) ==
    /\ op[s].step = "commit" /\ Fault
    /\ Finish(s)
    /\ UNCHANGED <<user, clerkVars, personVars>>

-----------------------------------------------------------------------------
(* invite, resendInvite, cancelInvite: the calls after the transaction     *)

(* inviteMember: nothing for a member; a pending invitation is replaced.   *)
SendInvite(s) ==
    LET p == op[s].who
    IN  /\ op[s].step = "send"
        /\ invitation' = IF member[p] # "none" THEN invitation
                           ELSE [invitation EXCEPT ![p] = OrgRole(op[s].role)]
        /\ Finish(s)
        /\ UNCHANGED <<user, member, personVars, counters>>

(* The call throws: before or after a pending invitation is revoked, or    *)
(* with the new one sent and the answer lost.                              *)
SendFails(s) ==
    LET p == op[s].who
        sent == IF member[p] # "none" THEN {} ELSE {"none", OrgRole(op[s].role)}
    IN  /\ op[s].step = "send" /\ Fault
        /\ \E i \in {invitation[p]} \cup sent : invitation' = [invitation EXCEPT ![p] = i]
        /\ Finish(s)
        /\ UNCHANGED <<user, member, personVars>>

(* Seeded bug: only what is pending is revoked.                            *)
RevokePending(s) ==
    /\ op[s].step = "revoke"
    /\ invitation' = [invitation EXCEPT ![op[s].who] = "none"]
    /\ Step(s, "remove")
    /\ UNCHANGED <<user, member, personVars, counters>>

(* revokeInvitation: the pending invitation, and the membership if it has  *)
(* been accepted.  The list of protected accounts was read while the row   *)
(* was INVITED, so this person is not on it.                               *)
Revoke(s) ==
    /\ op[s].step = "revoke"
    /\ invitation' = [invitation EXCEPT ![op[s].who] = "none"]
    /\ member' = [member EXCEPT ![op[s].who] = "none"]
    /\ Step(s, "remove")
    /\ UNCHANGED <<user, personVars, counters>>

(* Clerk is away: the row stays.                                           *)
RevokeFails(s) ==
    LET p == op[s].who
    IN  /\ op[s].step = "revoke" /\ Fault
        /\ \/ UNCHANGED clerkVars
           \/ /\ invitation' = [invitation EXCEPT ![p] = "none"]
              /\ \E m \in {member[p], "none"} : member' = [member EXCEPT ![p] = m]
        /\ Finish(s)
        /\ UNCHANGED <<user, personVars>>

(* deleteMany where INVITED, in a transaction of its own.                  *)
RemoveRow(s) ==
    LET p == op[s].who
    IN  /\ op[s].step = "remove" /\ ~Locked(p)
        /\ user' = IF user[p].status = "INVITED" THEN [user EXCEPT ![p] = NoRow] ELSE user
        /\ Finish(s)
        /\ UNCHANGED <<clerkVars, personVars, counters>>

RemoveFails(s) ==
    /\ op[s].step = "remove" /\ Fault
    /\ Finish(s)
    /\ UNCHANGED <<user, clerkVars, personVars>>

-----------------------------------------------------------------------------
(* The people themselves, and Clerk                                        *)

(* The link in the e-mail.                                                 *)
Accept(p) ==
    /\ invitation[p] # "none" /\ member[p] = "none"
    /\ member' = [member EXCEPT ![p] = invitation[p]]
    /\ invitation' = [invitation EXCEPT ![p] = "none"]
    /\ UNCHANGED <<user, personVars, op, counters>>

(* A request reaches AuthGuard with a token Clerk has signed.  Requests of *)
(* a plain member whose row is bound and no invitee's change nothing.      *)
Visit(p) ==
    /\ member[p] # "none" /\ visit[p].step = "none"
    /\ user[p].bound /\ user[p].status # "INVITED" => member[p] = "org:admin"
    /\ visit' = [visit EXCEPT ![p] = [step |-> "resolve", claim |-> member[p]]]
    /\ UNCHANGED <<user, clerkVars, demotion, op, counters>>

(* findExistingUser and the activation of an invited row: the row a        *)
(* principal is resolved to.  An invitee's row is bound and activated.     *)
SignedIn(row) ==
    [row EXCEPT !.bound = TRUE, !.status = IF @ = "INVITED" THEN "ACTIVE" ELSE @]

(* Seeded bug: only those who are let in are looked at.                    *)
DemotesActive(p, row) == visit[p].claim = "org:admin" /\ row.status = "SUSPENDED"

(* The safety net: org:admin in the token of somebody who is no active     *)
(* Admin here.                                                             *)
Demotes(p, row) == visit[p].claim = "org:admin" /\ ~IsActiveAdmin(row)

(* resolvePrincipal for a person with a row.  A write waits for the row;   *)
(* who is refused throws inside the transaction, which undoes the binding. *)
ResolveMember(p) ==
    LET row == SignedIn(user[p])
    IN  /\ visit[p].step = "resolve" /\ user[p] # NoRow
        /\ row # user[p] => ~Locked(p)
        /\ user' = IF row.status = "ACTIVE" THEN [user EXCEPT ![p] = row] ELSE user
        /\ demotion' = [demotion EXCEPT ![p] = @ \/ Demotes(p, row)]
        /\ visit' = [visit EXCEPT ![p] = NoVisit]
        /\ UNCHANGED <<clerkVars, op, counters>>

(* provisionOwnerIfAllowed: an org admin, or the first of all, becomes     *)
(* Admin; anybody else is refused.                                         *)
ResolveStranger(p) ==
    /\ visit[p].step = "resolve" /\ user[p] = NoRow
    /\ user' = IF visit[p].claim = "org:admin" \/ \A q \in People : user[q] = NoRow
                 THEN [user EXCEPT ![p] = [role |-> "Admin", status |-> "ACTIVE", bound |-> TRUE]]
                 ELSE user
    /\ visit' = [visit EXCEPT ![p] = NoVisit]
    /\ UNCHANGED <<clerkVars, demotion, op, counters>>

(* demoteInClerk, once it is answered.                                     *)
Demote(p) ==
    /\ demotion[p]
    /\ member' = [member EXCEPT ![p] = IF @ = "none" THEN @ ELSE "org:member"]
    /\ demotion' = [demotion EXCEPT ![p] = FALSE]
    /\ UNCHANGED <<user, invitation, visit, op, counters>>

(* A failure is logged and forgotten.                                      *)
DemoteFails(p) ==
    /\ demotion[p] /\ Fault
    /\ demotion' = [demotion EXCEPT ![p] = FALSE]
    /\ UNCHANGED <<user, clerkVars, visit, op>>

(* An org admin works in Clerk's dashboard: anybody may get any role.      *)
ClerkEdit(p, role) ==
    /\ faults + edits < MaxFaults /\ edits' = edits + 1
    /\ member[p] # role
    /\ member' = [member EXCEPT ![p] = role]
    /\ UNCHANGED <<user, invitation, personVars, op, ops, faults>>

-----------------------------------------------------------------------------
Init ==
    /\ user = [p \in People |->
                 IF p \in Founders
                   THEN [role |-> "Admin", status |-> "ACTIVE", bound |-> TRUE] ELSE NoRow]
    /\ invitation = [p \in People |-> "none"]
    /\ member = [p \in People |-> IF p \in Founders THEN "org:admin" ELSE "none"]
    /\ visit = [p \in People |-> NoVisit]
    /\ demotion = [p \in People |-> FALSE]
    /\ op = [s \in Slots |-> Idle]
    /\ ops = 0 /\ faults = 0 /\ edits = 0

Request(s) ==
    \E p \in People :
        \/ \E role \in RoleNames \cup {"same"}, status \in {"same", "ACTIVE", "SUSPENDED"} :
              BeginUpdate(s, p, role, status)
        \/ BeginDeactivate(s, p)
        \/ BeginReactivate(s, p)
        \/ \E role \in RoleNames, known \in BOOLEAN : BeginInvite(s, p, role, known)
        \/ BeginResend(s, p)
        \/ BeginCancel(s, p)

Proceed(s) ==
    \/ WriteRow(s) \/ SyncClerk(s) \/ Commit(s)
    \/ SendInvite(s) \/ Revoke(s) \/ RemoveRow(s)

Fails(s) ==
    \/ SyncRefused(s) \/ CommitFails(s) \/ SendFails(s) \/ RevokeFails(s) \/ RemoveFails(s)

Person(p) ==
    \/ Accept(p) \/ Visit(p) \/ ResolveMember(p) \/ ResolveStranger(p)
    \/ Demote(p) \/ DemoteFails(p)
    \/ \E role \in ClerkRoles : ClerkEdit(p, role)

Next ==
    \/ \E s \in Slots : Request(s) \/ Proceed(s) \/ Fails(s)
    \/ \E p \in People : Person(p)

Spec == Init /\ [][Next]_vars

(* A request that has begun goes on.  Members of the organization come     *)
(* back now and then; nothing is assumed of invitees, Admins and failures. *)
Fairness ==
    /\ \A s \in Slots : WF_vars(Proceed(s))
    /\ \A p \in People : /\ WF_vars(Visit(p) \/ ResolveMember(p) \/ ResolveStranger(p))
                         /\ WF_vars(Demote(p))

FairSpec == Spec /\ Fairness

-----------------------------------------------------------------------------
(* "The firm needs at least one active Admin" (assertNotLastAdmin): one    *)
(* request alone cannot take the last active Admin away.  Where the firm   *)
(* is left without, the request had counted another Admin, whom a second   *)
(* request took away before this one committed.                            *)
OneRequestCannotLockOut ==
    [][ActiveAdmins # {} /\ ActiveAdmins' = {} =>
         \E s \in Slots : /\ op[s].step = "commit" /\ op'[s].step = "idle"
                          /\ op[s].others \ ActiveAdmins # {}]_vars

(* A cancelled invitation is gone from both places (cancelInvite): nobody  *)
(* without a row has a working link or a membership, however acceptance,   *)
(* sign-in and failing calls fall between its steps.                       *)
CancelledIsGone ==
    edits = 0 =>
      \A p \in People : user[p] = NoRow /\ ~Busy(p) =>
                          invitation[p] = "none" /\ member[p] = "none"

(* When a change of role or status commits, Clerk does not call somebody   *)
(* org:admin who is no active Admin (syncClerkRole).  Not so for who is    *)
(* addressed by id and holds an invitation as well, because it was sent    *)
(* while his first sign-in was being served or names his account:          *)
(* syncClerkRole leaves it alone, and he may accept it meanwhile.          *)
ClerkFollowsChanges ==
    [][\A s \in Slots :
         LET p == op[s].who
         IN  op[s].step = "commit" /\ user'[p] # user[p] /\ edits = 0 /\ op[s].link = "none" =>
               (member[p] = "org:admin" => IsActiveAdmin(user'[p]))]_vars

(* Drift between the two places, however it came about, does not last: who *)
(* is org:admin at Clerk without being an active Admin loses it after one  *)
(* of the next requests (resolvePrincipal's safety net), or becomes Admin. *)
Drift(p) == member[p] = "org:admin" /\ ~IsActiveAdmin(user[p])
DriftHeals == \A p \in People : Drift(p) ~> ~Drift(p)
=============================================================================
