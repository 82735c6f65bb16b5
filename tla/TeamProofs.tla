----------------------------- MODULE TeamProofs -----------------------------
(***************************************************************************)
(* The team and Clerk, for every number of people, requests and failures.  *)
(***************************************************************************)
EXTENDS Team, TLAPS

(* A row that a transaction has written and locked is there.               *)
LockedRowsExist ==
    \A s \in Slots : op[s].step \in {"sync", "commit"} => user[op[s].who] # NoRow

Typed == TypeOK /\ LockedRowsExist

LEMMA IdleType == Idle \in Ops /\ Idle.step = "idle"
<1>1. PICK q \in Founders : TRUE
  BY TeamParameters
<1>2. (CHOOSE p \in People : TRUE) \in People
  BY <1>1, TeamParameters
<1>3. QED
  BY <1>2 DEF Idle, Ops, ClerkRoles

LEMMA NoRowIsNone == NoRow \notin Rows
  BY DEF NoRow, Rows, RoleNames

LEMMA FinishType ==
  ASSUME TypeOK, NEW s \in Slots, Finish(s)
  PROVE  /\ op' \in [Slots -> Ops] /\ op'[s].step = "idle"
         /\ \A t \in Slots : t # s => op'[t] = op[t]
  BY IdleType DEF Finish, TypeOK

LEMMA StepOnly ==
  ASSUME TypeOK, NEW s \in Slots, NEW step \in {"sync", "commit", "remove"}, Step(s, step)
  PROVE  /\ op' \in [Slots -> Ops]
         /\ op'[s].step = step /\ op'[s].who = op[s].who /\ op'[s].role = op[s].role
         /\ op'[s].status = op[s].status /\ op'[s].others = op[s].others
         /\ op'[s].link = op[s].link
         /\ \A t \in Slots : t # s => op'[t] = op[t]
<1>1. op[s] \in Ops
  BY DEF TypeOK
<1>2. [op[s] EXCEPT !.step = step] \in Ops
  BY <1>1 DEF Ops
<1>3. op'[s] = [op[s] EXCEPT !.step = step]
  BY DEF TypeOK, Step
<1>4. QED
  BY <1>1, <1>2, <1>3 DEF TypeOK, Ops, Step

LEMMA SyncStep ==
  ASSUME TypeOK, NEW s \in Slots, SyncClerk(s)
  PROVE  /\ op' \in [Slots -> Ops]
         /\ op'[s].step = "commit" /\ op'[s].who = op[s].who /\ op'[s].role = op[s].role
         /\ op'[s].status = op[s].status /\ op'[s].others = op[s].others
         /\ op'[s].link = IF user[op[s].who].bound THEN invitation[op[s].who] ELSE op[s].link
         /\ \A t \in Slots : t # s => op'[t] = op[t]
<1> DEFINE link == IF user[op[s].who].bound THEN invitation[op[s].who] ELSE op[s].link
<1>1. op[s] \in Ops
  BY DEF TypeOK
<1>2. link \in ClerkRoles
  BY <1>1 DEF TypeOK, Ops
<1>3. op' = [op EXCEPT ![s] = [op[s] EXCEPT !.step = "commit", !.link = link]]
  BY DEF SyncClerk, TypeOK
<1> HIDE DEF link
<1>4. [op[s] EXCEPT !.step = "commit", !.link = link] \in Ops
  BY <1>1, <1>2 DEF Ops
<1>5. op'[s] = [op[s] EXCEPT !.step = "commit", !.link = link]
  BY <1>3 DEF TypeOK
<1>6. /\ op'[s].step = "commit" /\ op'[s].who = op[s].who /\ op'[s].role = op[s].role
      /\ op'[s].status = op[s].status /\ op'[s].others = op[s].others /\ op'[s].link = link
  BY <1>1, <1>5 DEF Ops
<1>7. QED
  BY <1>3, <1>4, <1>6 DEF TypeOK, link

(* syncClerkRole in terms of the row: roles of Clerk's, and org:admin only *)
(* for an active Admin, except for what a bound row leaves alone.          *)
LEMMA SyncedRoles ==
  ASSUME TypeOK, NEW s \in Slots
  PROVE  /\ Synced(s)[1] \in ClerkRoles /\ Synced(s)[2] \in ClerkRoles
         /\ Synced(s)[2] = "org:admin" => IsActiveAdmin(Written(s))
         /\ Written(s).bound => Synced(s)[1] = invitation[op[s].who]
         /\ ~Written(s).bound /\ Synced(s)[1] = "org:admin" => IsActiveAdmin(Written(s))
<1> DEFINE p == op[s].who
           row == Written(s)
           role == IF IsActiveAdmin(row) THEN "org:admin" ELSE "org:member"
           Now(r) == IF r = "none" THEN "none" ELSE role
           gone == ~row.bound /\ row.status = "SUSPENDED"
<1>1. invitation[p] \in ClerkRoles /\ member[p] \in ClerkRoles
  BY DEF TypeOK, Ops
<1>2. /\ Now(invitation[p]) \in ClerkRoles /\ Now(member[p]) \in ClerkRoles
      /\ Now(invitation[p]) = "org:admin" => IsActiveAdmin(row)
      /\ Now(member[p]) = "org:admin" => IsActiveAdmin(row)
  BY DEF ClerkRoles
<1>3. Synced(s) =
        <<IF row.bound THEN invitation[p] ELSE IF gone THEN "none" ELSE Now(invitation[p]),
          IF gone THEN "none" ELSE Now(member[p])>>
  BY DEF Synced
<1> HIDE DEF Now, row
<1>4. QED
  BY <1>1, <1>2, <1>3 DEF ClerkRoles, row

LEMMA WrittenType ==
  ASSUME TypeOK, NEW s \in Slots, user[op[s].who] # NoRow
  PROVE  /\ Written(s) \in Rows /\ Written(s).bound = user[op[s].who].bound
         /\ Written(s).role = (IF op[s].role = "same" THEN user[op[s].who].role ELSE op[s].role)
         /\ Written(s).status = (IF op[s].status = "same" THEN user[op[s].who].status
                                                           ELSE op[s].status)
<1>1. user[op[s].who] \in Rows /\ op[s] \in Ops
  BY DEF TypeOK, Ops
<1>2. QED
  BY <1>1 DEF Written, Rows, Ops, RoleNames

LEMMA SignedInType ==
  ASSUME NEW row \in Rows
  PROVE  /\ SignedIn(row) \in Rows /\ SignedIn(row).role = row.role
         /\ SignedIn(row).bound
         /\ row.status # "INVITED" => SignedIn(row).status = row.status
  BY DEF SignedIn, Rows

LEMMA FaultType ==
  ASSUME TypeOK, Fault
  PROVE  /\ faults' \in 0..MaxFaults
         /\ UNCHANGED <<ops, edits>>
  BY TeamParameters DEF Fault, TypeOK

(* An own row changes, or a row appears where none was.                    *)
LEMMA NewRowType ==
  ASSUME TypeOK, NEW p \in People, NEW row \in Rows,
         user' = [user EXCEPT ![p] = row]
  PROVE  user' \in [People -> Rows \cup {NoRow}] /\ user'[p] # NoRow
         /\ \A q \in People : q # p => user'[q] = user[q]
  BY NoRowIsNone DEF TypeOK

-----------------------------------------------------------------------------
(* Types: one step per action.                                             *)

(* What a request takes into its slot, and what it does before it does so. *)
LEMMA RequestBegins ==
  ASSUME TypeOK, NEW s \in Slots, Request(s)
  PROVE  \E p \in People :
             /\ op' \in [Slots -> Ops] /\ ops' \in 0..MaxOps
             /\ op'[s].who = p
             /\ op[s].step = "idle" /\ op'[s].step \in {"write", "send", "revoke"}
             /\ OnePerPerson => ~Busy(p)
             /\ op'[s].others = ActiveAdmins \ {p}
             /\ op'[s].step = "write" /\ op'[s].others = {} =>
                  op'[s].role \in {"same", "Admin"} /\ op'[s].status \in {"same", "ACTIVE"}
             /\ \A t \in Slots : t # s => op'[t] = op[t]
             /\ user' \in [People -> Rows \cup {NoRow}] /\ user'[p] # NoRow
             /\ \A q \in People : q # p \/ user[q] # NoRow => user'[q] = user[q]
             /\ UNCHANGED <<invitation, member, visit, demotion, faults, edits>>
<1>1. PICK p \in People :
        \/ \E role \in RoleNames \cup {"same"}, status \in {"same", "ACTIVE", "SUSPENDED"} :
              BeginUpdate(s, p, role, status)
        \/ BeginDeactivate(s, p)
        \/ BeginReactivate(s, p)
        \/ \E role \in RoleNames, known \in BOOLEAN : BeginInvite(s, p, role, known)
        \/ BeginResend(s, p)
        \/ BeginCancel(s, p)
  BY DEF Request
<1>2. user[p] \in Rows \cup {NoRow}
  BY DEF TypeOK
<1>3. PICK step \in {"write", "send", "revoke"}, role \in RoleNames \cup {"same"},
         status \in {"same", "ACTIVE", "SUSPENDED"} :
         /\ Begin(s, p, step, role, status)
         /\ step = "write" /\ ActiveAdmins \ {p} = {} =>
              role \in {"same", "Admin"} /\ status \in {"same", "ACTIVE"}
  <2>1. CASE \E role \in RoleNames \cup {"same"}, status \in {"same", "ACTIVE", "SUSPENDED"} :
               BeginUpdate(s, p, role, status)
    <3>1. PICK role \in RoleNames \cup {"same"}, status \in {"same", "ACTIVE", "SUSPENDED"} :
            BeginUpdate(s, p, role, status)
      BY <2>1
    <3>2. ASSUME ActiveAdmins \ {p} = {}
          PROVE  role \in {"same", "Admin"} /\ status \in {"same", "ACTIVE"}
      <4>1. p \in ActiveAdmins
        BY <3>1, <3>2 DEF BeginUpdate, Actors
      <4>2. IsActiveAdmin(user[p]) /\ ~NotLastAdmin(p)
        BY <3>2, <4>1 DEF ActiveAdmins, NotLastAdmin
      <4>3. role \in {"same", user[p].role} /\ status \in {"same", "ACTIVE"}
        BY <3>1, <4>2 DEF BeginUpdate
      <4>4. QED
        BY <4>2, <4>3 DEF IsActiveAdmin
    <3>3. QED
      BY <3>1, <3>2 DEF BeginUpdate
  <2>2. CASE BeginDeactivate(s, p)
    <3>1. ActiveAdmins \ {p} # {}
      BY <2>2 DEF BeginDeactivate, Actors
    <3>2. QED
      BY <2>2, <3>1 DEF BeginDeactivate
  <2>3. CASE BeginReactivate(s, p)
    BY <2>3 DEF BeginReactivate
  <2>4. CASE \E role \in RoleNames, known \in BOOLEAN : BeginInvite(s, p, role, known)
    BY <2>4 DEF BeginInvite
  <2>5. CASE BeginResend(s, p)
    <3>1. user[p] \in Rows
      BY <1>2, <2>5 DEF BeginResend, NoRow
    <3>2. QED
      BY <2>5, <3>1 DEF BeginResend, Rows
  <2>6. CASE BeginCancel(s, p)
    BY <2>6 DEF BeginCancel
  <2>7. QED
    BY <1>1, <2>1, <2>2, <2>3, <2>4, <2>5, <2>6
<1> DEFINE new == [step |-> step, who |-> p, role |-> role, status |-> status,
                   others |-> ActiveAdmins \ {p}, link |-> "none"]
<1>4. new \in Ops
  BY DEF Ops, ActiveAdmins, ClerkRoles
<1>5. /\ op' \in [Slots -> Ops] /\ ops' \in 0..MaxOps /\ op'[s] = new
      /\ op[s].step = "idle" /\ (OnePerPerson => ~Busy(p))
      /\ \A t \in Slots : t # s => op'[t] = op[t]
      /\ UNCHANGED <<invitation, member, visit, demotion, faults, edits>>
  BY <1>3, <1>4, TeamParameters DEF Begin, TypeOK, clerkVars, personVars
<1>6. /\ user' \in [People -> Rows \cup {NoRow}] /\ user'[p] # NoRow
      /\ \A q \in People : q # p \/ user[q] # NoRow => user'[q] = user[q]
  <2>1. CASE user' = user
    <3>1. user[p] # NoRow
      <4>1. CASE user[p].status = "INVITED"
        BY <4>1 DEF NoRow
      <4>2. CASE \E r \in RoleNames, k \in BOOLEAN : BeginInvite(s, p, r, k) /\ user[p] = NoRow
        <5>1. PICK r \in RoleNames, k \in BOOLEAN :
                user' = [user EXCEPT ![p] = [role |-> r, status |-> "INVITED", bound |-> k]]
          BY <4>2 DEF BeginInvite
        <5>2. user'[p].status = "INVITED"
          BY <5>1 DEF TypeOK
        <5>3. QED
          BY <2>1, <5>2 DEF NoRow
      <4>3. QED
        BY <1>1, <4>1, <4>2
        DEF BeginUpdate, BeginDeactivate, BeginReactivate, BeginInvite, BeginResend, BeginCancel
    <3>2. QED
      BY <2>1, <3>1 DEF TypeOK
  <2>2. CASE user' # user
    <3>1. PICK r \in RoleNames, k \in BOOLEAN : BeginInvite(s, p, r, k)
      BY <1>1, <2>2 DEF BeginUpdate, BeginDeactivate, BeginReactivate, BeginResend, BeginCancel
    <3> DEFINE row == [role |-> r, status |-> "INVITED", bound |-> k]
    <3>2. row \in Rows
      BY DEF Rows
    <3>3. user[p] = NoRow /\ user' = [user EXCEPT ![p] = row]
      BY <2>2, <3>1 DEF BeginInvite
    <3>4. QED
      BY <3>2, <3>3, NewRowType
  <2>3. QED
    BY <2>1, <2>2
<1>7. /\ op'[s].who = p /\ op'[s].others = ActiveAdmins \ {p} /\ op'[s].step = step
      /\ op'[s].role = role /\ op'[s].status = status
  BY <1>5
<1> HIDE DEF new
<1>8. QED
  BY <1>3, <1>5, <1>6, <1>7

LEMMA RequestTyped ==
  ASSUME Typed, NEW s \in Slots, Request(s)
  PROVE  Typed'
<1>1. /\ op' \in [Slots -> Ops] /\ ops' \in 0..MaxOps
      /\ op'[s].step \notin {"sync", "commit"}
      /\ \A t \in Slots : t # s => op'[t] = op[t]
      /\ UNCHANGED <<invitation, member, visit, demotion, faults, edits>>
      /\ user' \in [People -> Rows \cup {NoRow}]
      /\ \A q \in People : user[q] # NoRow => user'[q] = user[q]
  BY RequestBegins DEF Typed
<1>2. LockedRowsExist'
  BY <1>1 DEF Typed, TypeOK, Ops, LockedRowsExist
<1>3. QED
  BY <1>1, <1>2 DEF Typed, TypeOK

LEMMA ProceedTyped ==
  ASSUME Typed, NEW s \in Slots, Proceed(s)
  PROVE  Typed'
<1>0. op[s] \in Ops /\ op[s].who \in People
  BY DEF Typed, TypeOK, Ops
<1>1. CASE WriteRow(s)
  <2>1. CASE user[op[s].who] = NoRow
    <3>1. Finish(s) /\ UNCHANGED <<user, clerkVars, personVars, counters>>
      BY <1>1, <2>1 DEF WriteRow
    <3>2. QED
      BY <3>1, FinishType DEF Typed, TypeOK, LockedRowsExist, clerkVars, personVars, counters
  <2>2. CASE user[op[s].who] # NoRow
    <3>1. Step(s, "sync") /\ UNCHANGED <<user, clerkVars, personVars, counters>>
      BY <1>1, <2>2 DEF WriteRow
    <3>2. QED
      BY <2>2, <3>1, StepOnly DEF Typed, TypeOK, LockedRowsExist, clerkVars, personVars, counters
  <2>3. QED
    BY <2>1, <2>2
<1>2. CASE SyncClerk(s)
  <2>1. op[s].step = "sync" /\ UNCHANGED <<user, personVars, counters>>
    BY <1>2 DEF SyncClerk
  <2>2. invitation' \in [People -> ClerkRoles] /\ member' \in [People -> ClerkRoles]
    BY <1>0, <1>2, SyncedRoles DEF SyncClerk, Typed, TypeOK
  <2>3. QED
    BY <1>2, <2>1, <2>2, SyncStep DEF Typed, TypeOK, LockedRowsExist, personVars, counters
<1>3. CASE Commit(s)
  <2>1. user[op[s].who] # NoRow
    BY <1>3 DEF Commit, Typed, LockedRowsExist
  <2>2. /\ user' \in [People -> Rows \cup {NoRow}] /\ user'[op[s].who] # NoRow
        /\ \A q \in People : q # op[s].who => user'[q] = user[q]
    BY <1>0, <1>3, <2>1, WrittenType, NewRowType DEF Commit, Typed
  <2>3. Finish(s) /\ UNCHANGED <<clerkVars, personVars, counters>>
    BY <1>3 DEF Commit
  <2>4. QED
    BY <2>2, <2>3, FinishType DEF Typed, TypeOK, Ops, LockedRowsExist, clerkVars, personVars, counters
<1>4. CASE SendInvite(s)
  <2>1. Finish(s) /\ UNCHANGED <<user, member, personVars, counters>>
    BY <1>4 DEF SendInvite
  <2>2. invitation' \in [People -> ClerkRoles]
    BY <1>0, <1>4 DEF SendInvite, Typed, TypeOK, OrgRole, ClerkRoles
  <2>3. QED
    BY <2>1, <2>2, FinishType DEF Typed, TypeOK, LockedRowsExist, personVars, counters
<1>5. CASE Revoke(s)
  <2>1. Step(s, "remove") /\ UNCHANGED <<user, personVars, counters>>
    BY <1>5 DEF Revoke
  <2>2. invitation' \in [People -> ClerkRoles] /\ member' \in [People -> ClerkRoles]
    BY <1>5 DEF Revoke, Typed, TypeOK, ClerkRoles
  <2>3. QED
    BY <2>1, <2>2, StepOnly DEF Typed, TypeOK, LockedRowsExist, personVars, counters
<1>6. CASE RemoveRow(s)
  <2>1. Finish(s) /\ UNCHANGED <<clerkVars, personVars, counters>> /\ ~Locked(op[s].who)
    BY <1>6 DEF RemoveRow
  <2>2. /\ user' \in [People -> Rows \cup {NoRow}]
        /\ \A q \in People : q # op[s].who => user'[q] = user[q]
    BY <1>0, <1>6 DEF RemoveRow, Typed, TypeOK
  <2>3. LockedRowsExist'
    BY <2>1, <2>2, FinishType DEF Typed, TypeOK, Ops, LockedRowsExist, Locked
  <2>4. QED
    BY <2>1, <2>2, <2>3, FinishType DEF Typed, TypeOK, clerkVars, personVars, counters
<1>7. QED
  BY <1>1, <1>2, <1>3, <1>4, <1>5, <1>6 DEF Proceed

LEMMA FailsTyped ==
  ASSUME Typed, NEW s \in Slots, Fails(s)
  PROVE  Typed'
<1>0. op[s] \in Ops /\ op[s].who \in People
  BY DEF Typed, TypeOK, Ops
<1>1. /\ Finish(s) /\ Fault /\ UNCHANGED <<user, personVars>>
      /\ invitation' \in [People -> ClerkRoles] /\ member' \in [People -> ClerkRoles]
  <2>1. CASE SyncRefused(s)
    BY <1>0, <2>1, SyncedRoles DEF SyncRefused, Typed, TypeOK, ClerkRoles
  <2>2. CASE CommitFails(s)
    BY <2>2 DEF CommitFails, Typed, TypeOK, clerkVars
  <2>3. CASE SendFails(s)
    BY <1>0, <2>3 DEF SendFails, Typed, TypeOK, OrgRole, ClerkRoles
  <2>4. CASE RevokeFails(s)
    BY <1>0, <2>4 DEF RevokeFails, Typed, TypeOK, clerkVars, ClerkRoles
  <2>5. CASE RemoveFails(s)
    BY <2>5 DEF RemoveFails, Typed, TypeOK, clerkVars
  <2>6. QED
    BY <2>1, <2>2, <2>3, <2>4, <2>5 DEF Fails
<1>2. QED
  BY <1>1, FinishType, FaultType DEF Typed, TypeOK, LockedRowsExist, personVars

LEMMA PersonTyped ==
  ASSUME Typed, NEW p \in People, Person(p)
  PROVE  Typed'
<1>1. CASE Accept(p)
  BY <1>1 DEF Accept, Typed, TypeOK, LockedRowsExist, ClerkRoles, personVars, counters
<1>2. CASE Visit(p)
  <2>1. [step |-> "resolve", claim |-> member[p]] \in Visits
    BY DEF Visits, Typed, TypeOK
  <2>2. QED
    BY <1>2, <2>1 DEF Visit, Typed, TypeOK, LockedRowsExist, clerkVars, counters
<1>3. CASE ResolveMember(p)
  <2>1. user[p] \in Rows
    BY <1>3 DEF ResolveMember, Typed, TypeOK
  <2>2. /\ user' \in [People -> Rows \cup {NoRow}]
        /\ \A q \in People : user[q] # NoRow => user'[q] # NoRow
    <3>1. CASE user' = user
      BY <3>1 DEF Typed, TypeOK
    <3>2. CASE user' # user
      BY <1>3, <2>1, <3>2, SignedInType, NewRowType DEF ResolveMember, Typed
    <3>3. QED
      BY <3>1, <3>2
  <2>3. visit' \in [People -> Visits] /\ demotion' \in [People -> BOOLEAN]
    <3>1. NoVisit \in Visits
      BY DEF NoVisit, Visits, ClerkRoles
    <3>2. Demotes(p, SignedIn(user[p])) \in BOOLEAN
      BY DEF Demotes
    <3>3. (demotion[p] \/ Demotes(p, SignedIn(user[p]))) \in BOOLEAN
      OBVIOUS
    <3>4. QED
      BY <1>3, <3>1, <3>3 DEF ResolveMember, Typed, TypeOK
  <2>4. UNCHANGED <<invitation, member, op, ops, faults, edits>>
    BY <1>3 DEF ResolveMember, clerkVars, counters
  <2>5. QED
    BY <2>2, <2>3, <2>4 DEF Typed, TypeOK, Ops, LockedRowsExist
<1>4. CASE ResolveStranger(p)
  <2>1. /\ user' \in [People -> Rows \cup {NoRow}]
        /\ \A q \in People : user[q] # NoRow => user'[q] # NoRow
    <3> DEFINE row == [role |-> "Admin", status |-> "ACTIVE", bound |-> TRUE]
    <3>1. row \in Rows
      BY DEF Rows, RoleNames
    <3>2. user' = user \/ user' = [user EXCEPT ![p] = row]
      BY <1>4 DEF ResolveStranger
    <3>3. QED
      BY <3>1, <3>2, NewRowType DEF Typed, TypeOK
  <2>2. NoVisit \in Visits
    BY DEF NoVisit, Visits, ClerkRoles
  <2>3. QED
    BY <1>4, <2>1, <2>2
    DEF ResolveStranger, Typed, TypeOK, Ops, LockedRowsExist, clerkVars, counters
<1>5. CASE Demote(p)
  BY <1>5 DEF Demote, Typed, TypeOK, LockedRowsExist, ClerkRoles, counters
<1>6. CASE DemoteFails(p)
  BY <1>6, FaultType DEF DemoteFails, Typed, TypeOK, LockedRowsExist, clerkVars
<1>7. CASE \E role \in ClerkRoles : ClerkEdit(p, role)
  BY <1>7, TeamParameters DEF ClerkEdit, Typed, TypeOK, LockedRowsExist, personVars
<1>8. QED
  BY <1>1, <1>2, <1>3, <1>4, <1>5, <1>6, <1>7 DEF Person

LEMMA InitTyped == Init => Typed
<1> SUFFICES ASSUME Init PROVE Typed
  OBVIOUS
<1>1. [role |-> "Admin", status |-> "ACTIVE", bound |-> TRUE] \in Rows
  BY DEF Rows, RoleNames
<1>2. NoVisit \in Visits
  BY DEF NoVisit, Visits, ClerkRoles
<1>3. TypeOK
  BY <1>1, <1>2, IdleType, TeamParameters DEF Init, TypeOK, ClerkRoles
<1>4. QED
  BY <1>3, IdleType DEF Init, Typed, LockedRowsExist

LEMMA StepTyped == Typed /\ [Next]_vars => Typed'
<1> SUFFICES ASSUME Typed, [Next]_vars PROVE Typed'
  OBVIOUS
<1>1. CASE UNCHANGED vars
  BY <1>1 DEF vars, clerkVars, personVars, counters, Typed, TypeOK, LockedRowsExist
<1>2. CASE Next
  BY <1>2, RequestTyped, ProceedTyped, FailsTyped, PersonTyped DEF Next
<1>3. QED
  BY <1>1, <1>2

(* users.service.ts and auth.service.ts keep rows, invitations and requests*)
(* in their types: in particular no transaction commits a row it has not.  *)
THEOREM Typing == Spec => []TypeOK
<1>1. Typed => TypeOK
  BY DEF Typed
<1>2. QED
  BY <1>1, InitTyped, StepTyped, PTL DEF Spec

-----------------------------------------------------------------------------
(* The last Admin.                                                         *)

(* What assertNotLastAdmin has established for a request that may take an  *)
(* Admin away: it has counted somebody else.                               *)
Counted ==
    \A s \in Slots : op[s].step \in {"write", "sync", "commit"} =>
        /\ op[s].who \notin op[s].others
        /\ op[s].others = {} =>
             op[s].role \in {"same", "Admin"} /\ op[s].status \in {"same", "ACTIVE"}

LEMMA CountedStep ==
  ASSUME Typed, Counted, [Next]_vars
  PROVE  Counted'
<1>1. ASSUME NEW s \in Slots, Request(s) PROVE Counted'
  BY <1>1, RequestBegins DEF Typed, TypeOK, Counted
<1>2. ASSUME NEW s \in Slots, Proceed(s) PROVE Counted'
  <2>1. CASE WriteRow(s)
    <3>1. \/ Finish(s)
          \/ op[s].step = "write" /\ Step(s, "sync")
      BY <2>1 DEF WriteRow
    <3>2. QED
      BY <3>1, FinishType, StepOnly DEF Typed, Counted
  <2>2. CASE SyncClerk(s)
    <3>1. op[s].step = "sync"
      BY <2>2 DEF SyncClerk
    <3>2. QED
      BY <2>2, <3>1, SyncStep DEF Typed, Counted
  <2>3. CASE Commit(s) \/ SendInvite(s) \/ RemoveRow(s)
    <3>1. Finish(s)
      BY <2>3 DEF Commit, SendInvite, RemoveRow
    <3>2. QED
      BY <3>1, FinishType DEF Typed, Counted
  <2>4. CASE Revoke(s)
    BY <2>4, StepOnly DEF Revoke, Typed, Counted
  <2>5. QED
    BY <1>2, <2>1, <2>2, <2>3, <2>4 DEF Proceed
<1>3. ASSUME NEW s \in Slots, Fails(s) PROVE Counted'
  <2>1. Finish(s)
    BY <1>3 DEF Fails, SyncRefused, CommitFails, SendFails, RevokeFails, RemoveFails
  <2>2. QED
    BY <2>1, FinishType DEF Typed, Counted
<1>4. ASSUME NEW p \in People, Person(p) PROVE op' = op
  BY <1>4 DEF Person, Accept, Visit, ResolveMember, ResolveStranger, Demote, DemoteFails, ClerkEdit
<1>5. CASE op' = op
  BY <1>5 DEF Counted
<1>6. QED
  BY <1>1, <1>2, <1>3, <1>4, <1>5 DEF Next, vars

(* No step but a commit makes an active Admin anything else.               *)
LEMMA AdminsStay ==
  ASSUME Typed, [Next]_vars, \A s \in Slots : ~Commit(s)
  PROVE  \A p \in ActiveAdmins : IsActiveAdmin(user'[p])
<1>1. ASSUME NEW s \in Slots, Request(s) PROVE \A p \in ActiveAdmins : IsActiveAdmin(user'[p])
  BY <1>1, RequestBegins DEF Typed, ActiveAdmins, IsActiveAdmin, NoRow
<1>2. ASSUME NEW s \in Slots, RemoveRow(s) PROVE \A p \in ActiveAdmins : IsActiveAdmin(user'[p])
  BY <1>2 DEF RemoveRow, ActiveAdmins, IsActiveAdmin, Typed, TypeOK
<1>3. ASSUME NEW p \in People, ResolveMember(p)
      PROVE  \A q \in ActiveAdmins : IsActiveAdmin(user'[q])
  <2> DEFINE row == SignedIn(user[p])
  <2>1. user[p] \in Rows
    BY <1>3 DEF ResolveMember, Typed, TypeOK
  <2>2. p \in ActiveAdmins => IsActiveAdmin(row)
    BY <2>1, SignedInType DEF ActiveAdmins, IsActiveAdmin
  <2>3. user' = user \/ user' = [user EXCEPT ![p] = row]
    BY <1>3 DEF ResolveMember
  <2> HIDE DEF row
  <2>4. QED
    BY <2>2, <2>3 DEF Typed, TypeOK, ActiveAdmins
<1>4. ASSUME NEW p \in People, ResolveStranger(p)
      PROVE  \A q \in ActiveAdmins : IsActiveAdmin(user'[q])
  BY <1>4 DEF ResolveStranger, Typed, TypeOK, ActiveAdmins, IsActiveAdmin, NoRow
<1>5. CASE user' = user
  BY <1>5 DEF ActiveAdmins
<1>6. QED
  BY <1>1, <1>2, <1>3, <1>4, <1>5
  DEF Next, vars, Proceed, WriteRow, SyncClerk, SendInvite, Revoke, Fails, SyncRefused,
      CommitFails, SendFails, RevokeFails, RemoveFails, Person, Accept, Visit, Demote,
      DemoteFails, ClerkEdit

LEMMA InitCounted == Init => Counted
  BY IdleType DEF Init, Counted

(* users.service.ts (assertNotLastAdmin): one request alone never leaves   *)
(* the firm without an active Admin, whatever requests, sign-ins and       *)
(* failures there are beside it, also about the same person.               *)
THEOREM LastAdminTakesTwo == Spec => OneRequestCannotLockOut
<1>1. Typed /\ Counted /\ [Next]_vars =>
        (ActiveAdmins # {} /\ ActiveAdmins' = {} =>
           \E s \in Slots : /\ op[s].step = "commit" /\ op'[s].step = "idle"
                            /\ op[s].others \ ActiveAdmins # {})
  <2> SUFFICES ASSUME Typed, Counted, [Next]_vars, ActiveAdmins # {}, ActiveAdmins' = {}
               PROVE  \E s \in Slots : /\ op[s].step = "commit" /\ op'[s].step = "idle"
                                       /\ op[s].others \ ActiveAdmins # {}
    OBVIOUS
  <2>1. \A p \in People : ~IsActiveAdmin(user'[p])
    BY DEF ActiveAdmins, IsActiveAdmin
  <2>2. PICK s \in Slots : Commit(s)
    BY <2>1, AdminsStay DEF ActiveAdmins
  <2>3. op[s].step = "commit" /\ op'[s].step = "idle"
    BY <2>2, FinishType DEF Commit, Typed
  <2>4. /\ user[op[s].who] # NoRow /\ op[s].who \in People
        /\ user' = [user EXCEPT ![op[s].who] = Written(s)]
    BY <2>2 DEF Commit, Typed, TypeOK, Ops, LockedRowsExist
  <2>5. op[s].others \ ActiveAdmins # {}
    <3>1. SUFFICES ASSUME op[s].others \subseteq ActiveAdmins PROVE FALSE
      OBVIOUS
    <3>2. \A q \in ActiveAdmins : q = op[s].who
      BY <2>1, <2>4 DEF ActiveAdmins, Typed, TypeOK
    <3>3. op[s].others = {} /\ IsActiveAdmin(user[op[s].who])
      BY <2>3, <3>1, <3>2 DEF Counted, ActiveAdmins
    <3>4. IsActiveAdmin(Written(s))
      BY <2>3, <2>4, <3>3, WrittenType DEF Counted, IsActiveAdmin, Typed
    <3>5. QED
      BY <2>1, <2>4, <3>4 DEF Typed, TypeOK
  <2>6. QED
    BY <2>3, <2>5
<1>2. QED
  BY <1>1, InitTyped, InitCounted, StepTyped, CountedStep, PTL
  DEF Spec, OneRequestCannotLockOut

-----------------------------------------------------------------------------
(* Requests about different people: rows and Clerk go together.            *)

(* A person has one request at most, and a row while there is one.         *)
Owned ==
    /\ \A s, t \in Slots : s # t /\ op[s].step # "idle" /\ op[t].step # "idle"
                             => op[s].who # op[t].who
    /\ \A s \in Slots : op[s].step # "idle" => user[op[s].who] # NoRow

(* Until somebody edits at Clerk: who has no row has nothing there, and a  *)
(* request that is to delete a row has taken everything from it.           *)
Clean ==
    edits = 0 =>
      /\ \A p \in People : user[p] = NoRow => invitation[p] = "none" /\ member[p] = "none"
      /\ \A s \in Slots : op[s].step = "remove" =>
           invitation[op[s].who] = "none" /\ member[op[s].who] = "none"

(* Once Clerk has been called, neither the membership nor, of an invitee,  *)
(* the invitation is worth more than the row that will be committed.       *)
Followed ==
    edits = 0 =>
      \A s \in Slots : op[s].step = "commit" /\ op[s].link = "none" =>
        /\ member[op[s].who] = "org:admin" => IsActiveAdmin(Written(s))
        /\ invitation[op[s].who] = "org:admin" => IsActiveAdmin(Written(s))

Agreed == Typed /\ Owned /\ Clean /\ Followed

(* What a step of a request touches: its slot and its person.              *)
LEMMA RequestFrame ==
  ASSUME Typed, NEW s \in Slots, Proceed(s) \/ Fails(s)
  PROVE  /\ op[s].step # "idle" /\ edits' = edits
         /\ \A t \in Slots : t # s => op'[t] = op[t]
         /\ \A q \in People : q # op[s].who =>
              user'[q] = user[q] /\ invitation'[q] = invitation[q] /\ member'[q] = member[q]
         /\ \/ op'[s].step = "idle"
            \/ op'[s].who = op[s].who /\ user' = user
<1>0. op[s].who \in People
  BY DEF Typed, TypeOK, Ops
<1>1. CASE WriteRow(s)
  <2>1. (Finish(s) \/ Step(s, "sync")) /\ UNCHANGED <<user, invitation, member, edits>>
    BY <1>1 DEF WriteRow, clerkVars, counters
  <2>2. QED
    BY <1>1, <2>1, FinishType, StepOnly DEF WriteRow, Typed
<1>2. CASE SyncClerk(s)
  BY <1>2, SyncStep DEF SyncClerk, Typed, TypeOK, counters
<1>3. CASE Commit(s)
  BY <1>3, FinishType DEF Commit, Typed, TypeOK, clerkVars, counters
<1>4. CASE SendInvite(s)
  BY <1>4, FinishType DEF SendInvite, Typed, TypeOK, counters
<1>5. CASE Revoke(s)
  BY <1>5, StepOnly DEF Revoke, Typed, TypeOK, counters
<1>6. CASE RemoveRow(s)
  BY <1>6, FinishType DEF RemoveRow, Typed, TypeOK, clerkVars, counters
<1>7. CASE Fails(s)
  <2>1. /\ op[s].step # "idle" /\ Finish(s) /\ Fault /\ user' = user
        /\ \A q \in People : q # op[s].who =>
             invitation'[q] = invitation[q] /\ member'[q] = member[q]
    BY <1>7 DEF Fails, SyncRefused, CommitFails, SendFails, RevokeFails, RemoveFails,
                Typed, TypeOK, clerkVars
  <2>2. QED
    BY <2>1, FinishType, FaultType DEF Typed
<1>8. QED
  BY <1>1, <1>2, <1>3, <1>4, <1>5, <1>6, <1>7 DEF Proceed

(* What people and Clerk touch: no request, no row that a request has      *)
(* locked, and of a row that is there only what it says.                   *)
LEMMA PersonFrame ==
  ASSUME Typed, NEW p \in People, Person(p)
  PROVE  /\ op' = op /\ edits' \in {edits, edits + 1}
         /\ \A q \in People : user[q] # NoRow => user'[q] # NoRow
         /\ \A q \in People : user[q] # NoRow /\ Locked(q) => user'[q] = user[q]
         /\ edits' = edits =>
              \/ UNCHANGED <<invitation, member>>
              \/ Accept(p)
              \/ Demote(p)
         /\ UNCHANGED <<invitation, member>> \/ user' = user
<1>1. CASE ResolveMember(p)
  <2> DEFINE row == SignedIn(user[p])
  <2>1. user[p] \in Rows /\ row \in Rows
    BY <1>1, SignedInType DEF ResolveMember, Typed, TypeOK
  <2>2. /\ user' = user \/ (user' = [user EXCEPT ![p] = row] /\ (row # user[p] => ~Locked(p)))
        /\ UNCHANGED <<invitation, member, op, edits>>
    BY <1>1 DEF ResolveMember, clerkVars, counters
  <2> HIDE DEF row
  <2>3. QED
    BY <2>1, <2>2, NoRowIsNone DEF Typed, TypeOK
<1>2. CASE ResolveStranger(p)
  <2> DEFINE row == [role |-> "Admin", status |-> "ACTIVE", bound |-> TRUE]
  <2>1. row \in Rows
    BY DEF Rows, RoleNames
  <2>2. /\ user' = user \/ user' = [user EXCEPT ![p] = row]
        /\ user[p] = NoRow /\ UNCHANGED <<invitation, member, op, edits>>
    BY <1>2 DEF ResolveStranger, clerkVars, counters
  <2> HIDE DEF row
  <2>3. QED
    BY <2>1, <2>2, NoRowIsNone DEF Typed, TypeOK
<1>3. CASE Accept(p) \/ Visit(p) \/ Demote(p)
  BY <1>3 DEF Accept, Visit, Demote, clerkVars, counters
<1>4. CASE DemoteFails(p)
  BY <1>4, FaultType DEF DemoteFails, clerkVars, Typed
<1>5. CASE \E role \in ClerkRoles : ClerkEdit(p, role)
  BY <1>5 DEF ClerkEdit, Typed, TypeOK
<1>6. QED
  BY <1>1, <1>2, <1>3, <1>4, <1>5 DEF Person

LEMMA OwnedStep ==
  ASSUME OnePerPerson, Typed, Owned, [Next]_vars
  PROVE  Owned'
<1>1. ASSUME NEW s \in Slots, Request(s) PROVE Owned'
  <2>1. PICK p \in People :
          /\ op'[s].who = p /\ ~Busy(p) /\ user'[p] # NoRow
          /\ \A t \in Slots : t # s => op'[t] = op[t]
          /\ \A q \in People : q # p \/ user[q] # NoRow => user'[q] = user[q]
    BY <1>1, RequestBegins DEF Typed
  <2>2. QED
    BY <2>1 DEF Owned, Busy, Typed, TypeOK, Ops
<1>2. ASSUME NEW s \in Slots, Proceed(s) \/ Fails(s) PROVE Owned'
  <2>1. \A t \in Slots : op[t].who \in People
    BY DEF Typed, TypeOK, Ops
  <2>2. /\ op[s].step # "idle"
        /\ \A t \in Slots : t # s => op'[t] = op[t]
        /\ \A q \in People : q # op[s].who => user'[q] = user[q]
        /\ op'[s].step = "idle" \/ (op'[s].who = op[s].who /\ user' = user)
    BY <1>2, RequestFrame
  <2>3. ASSUME NEW t \in Slots, op'[t].step # "idle"
        PROVE  /\ op[t].step # "idle" /\ op'[t].who = op[t].who
               /\ user'[op[t].who] = user[op[t].who]
    BY <2>1, <2>2, <2>3 DEF Owned
  <2>4. QED
    BY <2>3 DEF Owned
<1>3. ASSUME NEW p \in People, Person(p) PROVE Owned'
  BY <1>3, PersonFrame DEF Owned, Typed, TypeOK, Ops
<1>4. CASE UNCHANGED vars
  BY <1>4 DEF vars, Owned
<1>5. QED
  BY <1>1, <1>2, <1>3, <1>4 DEF Next

LEMMA CleanStep ==
  ASSUME OnePerPerson, Typed, Owned, Clean, [Next]_vars
  PROVE  Clean'
<1>0. \A t \in Slots : op[t].who \in People
  BY DEF Typed, TypeOK, Ops
<1>1. ASSUME NEW s \in Slots, Request(s) PROVE Clean'
  <2>1. PICK p \in People :
          /\ op'[s].who = p /\ op'[s].step # "remove" /\ user'[p] # NoRow
          /\ \A t \in Slots : t # s => op'[t] = op[t]
          /\ \A q \in People : q # p \/ user[q] # NoRow => user'[q] = user[q]
          /\ UNCHANGED <<invitation, member, edits>>
    BY <1>1, RequestBegins DEF Typed
  <2>2. QED
    BY <2>1 DEF Clean
<1>2. ASSUME NEW s \in Slots, Proceed(s) \/ Fails(s) PROVE Clean'
  <2> DEFINE p == op[s].who
  <2>1. /\ op[s].step # "idle" /\ edits' = edits
        /\ \A t \in Slots : t # s => op'[t] = op[t]
        /\ \A q \in People : q # p =>
             user'[q] = user[q] /\ invitation'[q] = invitation[q] /\ member'[q] = member[q]
        /\ user[p] # NoRow
    BY <1>2, RequestFrame DEF Owned
  <2>2. ASSUME edits = 0
        PROVE  /\ user'[p] = NoRow => invitation'[p] = "none" /\ member'[p] = "none"
               /\ op'[s].step = "remove" =>
                    op'[s].who = p /\ invitation'[p] = "none" /\ member'[p] = "none"
    <3>1. CASE RemoveRow(s)
      BY <2>2, <3>1, FinishType DEF RemoveRow, Clean, Typed, clerkVars
    <3>2. CASE Revoke(s)
      BY <1>0, <2>1, <3>2, StepOnly DEF Revoke, Typed, TypeOK
    <3>3. CASE ~RemoveRow(s) /\ ~Revoke(s)
      <4>1. CASE Commit(s)
        BY <1>0, <2>1, <4>1, FinishType, WrittenType, NewRowType DEF Commit, Typed
      <4>2. CASE ~Commit(s)
        <5>1. user' = user
          BY <1>2, <3>3, <4>2 DEF Proceed, Fails, WriteRow, SyncClerk, SendInvite, SyncRefused,
             CommitFails, SendFails, RevokeFails, RemoveFails
        <5>2. op'[s].step # "remove"
          <6>1. CASE SyncClerk(s)
            BY <6>1, SyncStep DEF Typed
          <6>2. CASE ~SyncClerk(s)
            <7>1. Finish(s) \/ Step(s, "sync")
              BY <1>2, <3>3, <4>2, <6>2 DEF Proceed, Fails, WriteRow, SendInvite, SyncRefused,
                 CommitFails, SendFails, RevokeFails, RemoveFails
            <7>2. QED
              BY <7>1, FinishType, StepOnly DEF Typed
          <6>3. QED
            BY <6>1, <6>2
        <5>3. QED
          BY <2>1, <5>1, <5>2
      <4>3. QED
        BY <4>1, <4>2
    <3>4. QED
      BY <3>1, <3>2, <3>3
  <2>3. ASSUME NEW t \in Slots, t # s, op[t].step = "remove" PROVE op[t].who # p
    BY <2>1, <2>3 DEF Owned
  <2> HIDE DEF p
  <2>4. QED
    BY <1>0, <2>1, <2>2, <2>3 DEF Clean
<1>3. ASSUME NEW p \in People, Person(p) PROVE Clean'
  <2>1. SUFFICES ASSUME edits' = 0 PROVE Clean'
    BY DEF Clean
  <2>2. edits = 0 /\ edits' = edits
    BY <1>3, <2>1, PersonFrame DEF Typed, TypeOK
  <2>3. ASSUME NEW q \in People, invitation[q] = "none", member[q] = "none"
        PROVE  invitation'[q] = "none" /\ member'[q] = "none"
    <3>1. CASE Accept(p)
      BY <2>3, <3>1 DEF Accept, Typed, TypeOK
    <3>2. CASE Demote(p)
      BY <2>3, <3>2 DEF Demote, Typed, TypeOK
    <3>3. QED
      BY <1>3, <2>2, <2>3, <3>1, <3>2, PersonFrame
  <2>4. op' = op /\ \A q \in People : user[q] # NoRow => user'[q] # NoRow
    BY <1>3, PersonFrame
  <2>5. QED
    BY <1>0, <2>2, <2>3, <2>4 DEF Clean
<1>4. CASE UNCHANGED vars
  BY <1>4 DEF vars, clerkVars, counters, Clean
<1>5. QED
  BY <1>1, <1>2, <1>3, <1>4 DEF Next

(* A locked row waits for its own request.                                 *)
LEMMA LockedRowStays ==
  ASSUME OnePerPerson, Typed, Owned, [Next]_vars, NEW s \in Slots, op[s].step = "commit",
         user'[op[s].who] # user[op[s].who]
  PROVE  Commit(s)
<1>0. op[s].who \in People /\ user[op[s].who] # NoRow /\ Locked(op[s].who)
  BY DEF Typed, TypeOK, Ops, Owned, Locked
<1>1. ASSUME NEW t \in Slots, Request(t) PROVE FALSE
  BY <1>0, <1>1, RequestBegins DEF Typed
<1>2. ASSUME NEW t \in Slots, Proceed(t) \/ Fails(t) PROVE Commit(s)
  <2>1. t = s
    <3>1. op[t].step # "idle" /\ op[t].who = op[s].who
      BY <1>0, <1>2, RequestFrame
    <3>2. QED
      BY <3>1 DEF Owned
  <2>2. user' # user
    OBVIOUS
  <2>3. QED
    BY <1>2, <2>1, <2>2 DEF Proceed, Fails, WriteRow, SyncClerk, SendInvite, Revoke, RemoveRow,
       SyncRefused, CommitFails, SendFails, RevokeFails, RemoveFails
<1>3. ASSUME NEW p \in People, Person(p) PROVE FALSE
  BY <1>0, <1>3, PersonFrame
<1>4. QED
  BY <1>1, <1>2, <1>3 DEF Next, vars

LEMMA FollowedStep ==
  ASSUME OnePerPerson, Typed, Owned, Followed, [Next]_vars
  PROVE  Followed'
<1> SUFFICES ASSUME edits' = 0, NEW t \in Slots, op'[t].step = "commit", op'[t].link = "none"
             PROVE  LET p == op'[t].who
                    IN  /\ member'[p] = "org:admin" => IsActiveAdmin(Written(t)')
                        /\ invitation'[p] = "org:admin" => IsActiveAdmin(Written(t)')
  BY DEF Followed, IsActiveAdmin
<1>0. op[t].who \in People
  BY DEF Typed, TypeOK, Ops
<1>1. ASSUME op'[t] = op[t], user'[op[t].who] = user[op[t].who] PROVE Written(t)' = Written(t)
  BY <1>1 DEF Written
<1>2. CASE op'[t] = op[t]
  <2>1. op[t].step = "commit" /\ op[t].link = "none"
    BY <1>2
  <2>2. user'[op[t].who] = user[op[t].who]
    <3>1. ~Commit(t)
      BY <1>2, <2>1, FinishType DEF Commit, Typed
    <3>2. QED
      BY <2>1, <3>1, LockedRowStays
  <2>3. Written(t)' = Written(t)
    BY <1>1, <1>2, <2>2
  <2>4. /\ edits = 0
        /\ invitation'[op[t].who] = "org:admin"
             => invitation[op[t].who] = "org:admin"
        /\ member'[op[t].who] = "org:admin"
             => member[op[t].who] = "org:admin" \/ invitation[op[t].who] = "org:admin"
    <3>1. ASSUME NEW s \in Slots, Request(s)
          PROVE  UNCHANGED <<invitation, member, edits>>
      BY <3>1, RequestBegins DEF Typed
    <3>2. ASSUME NEW s \in Slots, Proceed(s) \/ Fails(s)
          PROVE  \/ s = t
                 \/ /\ edits' = edits /\ invitation'[op[t].who] = invitation[op[t].who]
                    /\ member'[op[t].who] = member[op[t].who]
      BY <1>0, <2>1, <3>2, RequestFrame DEF Owned
    <3>3. ~Proceed(t) /\ ~Fails(t)
      <4>1. ASSUME Proceed(t) \/ Fails(t) PROVE op'[t].step # "commit"
        BY <2>1, <4>1, FinishType DEF Typed, Proceed, Fails, WriteRow, SyncClerk, Commit,
           SendInvite, Revoke, RemoveRow, SyncRefused, CommitFails, SendFails, RevokeFails,
           RemoveFails
      <4>2. QED
        BY <4>1
    <3>4. ASSUME NEW p \in People, Person(p)
          PROVE  /\ edits = 0
                 /\ UNCHANGED <<invitation, member>> \/ Accept(p) \/ Demote(p)
      BY <3>4, PersonFrame DEF Typed, TypeOK
    <3>5. ASSUME NEW p \in People, Accept(p)
          PROVE  /\ invitation'[op[t].who] = "org:admin" => invitation[op[t].who] = "org:admin"
                 /\ member'[op[t].who] = "org:admin"
                      => member[op[t].who] = "org:admin" \/ invitation[op[t].who] = "org:admin"
      BY <1>0, <3>5 DEF Accept, Typed, TypeOK
    <3>6. ASSUME NEW p \in People, Demote(p)
          PROVE  /\ invitation' = invitation
                 /\ member'[op[t].who] = "org:admin" => member[op[t].who] = "org:admin"
      BY <1>0, <3>6 DEF Demote, Typed, TypeOK
    <3>7. QED
      BY <3>1, <3>2, <3>3, <3>4, <3>5, <3>6 DEF Next, vars, clerkVars, counters
  <2>5. QED
    BY <1>2, <2>1, <2>3, <2>4 DEF Followed, IsActiveAdmin
<1>3. CASE op'[t] # op[t]
  <2>1. SyncClerk(t)
    <3>1. ASSUME NEW s \in Slots, Request(s) PROVE FALSE
      BY <1>3, <3>1, RequestBegins DEF Typed
    <3>2. ASSUME NEW s \in Slots, Proceed(s) \/ Fails(s) PROVE s = t
      BY <1>3, <3>2, RequestFrame
    <3>3. ASSUME NEW p \in People, Person(p) PROVE FALSE
      BY <1>3, <3>3, PersonFrame
    <3>4. Proceed(t) \/ Fails(t)
      BY <1>3, <3>1, <3>2, <3>3 DEF Next, vars
    <3>5. QED
      BY <3>4, FinishType, StepOnly DEF Typed, Proceed, Fails, WriteRow, Commit,
           SendInvite, Revoke, RemoveRow, SyncRefused, CommitFails, SendFails, RevokeFails,
           RemoveFails
  <2>2. /\ op'[t].who = op[t].who /\ op'[t].role = op[t].role /\ op'[t].status = op[t].status
        /\ user[op[t].who].bound => invitation[op[t].who] = "none"
        /\ user' = user
        /\ invitation'[op[t].who] = Synced(t)[1] /\ member'[op[t].who] = Synced(t)[2]
    <3>1. op'[t].link = IF user[op[t].who].bound THEN invitation[op[t].who] ELSE op[t].link
      BY <2>1, SyncStep DEF Typed
    <3>2. user[op[t].who].bound => invitation[op[t].who] = "none"
      BY <3>1
    <3>3. /\ user' = user
          /\ invitation'[op[t].who] = Synced(t)[1] /\ member'[op[t].who] = Synced(t)[2]
      BY <1>0, <2>1 DEF SyncClerk, Typed, TypeOK
    <3>4. QED
      BY <2>1, <3>2, <3>3, SyncStep DEF Typed
  <2>3. Written(t)' = Written(t)
    BY <2>2 DEF Written
  <2>4. user[op[t].who] # NoRow
    BY <2>1 DEF SyncClerk, Typed, LockedRowsExist
  <2>5. Written(t).bound = user[op[t].who].bound
    BY <2>4, WrittenType DEF Typed
  <2>6. QED
    BY <2>2, <2>3, <2>5, SyncedRoles DEF Typed, IsActiveAdmin
<1>4. QED
  BY <1>2, <1>3

LEMMA AgreedInit == Init => Agreed
<1> SUFFICES ASSUME Init PROVE Agreed
  OBVIOUS
<1>1. Owned /\ Followed
  BY IdleType DEF Init, Owned, Followed
<1>2. Clean
  BY IdleType DEF Init, Clean, NoRow
<1>3. QED
  BY <1>1, <1>2, InitTyped DEF Agreed

LEMMA AgreedStep == ASSUME OnePerPerson PROVE Agreed /\ [Next]_vars => Agreed'
  BY StepTyped, OwnedStep, CleanStep, FollowedStep DEF Agreed

(* users.service.ts (cancelInvite): a cancelled invitation is gone from    *)
(* both places, as long as requests are about different people.            *)
THEOREM CancellationHolds == ASSUME OnePerPerson PROVE Spec => []CancelledIsGone
<1>1. Agreed => CancelledIsGone
  BY DEF Agreed, Clean, CancelledIsGone
<1>2. QED
  BY <1>1, AgreedInit, AgreedStep, PTL DEF Spec

(* users.service.ts (syncClerkRole): what commits is what Clerk was told,  *)
(* as long as requests are about different people.                         *)
THEOREM ClerkIsTold == ASSUME OnePerPerson PROVE Spec => ClerkFollowsChanges
<1>1. Agreed /\ [Next]_vars =>
        \A s \in Slots :
          LET p == op[s].who
          IN  op[s].step = "commit" /\ user'[p] # user[p] /\ edits = 0 /\ op[s].link = "none" =>
                (member[p] = "org:admin" => IsActiveAdmin(user'[p]))
  <2> SUFFICES ASSUME Agreed, [Next]_vars, NEW s \in Slots, op[s].step = "commit", edits = 0,
                      user'[op[s].who] # user[op[s].who], op[s].link = "none",
                      member[op[s].who] = "org:admin"
               PROVE  IsActiveAdmin(user'[op[s].who])
    OBVIOUS
  <2>1. Commit(s)
    BY LockedRowStays DEF Agreed
  <2>2. user'[op[s].who] = Written(s)
    BY <2>1 DEF Commit, Agreed, Typed, TypeOK, Ops
  <2>3. QED
    BY <2>2 DEF Agreed, Followed, IsActiveAdmin
<1>2. QED
  BY <1>1, AgreedInit, AgreedStep, PTL DEF Spec, ClerkFollowsChanges
=============================================================================
