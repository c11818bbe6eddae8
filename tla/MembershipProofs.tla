-------------------------- MODULE MembershipProofs --------------------------
(***************************************************************************)
(* Proofs about Membership, for any number of requests, roles and users.   *)
(***************************************************************************)
EXTENDS Membership, SequenceTheorems, FiniteSetTheorems, TLAPS

USE DEF ToCheck, Agree, Reject

(* A column of states with one more row, and with one row changed.         *)
LEMMA RowAdded ==
  ASSUME NEW states \in [Role -> Seq(0..2)], NEW p, NEW x \in 0..2
  PROVE  [states EXCEPT ![p] = Append(@, x)] \in [Role -> Seq(0..2)]
<1>1. ASSUME p \in Role PROVE Append(states[p], x) \in Seq(0..2)
  BY <1>1, AppendProperties
<1> QED
  BY <1>1

LEMMA ApplicantAdded ==
  ASSUME NEW states \in [Role -> Seq(User)], NEW p, NEW x \in User
  PROVE  [states EXCEPT ![p] = Append(@, x)] \in [Role -> Seq(User)]
<1>1. ASSUME p \in Role PROVE Append(states[p], x) \in Seq(User)
  BY <1>1, AppendProperties
<1> QED
  BY <1>1

LEMMA RowChanged ==
  ASSUME NEW states \in [Role -> Seq(0..2)], NEW p, NEW i, NEW x \in 0..2
  PROVE  [states EXCEPT ![p][i] = x] \in [Role -> Seq(0..2)]
<1>1. ASSUME p \in Role PROVE [states[p] EXCEPT ![i] = x] \in Seq(0..2)
  <2>1. DOMAIN states[p] = 1..Len(states[p])
    BY <1>1
  <2>2. CASE i \in 1..Len(states[p])
    BY <1>1, <2>2, ExceptSeq
  <2>3. CASE i \notin 1..Len(states[p])
    <3>1. [states[p] EXCEPT ![i] = x] = [j \in DOMAIN states[p] |-> states[p][j]]
      BY <2>1, <2>3
    <3>2. states[p] = [j \in DOMAIN states[p] |-> states[p][j]]
      BY <1>1
    <3>3. states[p] \in Seq(0..2)
      BY <1>1
    <3> QED
      BY <3>1, <3>2, <3>3
  <2> QED
    BY <2>2, <2>3
<1> QED
  BY <1>1

LEMMA InitIInv == Init => IInv
<1> SUFFICES ASSUME Init PROVE IInv
  OBVIOUS
<1> USE RoleAssumption DEF Init
<1>1. TypeOK
  BY DEF TypeOK, Place, Call, Cause
<1>2. Placed /\ Checked
  BY DEF Placed, Paired, PlacedAt, Checked, CheckedAt
<1>3. MemberOnce /\ UserOnce
  BY DEF MemberOnce, UserOnce
<1>4. MemberHasUser /\ AgreedHasEntered /\ InvitedIsMember
  BY DEF MemberHasUser, AgreedHasEntered, InvitedIsMember, IsMember
<1>5. Purpose /\ Knows
  BY DEF Purpose, PurposeAt, Knows, KnowsAt, Adding
<1>6. OneOpen /\ InsideAgreed
  BY DEF OneOpen, Open, InsideAgreed, Adding
<1>7. MemberWasAdmitted
  BY DEF MemberWasAdmitted, IsMember
<1> QED
  BY <1>1, <1>2, <1>3, <1>4, <1>5, <1>6, <1>7 DEF IInv

(* Each application has an applicant.                                      *)
LEMMA ApplicantKnown ==
  ASSUME TypeOK, Placed, NEW p \in Role, NEW i \in DOMAIN application[p]
  PROVE  i \in DOMAIN applicant[p] /\ applicant[p][i] \in User
<1>1. Len(applicant[p]) = Len(application[p])
  BY DEF Placed, Paired
<1>2. application[p] \in Seq(0..2) /\ applicant[p] \in Seq(User)
  BY DEF TypeOK
<1>3. i \in 1..Len(applicant[p])
  BY <1>1, <1>2
<1> QED
  BY <1>2, <1>3

(* The variables of the calls after Return, Goto, NextRole and Checks.     *)
LocalsOK ==
  /\ at \in [Request -> Place]
  /\ call \in [Request -> Call]
  /\ subject \in [Request -> Role \cup {NoRole}]
  /\ user \in [Request -> User \cup {NoUser}]
  /\ item \in [Request -> Nat]
  /\ inside \in [Request -> SUBSET Role]
  /\ outside \in [Request -> SUBSET Role]

LEMMA ReturnType ==
  ASSUME LocalsOK, NEW r \in Request, Return(r)
  PROVE  LocalsOK'
  BY DEF LocalsOK, Return, Place, Call

LEMMA GotoType ==
  ASSUME LocalsOK, NEW r \in Request, NEW place \in Place, Goto(r, place)
  PROVE  LocalsOK'
  BY DEF LocalsOK, Goto

LEMMA NextRoleType ==
  ASSUME LocalsOK, NEW r \in Request, NextRole(r)
  PROVE  LocalsOK'
  BY DEF LocalsOK, NextRole, Place, Call

LEMMA ContinueType ==
  ASSUME LocalsOK, NEW r \in Request, Continue(r)
  PROVE  LocalsOK'
<1>1. \/ Goto(r, "closeApplication") \/ Goto(r, "closeInvitation") \/ NextRole(r) \/ Return(r)
  BY DEF Continue
<1>2. {"closeApplication", "closeInvitation"} \subseteq Place
  BY DEF Place
<1> QED
  BY <1>1, <1>2, GotoType, NextRoleType, ReturnType

LEMMA ChecksType ==
  ASSUME TypeOK, NEW r \in Request, NEW p \in Role, NEW u \in User, NEW i \in Nat,
         NEW what \in Call, NEW place \in Place, Checks(r, p, u, i, what, place)
  PROVE  /\ at' \in [Request -> Place] /\ call' \in [Request -> Call]
         /\ subject' \in [Request -> Role \cup {NoRole}] /\ item' \in [Request -> Nat]
         /\ user' \in [Request -> User \cup {NoUser}]
         /\ stale' \in SUBSET Request /\ causes' \in SUBSET Cause
  BY DEF TypeOK, Checks, Cause

LEMMA WritesType ==
  ASSUME TypeOK, NEW r \in Request, NEW more \in SUBSET Cause, Writes(r, more)
  PROVE  stale' \in SUBSET Request /\ causes' \in SUBSET Cause
  BY DEF TypeOK, Writes, Cause

(* Every step keeps the types.                                             *)
LEMMA TypeStep == TypeOK /\ Placed /\ [Next]_vars => TypeOK'
<1> SUFFICES ASSUME TypeOK, Placed, [Next]_vars PROVE TypeOK'
  OBVIOUS
<1>a. LocalsOK
  BY DEF TypeOK, LocalsOK
<1>b. /\ {"none", "director", "application", "inside", "invitation"} \subseteq Call
      /\ {} \in SUBSET Cause /\ {"otherUser"} \in SUBSET Cause
  BY DEF Call, Cause
<1>c. \A p \in Role : UserOf[p] \in User
  BY RoleAssumption
<1>1. CASE SetValid
  BY <1>1 DEF SetValid, TypeOK, locals, applications
<1>2. ASSUME NEW r \in Request, Entering(r) PROVE TypeOK'
  <2>1. CASE AddMember(r)
    <3>1. LocalsOK' /\ stale' \in SUBSET Request /\ causes' \in SUBSET Cause
      BY <2>1, <1>a, <1>b, GotoType, WritesType DEF AddMember, Entry, Place
    <3>2. members' \in [Role -> Nat]
      <4>1. subject[r] \in Role
        BY <2>1 DEF AddMember, Placed, PlacedAt
      <4> QED
        BY <2>1, <4>1 DEF AddMember, TypeOK
    <3> QED
      BY <2>1, <3>1, <3>2 DEF AddMember, TypeOK, LocalsOK, applications
  <2>2. CASE FindUser(r)
    <3>1. LocalsOK'
      BY <2>2, <1>a, GotoType, ContinueType DEF FindUser, Place
    <3> QED
      BY <2>2, <3>1 DEF FindUser, TypeOK, LocalsOK, rows, applications, history
  <2>3. CASE InsertUser(r)
    <3>1. LocalsOK' /\ stale' \in SUBSET Request /\ causes' \in SUBSET Cause
      BY <2>3, <1>a, <1>b, ContinueType, WritesType DEF InsertUser
    <3>2. users' \in [User -> Nat]
      <4>1. user[r] \in User
        BY <2>3 DEF InsertUser, Placed, PlacedAt
      <4> QED
        BY <2>3, <4>1 DEF InsertUser, TypeOK
    <3> QED
      BY <2>3, <3>1, <3>2 DEF InsertUser, TypeOK, LocalsOK, applications
  <2> QED
    BY <1>2, <2>1, <2>2, <2>3 DEF Entering
<1>3. ASSUME NEW r \in Request, Applying(r) PROVE TypeOK'
  <2>1. CASE ApplyCheck(r)
    <3>1. CASE CanApply(subject[r])
      <4>1. subject[r] \in Role /\ user[r] \in User
        BY <2>1 DEF ApplyCheck, Placed, PlacedAt
      <4>2. Checks(r, subject[r], user[r], 0, "none", "saveApplication") /\ UNCHANGED <<inside, outside, rows>>
        BY <2>1, <3>1 DEF ApplyCheck
      <4>3. "saveApplication" \in Place
        BY DEF Place
      <4> QED
        BY <4>1, <4>2, <4>3, <1>b, ChecksType DEF TypeOK, rows, applications
    <3>2. CASE ~CanApply(subject[r])
      BY <2>1, <3>2, <1>a, ReturnType DEF ApplyCheck, TypeOK, LocalsOK, rows, applications, history
    <3> QED
      BY <3>1, <3>2
  <2>2. CASE SaveApplication(r) \/ CloseApplication(r) \/ SaveReject(r)
    <3>1. LocalsOK' /\ stale' \in SUBSET Request /\ causes' \in SUBSET Cause
      <4>1. LocalsOK'
        BY <2>2, <1>a, ReturnType DEF SaveApplication, CloseApplication, SaveReject
      <4>2. \E more \in SUBSET Cause : Writes(r, more)
        BY <2>2, <1>b DEF SaveApplication, CloseApplication, SaveReject, Cause
      <4> QED
        BY <4>1, <4>2, WritesType
    <3>2. application' \in [Role -> Seq(0..2)]
      <4>1. application \in [Role -> Seq(0..2)] /\ {ToCheck, Agree, Reject} \subseteq 0..2
        BY DEF TypeOK
      <4>2. CASE SaveApplication(r)
        BY <4>1, <4>2, RowAdded DEF SaveApplication
      <4>3. CASE CloseApplication(r)
        BY <4>1, <4>3, RowChanged DEF CloseApplication
      <4>4. CASE SaveReject(r)
        BY <4>1, <4>4, RowChanged DEF SaveReject
      <4> QED
        BY <2>2, <4>2, <4>3, <4>4
    <3>3. applicant' \in [Role -> Seq(User)]
      <4>1. user[r] \in User /\ applicant \in [Role -> Seq(User)]
        BY <2>2 DEF SaveApplication, CloseApplication, SaveReject, Placed, PlacedAt, TypeOK
      <4>2. CASE SaveApplication(r)
        <5>1. applicant' = [applicant EXCEPT ![subject[r]] = Append(@, user[r])]
          BY <4>2 DEF SaveApplication
        <5> QED
          BY <4>1, <5>1, ApplicantAdded
      <4>3. CASE CloseApplication(r) \/ SaveReject(r)
        BY <4>1, <4>3 DEF CloseApplication, SaveReject
      <4> QED
        BY <2>2, <4>2, <4>3
    <3> QED
      BY <2>2, <3>1, <3>2, <3>3 DEF SaveApplication, CloseApplication, SaveReject, TypeOK, LocalsOK
  <2>3. ASSUME NEW p \in Role, NEW u \in User, Apply(r, p, u) PROVE TypeOK'
    <3>1. {"addMember", "apply"} \subseteq Place
      BY DEF Place
    <3>2. \E what \in Call, place \in Place : Checks(r, p, u, 0, what, place)
      BY <2>3, <3>1, <1>b DEF Apply
    <3> QED
      BY <2>3, <3>2, ChecksType DEF Apply, TypeOK, rows, applications
  <2>4. ASSUME NEW p \in Role, NEW i \in DOMAIN application[p],
               AgreeApplication(r, p, i) \/ RejectApplication(r, p, i)
        PROVE  TypeOK'
    <3>1. i \in Nat /\ {"addMember", "reject"} \subseteq Place
      BY DEF Place, TypeOK
    <3>2. \E what \in Call, place \in Place : Checks(r, p, applicant[p][i], i, what, place)
      BY <2>4, <3>1, <1>b DEF AgreeApplication, RejectApplication
    <3> QED
      BY <2>4, <3>1, <3>2, ApplicantKnown, ChecksType DEF AgreeApplication, RejectApplication, TypeOK, rows, applications
  <2> QED
    BY <1>3, <2>1, <2>2, <2>3, <2>4 DEF Applying
<1>4. ASSUME NEW r \in Request, Inviting(r) PROVE TypeOK'
  <2>1. CASE InsideDone(r) \/ OutsideDone(r)
    <3>1. LocalsOK'
      BY <2>1, <1>a, GotoType, ReturnType DEF InsideDone, OutsideDone, Place
    <3> QED
      BY <2>1, <3>1 DEF InsideDone, OutsideDone, TypeOK, LocalsOK, rows, applications, history
  <2>2. CASE InsideCheck(r) \/ OutsideCheck(r)
    <3>1. CASE Return(r) /\ UNCHANGED <<rows, history>>
      BY <3>1, <1>a, ReturnType DEF TypeOK, LocalsOK, rows, applications, history
    <3>2. CASE InsideCheck(r) /\ NextOf(inside[r]) \in Inside /\ CanInvite(NextOf(inside[r]))
      <4>1. inside[r] # {} /\ inside[r] \subseteq Role
        BY <3>2 DEF InsideCheck, TypeOK
      <4>2. NextOf(inside[r]) \in Role
        BY <4>1 DEF NextOf
      <4>3. "saveInside" \in Place
        BY DEF Place
      <4>4. /\ Checks(r, NextOf(inside[r]), UserOf[NextOf(inside[r])], 0, "inside", "saveInside")
            /\ inside' = [inside EXCEPT ![r] = @ \ {NextOf(inside[r])}]
            /\ UNCHANGED <<outside, rows>>
        BY <3>2 DEF InsideCheck
      <4> QED
        BY <4>2, <4>3, <4>4, <1>b, <1>c, ChecksType DEF TypeOK, rows, applications
    <3>3. CASE OutsideCheck(r) /\ NextOf(outside[r]) \notin Inside /\ CanInvite(NextOf(outside[r]))
      <4>1. outside[r] # {} /\ outside[r] \subseteq Role
        BY <3>3 DEF OutsideCheck, TypeOK
      <4>2. NextOf(outside[r]) \in Role
        BY <4>1 DEF NextOf
      <4>3. "saveOutside" \in Place
        BY DEF Place
      <4>4. /\ Checks(r, NextOf(outside[r]), UserOf[NextOf(outside[r])], Pending(NextOf(outside[r])), "none", "saveOutside")
            /\ outside' = [outside EXCEPT ![r] = @ \ {NextOf(outside[r])}]
            /\ UNCHANGED <<inside, rows>>
        BY <3>3 DEF OutsideCheck
      <4>5. Pending(NextOf(outside[r])) \in Nat
        BY <4>2 DEF Pending, Open, TypeOK
      <4> QED
        BY <4>2, <4>3, <4>4, <4>5, <1>b, <1>c, ChecksType DEF TypeOK, rows, applications
    <3> QED
      BY <2>2, <3>1, <3>2, <3>3 DEF InsideCheck, OutsideCheck
  <2>3. CASE SaveInside(r) \/ CloseInvitation(r) \/ SaveRejectInvitation(r)
    <3>1. LocalsOK' /\ stale' \in SUBSET Request /\ causes' \in SUBSET Cause
      BY <2>3, <1>a, <1>b, GotoType, ReturnType, WritesType
      DEF SaveInside, CloseInvitation, SaveRejectInvitation, Place
    <3>2. invitation' \in [Role -> Seq(0..2)]
      <4>1. invitation \in [Role -> Seq(0..2)] /\ {ToCheck, Agree, Reject} \subseteq 0..2
        BY DEF TypeOK
      <4>2. CASE SaveInside(r)
        BY <4>1, <4>2, RowAdded DEF SaveInside
      <4>3. CASE CloseInvitation(r)
        BY <4>1, <4>3, RowChanged DEF CloseInvitation
      <4>4. CASE SaveRejectInvitation(r)
        BY <4>1, <4>4, RowChanged DEF SaveRejectInvitation
      <4> QED
        BY <2>3, <4>2, <4>3, <4>4
    <3> QED
      BY <2>3, <3>1, <3>2 DEF SaveInside, CloseInvitation, SaveRejectInvitation, TypeOK, LocalsOK, applications
  <2>4. CASE SaveOutside(r)
    <3>1. invitation' \in [Role -> Seq(0..2)]
      <4>1. invitation \in [Role -> Seq(0..2)] /\ ToCheck \in 0..2
        BY DEF TypeOK
      <4>2. CASE item[r] = 0
        BY <2>4, <4>1, <4>2, RowAdded DEF SaveOutside
      <4>3. CASE item[r] # 0
        BY <2>4, <4>1, <4>3, RowChanged DEF SaveOutside
      <4> QED
        BY <4>2, <4>3
    <3>2. stale' \in SUBSET Request /\ causes' \in SUBSET Cause
      BY <2>4, <1>b, WritesType DEF SaveOutside
    <3> QED
      BY <2>4, <3>1, <3>2 DEF SaveOutside, TypeOK, Place, applications
  <2>5. ASSUME NEW insiders \in Lists, NEW outsiders \in Lists, Invite(r, insiders, outsiders) PROVE TypeOK'
    BY <2>5, RoleAssumption DEF Invite, TypeOK, rows, applications, history, Place
  <2>6. ASSUME NEW p \in Role, NEW i \in DOMAIN invitation[p],
               AgreeInvitation(r, p, i) \/ RejectInvitation(r, p, i)
        PROVE  TypeOK'
    <3>1. i \in Nat /\ {"addMember", "rejectInvitation"} \subseteq Place
      BY DEF Place, TypeOK
    <3>2. \E what \in Call, place \in Place : Checks(r, p, UserOf[p], i, what, place)
      BY <2>6, <3>1, <1>b DEF AgreeInvitation, RejectInvitation
    <3> QED
      BY <1>c, <2>6, <3>1, <3>2, ChecksType DEF AgreeInvitation, RejectInvitation, TypeOK, rows, applications
  <2> QED
    BY <1>4, <2>1, <2>2, <2>3, <2>4, <2>5, <2>6 DEF Inviting
<1>5. ASSUME NEW r \in Request, Fail(r) PROVE TypeOK'
  <2>1. LocalsOK'
    BY <1>5, <1>a, ReturnType DEF Fail
  <2> QED
    BY <1>5, <2>1 DEF Fail, TypeOK, LocalsOK, rows, applications, Cause
<1>6. CASE UNCHANGED vars
  BY <1>6 DEF vars, rows, applications, locals, history, TypeOK
<1> QED
  BY <1>1, <1>2, <1>3, <1>4, <1>5, <1>6 DEF Next

(* The loops of an invitation take a role of their list.                   *)
LEMMA NextIsRole ==
  ASSUME TypeOK, NEW r \in Request
  PROVE  /\ inside[r] # {} => NextOf(inside[r]) \in Role
         /\ outside[r] # {} => NextOf(outside[r]) \in Role
  BY DEF TypeOK, NextOf

-----------------------------------------------------------------------------
(* What a step of r leaves alone, and where it puts r.                     *)

Alone(r) ==
  \A s \in Request \ {r} :
      /\ at'[s] = at[s] /\ call'[s] = call[s] /\ subject'[s] = subject[s] /\ user'[s] = user[s]
      /\ item'[s] = item[s]

(* r goes on with the same role, user and row.                             *)
Keeps(r) ==
  call'[r] = call[r] /\ subject'[r] = subject[r] /\ user'[r] = user[r] /\ item'[r] = item[r]

LEMMA ReturnFrame ==
  ASSUME TypeOK, NEW r \in Request, Return(r)
  PROVE  Alone(r) /\ at'[r] = "idle" /\ subject'[r] = NoRole
  BY DEF TypeOK, Return, Alone

LEMMA GotoFrame ==
  ASSUME TypeOK, NEW r \in Request, NEW place, Goto(r, place)
  PROVE  Alone(r) /\ at'[r] = place /\ Keeps(r)
  BY DEF TypeOK, Goto, Alone, Keeps

(* Where a call goes on when the role is a member and the user known.      *)
Continued(r) ==
  \/ at'[r] = "idle" /\ call[r] \in {"none", "director"}
  \/ at'[r] = "inside" /\ call[r] = "inside"
  \/ at'[r] = "closeApplication" /\ call[r] = "application" /\ Keeps(r)
  \/ at'[r] = "closeInvitation" /\ call[r] = "invitation" /\ Keeps(r)

USE DEF Keeps, Continued

LEMMA ContinueFrame ==
  ASSUME TypeOK, NEW r \in Request, Continue(r)
  PROVE  Alone(r) /\ Continued(r)
<1>1. ASSUME NextRole(r) PROVE Alone(r) /\ at'[r] = "inside"
  BY <1>1 DEF TypeOK, NextRole, Alone
<1> QED
  BY <1>1, GotoFrame, ReturnFrame DEF Continue, Continued

LEMMA WritesFrame ==
  ASSUME TypeOK, NEW r \in Request, NEW more, Writes(r, more)
  PROVE  /\ stale \subseteq stale' /\ causes \subseteq causes' /\ (r \in stale => "overlap" \in causes')
         /\ \A s \in Request \ {r} :
                subject[s] # NoRole /\ (subject[s] = subject[r] \/ user[s] = user[r]) => s \in stale'
  BY DEF TypeOK, Writes

(* A step that neither lets a role in nor checks one: r ends its call or   *)
(* goes back to its loop.                                                  *)
Quiet(r) ==
  /\ UNCHANGED <<valid, members, users>> /\ Alone(r)
  /\ at[r] \notin {"addMember", "addUser", "insertUser"}
  /\ at'[r] \in {"idle", "inside", "outside"}
  /\ stale \subseteq stale' /\ causes \subseteq causes'

(* A step that checks a role: what the check asks for holds.               *)
Checking(r) ==
  /\ UNCHANGED <<valid, members, users, application, applicant, invitation>> /\ Alone(r)
  /\ at[r] \notin {"addMember", "addUser", "insertUser"}
  /\ at'[r] \notin {"addUser", "insertUser", "closeApplication", "closeInvitation"}
  /\ subject'[r] \in Role /\ user'[r] \in User
  /\ stale \ {r} \subseteq stale' /\ causes \subseteq causes'
  /\ at'[r] \in {"addMember", "saveInside"} => valid
  /\ at'[r] = "saveInside" => ~IsMember(subject'[r]) /\ call'[r] = "inside"
  /\ at'[r] = "addMember" /\ IsMember(subject'[r]) => "secondEntry" \in causes'
  /\ at'[r] = "addMember" => call'[r] # "inside"
  /\ PurposeAt(r)' /\ KnowsAt(r)'

Shapes(r) ==
  \/ Quiet(r) \/ Checking(r) \/ AddMember(r) \/ FindUser(r) \/ InsertUser(r) \/ SaveInside(r) \/ Fail(r)

LEMMA ChecksFrame ==
  ASSUME TypeOK, NEW r \in Request, NEW p, NEW u, NEW i, NEW what, NEW place,
         Checks(r, p, u, i, what, place)
  PROVE  /\ Alone(r) /\ at'[r] = place /\ call'[r] = what /\ subject'[r] = p /\ user'[r] = u /\ item'[r] = i
         /\ stale \ {r} \subseteq stale' /\ causes \subseteq causes'
         /\ what \in {"application", "invitation"} /\ IsMember(p) => "secondEntry" \in causes'
  BY DEF TypeOK, Checks, Alone

(* inviteOutAllianceRoleToEnterAffair: the open invitation it has found.   *)
LEMMA PendingOpen ==
  ASSUME TypeOK, NEW p \in Role
  PROVE  IF Pending(p) = 0 THEN Open(invitation[p]) = {} ELSE Pending(p) \in Open(invitation[p])
<1>1. 0 \notin Open(invitation[p])
  <2>1. DOMAIN invitation[p] = 1..Len(invitation[p]) /\ Len(invitation[p]) \in Nat
    BY DEF TypeOK
  <2>2. 0 \notin DOMAIN invitation[p]
    BY <2>1
  <2> QED
    BY <2>2 DEF Open
<1>2. CASE Open(invitation[p]) = {}
  BY <1>2 DEF Pending
<1>3. CASE Open(invitation[p]) # {}
  <2>1. Pending(p) = CHOOSE i \in Open(invitation[p]) : TRUE
    BY <1>3 DEF Pending
  <2>2. Pending(p) \in Open(invitation[p])
    BY <1>3, <2>1
  <2> QED
    BY <1>1, <2>2
<1> QED
  BY <1>2, <1>3

(* The checks of the calls, and what each of them has read.                *)
LEMMA CheckingShape ==
  ASSUME TypeOK, NEW r \in Request, NEW p \in Role, NEW u \in User, NEW i, NEW what,
         NEW place, Checks(r, p, u, i, what, place), UNCHANGED rows, at[r] \notin Adding,
         \/ place \in {"apply", "reject"}
         \/ place = "addMember" /\ valid /\ what = "director" /\ p \in Director /\ ~IsMember(p)
         \/ place = "addMember" /\ valid /\ what = "application" /\ i \in Open(application[p]) /\ u = applicant[p][i]
         \/ place = "addMember" /\ valid /\ what = "invitation" /\ i \in Open(invitation[p])
         \/ place = "saveApplication" /\ Open(application[p]) = {}
         \/ place = "saveInside" /\ what = "inside" /\ valid /\ ~IsMember(p)
         \/ place = "saveOutside" /\ i = Pending(p)
         \/ place = "rejectInvitation" /\ i \in Open(invitation[p])
  PROVE  Shapes(r)
<1> USE ChecksFrame DEF rows, applications
<1>1. i \in Open(application[p]) => i \in DOMAIN application[p]
  BY DEF Open
<1>2. i \in Open(invitation[p]) => i \in DOMAIN invitation[p]
  BY DEF Open
<1>3. PurposeAt(r)'
  BY <1>1, <1>2 DEF PurposeAt, Adding
<1>4. KnowsAt(r)'
  <2>1. at'[r] = place /\ subject'[r] = p /\ item'[r] = i
    BY ChecksFrame
  <2>2. application' = application /\ invitation' = invitation
    OBVIOUS
  <2>3. place = "saveOutside" => IF i = 0 THEN Open(invitation[p]) = {} ELSE i \in Open(invitation[p])
    BY PendingOpen
  <2>4. place = "saveApplication" => Open(application[p]) = {}
    OBVIOUS
  <2>5. place = "rejectInvitation" => i \in Open(invitation[p])
    OBVIOUS
  <2>6. Open(application'[subject'[r]]) = Open(application[p]) /\ Open(invitation'[subject'[r]]) = Open(invitation[p])
    BY <2>1, <2>2
  <2>7. /\ at'[r] = "saveApplication" => Open(application'[subject'[r]]) = {}
        /\ at'[r] = "saveOutside" /\ item'[r] = 0 => Open(invitation'[subject'[r]]) = {}
        /\ at'[r] = "saveOutside" /\ item'[r] # 0 => item'[r] \in Open(invitation'[subject'[r]])
        /\ at'[r] = "rejectInvitation" => item'[r] \in Open(invitation'[subject'[r]])
    BY <2>1, <2>3, <2>4, <2>5, <2>6
  <2> QED
    BY <2>7 DEF KnowsAt, Open
<1>5. Checking(r)
  BY <1>3, <1>4 DEF Checking, IsMember, Adding
<1> QED
  BY <1>5 DEF Shapes

(* Every step of a request has one of these shapes.                        *)
LEMMA StepShape ==
  ASSUME TypeOK, Placed, NEW r \in Request, Entering(r) \/ Applying(r) \/ Inviting(r) \/ Fail(r)
  PROVE  Shapes(r)
<1>u. \A p \in Role : UserOf[p] \in User
  BY RoleAssumption
<1>1. CASE Entering(r) \/ Fail(r)
  BY <1>1 DEF Entering, Shapes
<1>2. CASE Applying(r)
  <2>1. CASE ApplyCheck(r)
    <3>1. subject[r] \in Role /\ user[r] \in User
      BY <2>1 DEF ApplyCheck, Placed, PlacedAt
    <3>2. CASE CanApply(subject[r])
      <4>1. /\ Checks(r, subject[r], user[r], 0, "none", "saveApplication") /\ UNCHANGED rows
            /\ at[r] = "apply" /\ Open(application[subject[r]]) = {}
        BY <2>1, <3>2 DEF ApplyCheck, CanApply
      <4> QED
        BY <3>1, <4>1, CheckingShape DEF Adding
    <3>3. CASE ~CanApply(subject[r])
      BY <2>1, <3>3, ReturnFrame DEF ApplyCheck, Shapes, Quiet, rows, applications, history
    <3> QED
      BY <3>2, <3>3
  <2>2. CASE SaveApplication(r)
    BY <2>2, ReturnFrame, WritesFrame DEF SaveApplication, Shapes, Quiet
  <2>3. CASE CloseApplication(r)
    BY <2>3, ReturnFrame, WritesFrame DEF CloseApplication, Shapes, Quiet
  <2>4. CASE SaveReject(r)
    BY <2>4, ReturnFrame, WritesFrame DEF SaveReject, Shapes, Quiet
  <2>5. ASSUME NEW p \in Role, NEW u \in User, Apply(r, p, u) PROVE Shapes(r)
    <3>1. valid /\ ~IsMember(p)
      BY <2>5 DEF Apply, CanApply
    <3>2. CASE p \in Director
      BY <2>5, <3>1, <3>2, CheckingShape DEF Apply, Adding
    <3>3. CASE p \notin Director
      BY <2>5, <3>1, <3>3, CheckingShape DEF Apply, Adding
    <3> QED
      BY <3>2, <3>3
  <2>6. ASSUME NEW p \in Role, NEW i \in DOMAIN application[p], AgreeApplication(r, p, i) PROVE Shapes(r)
    <3>1. /\ Checks(r, p, applicant[p][i], i, "application", "addMember") /\ UNCHANGED rows /\ at[r] = "idle"
          /\ valid /\ i \in Open(application[p])
      BY <2>6 DEF AgreeApplication
    <3>2. applicant[p][i] \in User
      BY ApplicantKnown
    <3> QED
      BY <3>1, <3>2, CheckingShape DEF Adding
  <2>7. ASSUME NEW p \in Role, NEW i \in DOMAIN application[p], RejectApplication(r, p, i) PROVE Shapes(r)
    <3>1. /\ Checks(r, p, applicant[p][i], i, "none", "reject") /\ UNCHANGED rows /\ at[r] = "idle"
      BY <2>7 DEF RejectApplication
    <3>2. applicant[p][i] \in User
      BY ApplicantKnown
    <3> QED
      BY <3>1, <3>2, CheckingShape DEF Adding
  <2> QED
    BY <1>2, <2>1, <2>2, <2>3, <2>4, <2>5, <2>6, <2>7 DEF Applying
<1>3. CASE Inviting(r)
  <2>1. CASE InsideDone(r)
    BY <2>1, GotoFrame DEF InsideDone, Shapes, Quiet, rows, applications, history
  <2>2. CASE OutsideDone(r)
    BY <2>2, ReturnFrame DEF OutsideDone, Shapes, Quiet, rows, applications, history
  <2>3. CASE InsideCheck(r)
    <3> DEFINE p == NextOf(inside[r])
    <3>1. p \in Role
      BY <2>3, NextIsRole DEF InsideCheck
    <3>2. CASE p \in Inside /\ CanInvite(p)
      <4>1. Checks(r, p, UserOf[p], 0, "inside", "saveInside") /\ UNCHANGED rows /\ at[r] = "inside"
        BY <2>3, <3>2 DEF InsideCheck
      <4> QED
        BY <1>u, <3>1, <3>2, <4>1, CheckingShape DEF CanInvite, Adding
    <3>3. CASE ~(p \in Inside /\ CanInvite(p))
      BY <2>3, <3>3, ReturnFrame DEF InsideCheck, Shapes, Quiet, rows, applications, history
    <3> QED
      BY <3>2, <3>3
  <2>4. CASE OutsideCheck(r)
    <3> DEFINE p == NextOf(outside[r])
    <3>1. p \in Role
      BY <2>4, NextIsRole DEF OutsideCheck
    <3>2. CASE p \notin Inside /\ CanInvite(p)
      <4>1. Checks(r, p, UserOf[p], Pending(p), "none", "saveOutside") /\ UNCHANGED rows /\ at[r] = "outside"
        BY <2>4, <3>2 DEF OutsideCheck
      <4> QED
        BY <1>u, <3>1, <4>1, CheckingShape DEF Adding
    <3>3. CASE ~(p \notin Inside /\ CanInvite(p))
      BY <2>4, <3>3, ReturnFrame DEF OutsideCheck, Shapes, Quiet, rows, applications, history
    <3> QED
      BY <3>2, <3>3
  <2>5. CASE SaveInside(r)
    BY <2>5 DEF Shapes
  <2>6. CASE SaveOutside(r)
    <3>1. Alone(r) /\ at'[r] = "outside" /\ at[r] = "saveOutside"
      BY <2>6 DEF SaveOutside, Alone, TypeOK
    <3> QED
      BY <2>6, <3>1, WritesFrame DEF SaveOutside, Shapes, Quiet
  <2>7. CASE CloseInvitation(r)
    BY <2>7, ReturnFrame, WritesFrame DEF CloseInvitation, Shapes, Quiet
  <2>8. CASE SaveRejectInvitation(r)
    BY <2>8, ReturnFrame, WritesFrame DEF SaveRejectInvitation, Shapes, Quiet
  <2>9. ASSUME NEW insiders, NEW outsiders, Invite(r, insiders, outsiders) PROVE Shapes(r)
    <3>1. Alone(r) /\ at'[r] = "inside" /\ at[r] = "idle"
      BY <2>9 DEF Invite, Alone, TypeOK
    <3> QED
      BY <2>9, <3>1 DEF Invite, Shapes, Quiet, rows, applications, history
  <2>10. ASSUME NEW p \in Role, NEW i, AgreeInvitation(r, p, i) PROVE Shapes(r)
    <3>1. /\ Checks(r, p, UserOf[p], i, "invitation", "addMember") /\ UNCHANGED rows /\ at[r] = "idle"
          /\ i \in Open(invitation[p]) /\ valid
      BY <2>10 DEF AgreeInvitation
    <3> QED
      BY <1>u, <3>1, CheckingShape DEF Adding
  <2>11. ASSUME NEW p \in Role, NEW i, RejectInvitation(r, p, i) PROVE Shapes(r)
    <3>1. /\ Checks(r, p, UserOf[p], i, "none", "rejectInvitation") /\ UNCHANGED rows /\ at[r] = "idle"
          /\ i \in Open(invitation[p])
      BY <2>11 DEF RejectInvitation
    <3> QED
      BY <1>u, <3>1, CheckingShape DEF Adding
  <2> QED
    BY <1>3, <2>1, <2>2, <2>3, <2>4, <2>5, <2>6, <2>7, <2>8, <2>9, <2>10, <2>11 DEF Inviting
<1> QED
  BY <1>1, <1>2, <1>3

(* What the steps of entering do to a request and its role.                *)
LEMMA AddMemberFrame ==
  ASSUME TypeOK, Placed, NEW r \in Request, AddMember(r)
  PROVE  /\ subject[r] \in Role /\ at[r] = "addMember" /\ UNCHANGED <<valid, users>>
         /\ members' = [members EXCEPT ![subject[r]] = @ + 1]
         /\ Alone(r) /\ at'[r] = "addUser" /\ Keeps(r)
         /\ \A p \in Role : IsMember(p) => IsMember(p)'
         /\ IsMember(subject[r])'
         /\ user[r] # UserOf[subject[r]] => "otherUser" \in causes'
<1>1. subject[r] \in Role /\ at[r] = "addMember" /\ members' = [members EXCEPT ![subject[r]] = @ + 1]
  BY DEF AddMember, Placed, PlacedAt
<1>2. members \in [Role -> Nat]
  BY DEF TypeOK
<1> QED
  BY <1>1, <1>2, GotoFrame DEF AddMember, IsMember, Writes, Entry

LEMMA FindUserFrame ==
  ASSUME TypeOK, Placed, NEW r \in Request, FindUser(r)
  PROVE  /\ subject[r] \in Role /\ user[r] \in User /\ IsMember(subject[r])
         /\ at[r] = "addUser" /\ UNCHANGED <<valid, members, users, stale, causes>> /\ Alone(r)
         /\ \/ /\ users[user[r]] = 0
               /\ at'[r] = "insertUser" /\ Keeps(r)
            \/ /\ users[user[r]] # 0
               /\ Continued(r)
<1>1. subject[r] \in Role /\ IsMember(subject[r])
  BY DEF FindUser, Placed, PlacedAt
<1>2. user[r] \in User
  BY DEF FindUser, Placed, PlacedAt
<1>3. CASE users[user[r]] = 0
  BY <1>1, <1>2, <1>3, GotoFrame DEF FindUser, rows, applications, history
<1>4. CASE users[user[r]] # 0
  BY <1>1, <1>2, <1>4, ContinueFrame DEF FindUser, rows, applications, history
<1> QED
  BY <1>3, <1>4

LEMMA InsertUserFrame ==
  ASSUME TypeOK, Placed, NEW r \in Request, InsertUser(r)
  PROVE  /\ subject[r] \in Role /\ user[r] \in User /\ IsMember(subject[r])
         /\ at[r] = "insertUser" /\ UNCHANGED <<valid, members>>
         /\ users' = [users EXCEPT ![user[r]] = @ + 1]
         /\ Alone(r) /\ Continued(r)
<1>1. subject[r] \in Role /\ IsMember(subject[r])
  BY DEF InsertUser, Placed, PlacedAt
<1>2. user[r] \in User
  BY DEF InsertUser, Placed, PlacedAt
<1> QED
  BY <1>1, <1>2, ContinueFrame DEF InsertUser

LEMMA SaveInsideFrame ==
  ASSUME TypeOK, Placed, NEW r \in Request, SaveInside(r)
  PROVE  /\ subject[r] \in Role /\ at[r] = "saveInside" /\ UNCHANGED <<valid, members, users>>
         /\ Alone(r) /\ at'[r] = "addMember" /\ Keeps(r)
  BY GotoFrame DEF SaveInside, Placed, PlacedAt

LEMMA FailFrame ==
  ASSUME TypeOK, NEW r \in Request, Fail(r)
  PROVE  /\ UNCHANGED <<valid, members, users, application, applicant, invitation>>
         /\ Alone(r) /\ at'[r] = "idle" /\ stale' = stale \ {r} /\ causes \subseteq causes'
         /\ Midway(r) => "failure" \in causes'
  BY ReturnFrame DEF Fail, rows, applications

(* Nor is a row of affair_user ever removed.                               *)
LEMMA UserStays ==
  ASSUME TypeOK, Placed, [Next]_vars, NEW u \in User, users[u] > 0
  PROVE  users'[u] > 0
<1>1. ASSUME NEW r \in Request, Shapes(r) PROVE users'[u] > 0
  <2>1. CASE InsertUser(r)
    <3>1. users' = [users EXCEPT ![user[r]] = @ + 1] /\ user[r] \in User /\ users \in [User -> Nat]
      BY <2>1, InsertUserFrame DEF TypeOK
    <3> QED
      BY <3>1
  <2>2. CASE UNCHANGED users
    BY <2>2
  <2> QED
    BY <1>1, <2>1, <2>2, AddMemberFrame, FindUserFrame, SaveInsideFrame, FailFrame
    DEF Shapes, Quiet, Checking
<1>2. CASE SetValid \/ UNCHANGED vars
  BY <1>2 DEF SetValid, vars, rows
<1> QED
  BY <1>1, <1>2, StepShape DEF Next

(* A role past the insert stays a member: no step removes one.             *)
LEMMA PlacedAtStep ==
  ASSUME TypeOK, Placed, [Next]_vars, NEW s \in Request
  PROVE  PlacedAt(s)'
<1>1. PlacedAt(s)
  BY DEF Placed
<1> USE <1>1 DEF PlacedAt, IsMember
<1>0. \A u \in User : users[u] > 0 => users'[u] > 0
  BY UserStays
<1>2. CASE SetValid
  BY <1>2 DEF SetValid, locals
<1>3. ASSUME NEW r \in Request, Shapes(r) PROVE PlacedAt(s)'
  <2>1. CASE Quiet(r)
    BY <2>1 DEF Quiet, Alone
  <2>2. CASE Checking(r)
    BY <2>2 DEF Checking, Alone
  <2>3. CASE AddMember(r)
    BY <2>3, AddMemberFrame DEF Alone
  <2>4. CASE FindUser(r)
    <3>1. CASE s = r
      <4>1. subject[r] \in Role /\ user[r] \in User /\ IsMember(subject[r]) /\ UNCHANGED <<members, users>>
        BY <2>4, FindUserFrame
      <4>2. users[user[r]] # 0 => users[user[r]] > 0
        BY <4>1 DEF TypeOK
      <4>3. \/ at'[r] = "insertUser" /\ Keeps(r)
            \/ at'[r] \in {"idle", "inside"}
            \/ at'[r] \in {"closeApplication", "closeInvitation"} /\ Keeps(r) /\ users[user[r]] # 0
        BY <2>4, FindUserFrame
      <4> QED
        BY <3>1, <4>1, <4>2, <4>3
    <3>2. CASE s # r
      BY <2>4, <3>2, FindUserFrame DEF Alone
    <3> QED
      BY <3>1, <3>2
  <2>5. CASE InsertUser(r)
    <3>1. CASE s = r
      <4>1. /\ subject[r] \in Role /\ user[r] \in User /\ IsMember(subject[r]) /\ UNCHANGED members
            /\ users' = [users EXCEPT ![user[r]] = @ + 1] /\ users \in [User -> Nat]
        BY <2>5, InsertUserFrame DEF TypeOK
      <4>2. users'[user[r]] > 0
        BY <4>1
      <4>3. \/ at'[r] \in {"idle", "inside"}
            \/ at'[r] \in {"closeApplication", "closeInvitation"} /\ Keeps(r)
        BY <2>5, InsertUserFrame
      <4> QED
        BY <3>1, <4>1, <4>2, <4>3
    <3>2. CASE s # r
      <4>1. UNCHANGED members /\ at'[s] = at[s] /\ call'[s] = call[s] /\ subject'[s] = subject[s] /\ user'[s] = user[s]
        BY <2>5, <3>2, InsertUserFrame DEF Alone
      <4>2. user[s] \in User /\ users[user[s]] > 0 => users'[user[s]] > 0
        BY <1>0
      <4> QED
        BY <4>1, <4>2
    <3> QED
      BY <3>1, <3>2
  <2>6. CASE SaveInside(r)
    BY <2>6, SaveInsideFrame DEF Alone
  <2>7. CASE Fail(r)
    BY <2>7, FailFrame DEF Alone
  <2> QED
    BY <1>3, <2>1, <2>2, <2>3, <2>4, <2>5, <2>6, <2>7 DEF Shapes
<1>4. CASE UNCHANGED vars
  BY <1>4 DEF vars, rows, applications, locals
<1> QED
  BY <1>2, <1>3, <1>4, StepShape DEF Next

(* A check can only be outdated by a write that marks it stale.            *)
LEMMA CheckedStep == TypeOK /\ Placed /\ Checked /\ [Next]_vars => Checked'
<1> SUFFICES ASSUME TypeOK, Placed, Checked, [Next]_vars,
                    NEW s \in Request, s \notin stale'
             PROVE  CheckedAt(s)'
  BY DEF Checked
<1>a. PlacedAt(s) /\ (s \notin stale => CheckedAt(s))
  BY DEF Placed, Checked
<1>b. at[s] \notin {"idle", "inside", "outside"} => subject[s] \in Role /\ subject[s] # NoRole /\ UserOf[subject[s]] \in User
  BY <1>a, RoleAssumption DEF PlacedAt
<1>c. at[s] \notin {"idle", "inside", "outside"} => user[s] \in User
  BY <1>a DEF PlacedAt
<1> USE DEF CheckedAt, IsMember
<1>2. CASE SetValid
  BY <1>2, <1>b DEF SetValid, locals
<1>3. ASSUME NEW r \in Request, Shapes(r) PROVE CheckedAt(s)'
  <2>1. CASE Quiet(r)
    BY <1>a, <2>1 DEF Quiet, Alone
  <2>2. CASE Checking(r)
    BY <1>a, <2>2 DEF Checking, Alone
  <2>3. CASE AddMember(r)
    <3>1. stale \subseteq stale' /\ causes \subseteq causes'
      BY <2>3, WritesFrame DEF AddMember
    <3>2. CASE s = r
      BY <2>3, <3>2, AddMemberFrame
    <3>3. CASE s # r
      <4>1. at'[s] = at[s] /\ subject'[s] = subject[s] /\ user'[s] = user[s]
        BY <2>3, <3>3, AddMemberFrame DEF Alone
      <4>2. subject[s] # NoRole => subject[s] # subject[r]
        BY <2>3, <3>3, WritesFrame DEF AddMember
      <4>3. subject[s] # NoRole /\ subject[s] \in Role => members'[subject[s]] = members[subject[s]]
        BY <2>3, <4>2, AddMemberFrame DEF TypeOK
      <4> QED
        BY <1>a, <1>b, <2>3, <3>1, <4>1, <4>3, AddMemberFrame
    <3> QED
      BY <3>2, <3>3
  <2>4. CASE FindUser(r)
    BY <1>a, <2>4, FindUserFrame DEF Alone
  <2>5. CASE InsertUser(r)
    <3>1. stale \subseteq stale' /\ causes \subseteq causes'
      BY <2>5, WritesFrame DEF InsertUser
    <3>2. CASE s = r
      BY <2>5, <3>2, InsertUserFrame
    <3>3. CASE s # r
      <4>1. at'[s] = at[s] /\ subject'[s] = subject[s] /\ user'[s] = user[s]
        BY <2>5, <3>3, InsertUserFrame DEF Alone
      <4>2. subject[s] # NoRole => user[s] # user[r]
        BY <2>5, <3>3, WritesFrame DEF InsertUser
      <4>3. subject[s] # NoRole /\ user[s] \in User => users'[user[s]] = users[user[s]]
        BY <2>5, <4>2, InsertUserFrame DEF TypeOK
      <4> QED
        BY <1>a, <1>b, <1>c, <2>5, <3>1, <4>1, <4>3, InsertUserFrame
    <3> QED
      BY <3>2, <3>3
  <2>6. CASE SaveInside(r)
    <3>1. stale \subseteq stale' /\ causes \subseteq causes'
      BY <2>6, WritesFrame DEF SaveInside
    <3> QED
      BY <1>a, <2>6, <3>1, SaveInsideFrame DEF Alone
  <2>7. CASE Fail(r)
    BY <1>a, <2>7, FailFrame DEF Alone
  <2> QED
    BY <1>3, <2>1, <2>2, <2>3, <2>4, <2>5, <2>6, <2>7 DEF Shapes
<1>4. CASE UNCHANGED vars
  BY <1>a, <1>4 DEF vars, rows, applications, locals, history
<1> QED
  BY <1>2, <1>3, <1>4, StepShape DEF Next

LEMMA FirstRow ==
  ASSUME TypeOK, NEW q \in Role, ~IsMember(q), NEW p \in Role, members[p] <= 1
  PROVE  [members EXCEPT ![q] = @ + 1][p] <= 1
<1>1. members \in [Role -> Nat]
  BY DEF TypeOK
<1>2. members[q] = 0
  BY <1>1 DEF IsMember
<1>3. CASE p = q
  BY <1>1, <1>2, <1>3
<1>4. CASE p # q
  BY <1>1, <1>4
<1> QED
  BY <1>3, <1>4

(* A second row of a role needs an outdated check or a second entry.       *)
LEMMA MemberOnceStep == TypeOK /\ Placed /\ Checked /\ MemberOnce /\ [Next]_vars => MemberOnce'
<1> SUFFICES ASSUME TypeOK, Placed, Checked, MemberOnce, [Next]_vars,
                    "overlap" \notin causes', "secondEntry" \notin causes', NEW p \in Role
             PROVE  members'[p] <= 1
  BY DEF MemberOnce
<1>2. CASE SetValid
  BY <1>2 DEF SetValid, MemberOnce
<1>3. ASSUME NEW r \in Request, Shapes(r) PROVE members'[p] <= 1
  <2>1. CASE Quiet(r) \/ Checking(r) \/ Fail(r)
    BY <2>1, FailFrame DEF Quiet, Checking, MemberOnce
  <2>2. CASE AddMember(r)
    <3>1. r \notin stale /\ causes \subseteq causes'
      BY <2>2, WritesFrame DEF AddMember
    <3>2. ~IsMember(subject[r])
      BY <2>2, <3>1 DEF AddMember, Checked, CheckedAt
    <3>3. /\ members \in [Role -> Nat] /\ subject[r] \in Role
          /\ members' = [members EXCEPT ![subject[r]] = @ + 1]
      BY <2>2, AddMemberFrame DEF TypeOK
    <3>4. members[p] <= 1
      BY <3>1 DEF MemberOnce
    <3> QED
      BY <3>2, <3>3, <3>4, FirstRow
  <2>3. CASE FindUser(r)
    BY <2>3, FindUserFrame DEF MemberOnce
  <2>4. CASE InsertUser(r)
    BY <2>4, InsertUserFrame, WritesFrame DEF InsertUser, MemberOnce
  <2>5. CASE SaveInside(r)
    BY <2>5, SaveInsideFrame, WritesFrame DEF SaveInside, MemberOnce
  <2> QED
    BY <1>3, <2>1, <2>2, <2>3, <2>4, <2>5 DEF Shapes
<1>4. CASE UNCHANGED vars
  BY <1>4 DEF vars, rows, applications, history, MemberOnce
<1> QED
  BY <1>2, <1>3, <1>4, StepShape DEF Next

(* A second row of a user needs an outdated check.                         *)
LEMMA UserOnceStep == TypeOK /\ Placed /\ Checked /\ UserOnce /\ [Next]_vars => UserOnce'
<1> SUFFICES ASSUME TypeOK, Placed, Checked, UserOnce, [Next]_vars,
                    "overlap" \notin causes', NEW u \in User
             PROVE  users'[u] <= 1
  BY DEF UserOnce
<1>2. CASE SetValid
  BY <1>2 DEF SetValid, UserOnce
<1>3. ASSUME NEW r \in Request, Shapes(r) PROVE users'[u] <= 1
  <2>1. CASE Quiet(r) \/ Checking(r) \/ Fail(r)
    BY <2>1, FailFrame DEF Quiet, Checking, UserOnce
  <2>2. CASE AddMember(r)
    BY <2>2, AddMemberFrame, WritesFrame DEF AddMember, UserOnce
  <2>3. CASE FindUser(r)
    BY <2>3, FindUserFrame DEF UserOnce
  <2>4. CASE InsertUser(r)
    <3>1. r \notin stale /\ causes \subseteq causes'
      BY <2>4, WritesFrame DEF InsertUser
    <3>2. users[user[r]] = 0
      BY <2>4, <3>1 DEF InsertUser, Checked, CheckedAt
    <3>3. /\ users' = [users EXCEPT ![user[r]] = @ + 1] /\ user[r] \in User /\ users \in [User -> Nat]
          /\ users[u] <= 1
      BY <2>4, <3>1, InsertUserFrame DEF TypeOK, UserOnce
    <3> QED
      BY <3>2, <3>3
  <2>5. CASE SaveInside(r)
    BY <2>5, SaveInsideFrame, WritesFrame DEF SaveInside, UserOnce
  <2> QED
    BY <1>3, <2>1, <2>2, <2>3, <2>4, <2>5 DEF Shapes
<1>4. CASE UNCHANGED vars
  BY <1>4 DEF vars, rows, applications, history, UserOnce
<1> QED
  BY <1>2, <1>3, <1>4, StepShape DEF Next

(* Between the two inserts of a call the call itself is the excuse.        *)
LEMMA HasUserStep == TypeOK /\ Placed /\ MemberHasUser /\ [Next]_vars => MemberHasUser'
<1> DEFINE EntersUser(s, p) == at[s] \in {"addUser", "insertUser"} /\ user[s] = UserOf[p]
<1> SUFFICES ASSUME TypeOK, Placed, MemberHasUser, [Next]_vars, causes' \cap {"failure", "otherUser"} = {},
                    NEW p \in Role, IsMember(p)', users'[UserOf[p]] = 0
             PROVE  \E s \in Request : EntersUser(s, p)'
  BY DEF MemberHasUser
<1>a. UserOf[p] \in User
  BY RoleAssumption
<1>b. causes \cap {"failure", "otherUser"} = {} /\ IsMember(p) /\ users[UserOf[p]] = 0 => \E s \in Request : EntersUser(s, p)
  BY DEF MemberHasUser
<1>2. CASE SetValid
  BY <1>2, <1>b DEF SetValid, locals, IsMember
<1>3. ASSUME NEW r \in Request, Shapes(r) PROVE \E s \in Request : EntersUser(s, p)'
  <2>1. CASE Quiet(r) \/ Checking(r)
    BY <1>b, <2>1 DEF Quiet, Checking, Alone, IsMember
  <2>2. CASE AddMember(r)
    <3>1. CASE p = subject[r]
      BY <2>2, <3>1, AddMemberFrame
    <3>2. CASE p # subject[r]
      <4>1. causes \subseteq causes'
        BY <2>2, WritesFrame DEF AddMember
      <4>2. IsMember(p) /\ users[UserOf[p]] = 0
        BY <2>2, <3>2, AddMemberFrame DEF IsMember, TypeOK
      <4>3. PICK s \in Request : EntersUser(s, p)
        BY <1>b, <4>1, <4>2
      <4>4. EntersUser(s, p)'
        BY <2>2, <4>3, AddMemberFrame DEF Alone
      <4> QED
        BY <4>4
    <3> QED
      BY <3>1, <3>2
  <2>3. CASE FindUser(r)
    <3>1. PICK s \in Request : EntersUser(s, p)
      BY <1>b, <2>3, FindUserFrame DEF IsMember
    <3>2. users[UserOf[p]] = 0
      BY <2>3, FindUserFrame
    <3>3. EntersUser(s, p)'
      BY <2>3, <3>1, <3>2, FindUserFrame DEF Alone
    <3> QED
      BY <3>3
  <2>4. CASE InsertUser(r)
    <3>1. users \in [User -> Nat] /\ causes \subseteq causes'
      BY <2>4, WritesFrame DEF InsertUser, TypeOK
    <3>2. UserOf[p] # user[r] /\ users[UserOf[p]] = 0
      BY <1>a, <2>4, <3>1, InsertUserFrame
    <3>3. PICK s \in Request : EntersUser(s, p)
      BY <1>b, <2>4, <3>1, <3>2, InsertUserFrame DEF IsMember
    <3>4. EntersUser(s, p)'
      BY <2>4, <3>2, <3>3, InsertUserFrame DEF Alone
    <3> QED
      BY <3>4
  <2>5. CASE SaveInside(r)
    <3>1. causes \subseteq causes'
      BY <2>5, WritesFrame DEF SaveInside
    <3> QED
      BY <1>b, <2>5, <3>1, SaveInsideFrame DEF Alone, IsMember
  <2>6. CASE Fail(r)
    <3>1. at[r] \notin {"addUser", "insertUser"}
      BY <2>6, FailFrame DEF Midway
    <3> QED
      BY <1>b, <2>6, <3>1, FailFrame DEF Alone, IsMember
  <2> QED
    BY <1>3, <2>1, <2>2, <2>3, <2>4, <2>5, <2>6 DEF Shapes
<1>4. CASE UNCHANGED vars
  BY <1>b, <1>4 DEF vars, rows, applications, locals, history, IsMember
<1> QED
  BY <1>2, <1>3, <1>4, StepShape DEF Next

-----------------------------------------------------------------------------
(* Which rows are agreed.                                                  *)

IsAgreed(states, i) == i \in DOMAIN states /\ states[i] = Agree

LEMMA AgreedAdded ==
  ASSUME NEW states \in [Role -> Seq(0..2)], NEW q \in Role, NEW p \in Role, NEW x \in 0..2, NEW i,
         IsAgreed([states EXCEPT ![q] = Append(@, x)][p], i)
  PROVE  IsAgreed(states[p], i) \/ (p = q /\ x = Agree)
<1>1. CASE p # q
  BY <1>1 DEF IsAgreed
<1>2. CASE p = q
  <2>1. states[p] \in Seq(0..2) /\ IsAgreed(Append(states[p], x), i)
    BY <1>2 DEF IsAgreed
  <2> QED
    BY <1>2, <2>1, AppendProperties DEF IsAgreed
<1> QED
  BY <1>1, <1>2

(* A row of q changed: the others and the number of rows stay.             *)
LEMMA AfterChanging ==
  ASSUME NEW states \in [Role -> Seq(0..2)], NEW q \in Role, NEW p \in Role, NEW j, NEW x \in 0..2,
         NEW after, after = [states EXCEPT ![q][j] = x]
  PROVE  /\ p # q => after[p] = states[p]
         /\ DOMAIN after[p] = DOMAIN states[p]
         /\ \A i \in DOMAIN states[p] : after[p][i] = IF p = q /\ i = j THEN x ELSE states[p][i]
<1>1. CASE p = q
  <2>1. after[p] = [states[p] EXCEPT ![j] = x]
    BY <1>1
  <2>2. DOMAIN after[p] = DOMAIN states[p]
    BY <2>1
  <2>3. ASSUME NEW i \in DOMAIN states[p] PROVE after[p][i] = IF i = j THEN x ELSE states[p][i]
    BY <2>1
  <2> QED
    BY <1>1, <2>2, <2>3
<1>2. CASE p # q
  BY <1>2
<1> QED
  BY <1>1, <1>2

(* No step takes a member out of the affair.                               *)
LEMMA StaysMember ==
  ASSUME TypeOK, Placed, [Next]_vars, NEW p \in Role, IsMember(p)
  PROVE  IsMember(p)'
<1>1. ASSUME NEW r \in Request, Shapes(r) PROVE IsMember(p)'
  <2>1. CASE AddMember(r)
    BY <2>1, AddMemberFrame
  <2>2. CASE UNCHANGED members
    BY <2>2 DEF IsMember
  <2> QED
    BY <1>1, <2>1, <2>2, FindUserFrame, InsertUserFrame, SaveInsideFrame, FailFrame
    DEF Shapes, Quiet, Checking
<1>2. CASE SetValid \/ UNCHANGED vars
  BY <1>2 DEF SetValid, vars, rows, applications, IsMember
<1> QED
  BY <1>1, <1>2, StepShape DEF Next

(* The steps that write rows of applications and of invitations.           *)
LEMMA ApplicationsChange ==
  ASSUME [Next]_vars
  PROVE  \/ UNCHANGED <<application, applicant>>
         \/ \E r \in Request : SaveApplication(r) \/ CloseApplication(r) \/ SaveReject(r)
<1>1. ASSUME NEW r \in Request, Applying(r)
      PROVE  UNCHANGED <<application, applicant>> \/ SaveApplication(r) \/ CloseApplication(r) \/ SaveReject(r)
  BY <1>1 DEF Applying, ApplyCheck, Apply, AgreeApplication, RejectApplication, rows, applications
<1>2. ASSUME NEW r \in Request, Entering(r) \/ Inviting(r) \/ Fail(r) PROVE UNCHANGED <<application, applicant>>
  BY <1>2 DEF Entering, AddMember, FindUser, InsertUser, Inviting, InsideDone, InsideCheck, SaveInside,
     OutsideDone, OutsideCheck, SaveOutside, CloseInvitation, SaveRejectInvitation, Invite,
     AgreeInvitation, RejectInvitation, Fail, rows, applications
<1> QED
  BY <1>1, <1>2 DEF Next, SetValid, vars, rows, applications

LEMMA InvitationsChange ==
  ASSUME [Next]_vars
  PROVE  \/ UNCHANGED invitation
         \/ \E r \in Request : SaveInside(r) \/ CloseInvitation(r) \/ SaveRejectInvitation(r) \/ SaveOutside(r)
<1>1. ASSUME NEW r \in Request, Inviting(r)
      PROVE  \/ UNCHANGED invitation
             \/ SaveInside(r) \/ CloseInvitation(r) \/ SaveRejectInvitation(r) \/ SaveOutside(r)
  BY <1>1 DEF Inviting, InsideDone, InsideCheck, OutsideDone, OutsideCheck, Invite,
     AgreeInvitation, RejectInvitation, rows, applications
<1>2. ASSUME NEW r \in Request, Entering(r) \/ Applying(r) \/ Fail(r) PROVE UNCHANGED invitation
  BY <1>2 DEF Entering, AddMember, FindUser, InsertUser, Applying, ApplyCheck, SaveApplication,
     CloseApplication, SaveReject, Apply, AgreeApplication, RejectApplication, Fail, rows, applications
<1> QED
  BY <1>1, <1>2 DEF Next, SetValid, vars, rows, applications

(* An agreed invitation is new only where a role enters or has entered.    *)
LEMMA InvitedRow ==
  ASSUME TypeOK, Placed, [Next]_vars, NEW p \in Role, NEW i, IsAgreed(invitation'[p], i)
  PROVE  \/ IsAgreed(invitation[p], i) \/ IsMember(p)
         \/ \E r \in Request : SaveInside(r) /\ p = subject[r]
<1>b. invitation \in [Role -> Seq(0..2)] /\ {ToCheck, Agree, Reject} \subseteq 0..2
  BY DEF TypeOK
<1>1. ASSUME NEW r \in Request, SaveInside(r)
      PROVE  IsAgreed(invitation[p], i) \/ p = subject[r]
  <2>1. subject[r] \in Role /\ invitation' = [invitation EXCEPT ![subject[r]] = Append(@, Agree)]
    BY <1>1 DEF SaveInside, Placed, PlacedAt
  <2>2. IsAgreed([invitation EXCEPT ![subject[r]] = Append(@, Agree)][p], i)
    BY <2>1
  <2> QED
    BY <1>b, <2>1, <2>2, AgreedAdded
<1>2. ASSUME NEW r \in Request, CloseInvitation(r)
      PROVE  IsAgreed(invitation[p], i) \/ IsMember(p)
  <2>1. /\ subject[r] \in Role /\ IsMember(subject[r])
        /\ invitation' = [invitation EXCEPT ![subject[r]][item[r]] = Agree]
    BY <1>2 DEF CloseInvitation, Placed, PlacedAt
  <2>2. IsAgreed(invitation'[p], i)
    BY <2>1
  <2>3. IsAgreed(invitation[p], i) \/ p = subject[r]
    <3>1. /\ DOMAIN invitation'[p] = DOMAIN invitation[p]
          /\ \A k \in DOMAIN invitation[p] : invitation'[p][k] = IF p = subject[r] /\ k = item[r] THEN Agree ELSE invitation[p][k]
      BY <1>b, <2>1, AfterChanging
    <3> QED
      BY <2>2, <3>1 DEF IsAgreed
  <2> QED
    BY <2>1, <2>3
<1>3. ASSUME NEW r \in Request, SaveRejectInvitation(r)
      PROVE  IsAgreed(invitation[p], i)
  <2>1. subject[r] \in Role /\ invitation' = [invitation EXCEPT ![subject[r]][item[r]] = Reject]
    BY <1>3 DEF SaveRejectInvitation, Placed, PlacedAt
  <2>2. IsAgreed(invitation'[p], i)
    BY <2>1
  <2>3. IsAgreed(invitation[p], i) \/ (p = subject[r] /\ i = item[r] /\ Reject = Agree)
    <3>1. /\ DOMAIN invitation'[p] = DOMAIN invitation[p]
          /\ \A k \in DOMAIN invitation[p] : invitation'[p][k] = IF p = subject[r] /\ k = item[r] THEN Reject ELSE invitation[p][k]
      BY <1>b, <2>1, AfterChanging
    <3> QED
      BY <2>2, <3>1 DEF IsAgreed
  <2> QED
    BY <2>3
<1>4. ASSUME NEW r \in Request, SaveOutside(r)
      PROVE  IsAgreed(invitation[p], i)
  <2>1. subject[r] \in Role
    BY <1>4 DEF SaveOutside, Placed, PlacedAt
  <2>2. \/ invitation' = [invitation EXCEPT ![subject[r]] = Append(@, ToCheck)]
        \/ invitation' = [invitation EXCEPT ![subject[r]][item[r]] = ToCheck]
    BY <1>4 DEF SaveOutside
  <2>3. CASE invitation' = [invitation EXCEPT ![subject[r]] = Append(@, ToCheck)]
    <3>1. IsAgreed([invitation EXCEPT ![subject[r]] = Append(@, ToCheck)][p], i)
      BY <2>3
    <3>2. IsAgreed(invitation[p], i) \/ (p = subject[r] /\ ToCheck = Agree)
      BY <1>b, <2>1, <3>1, AgreedAdded
    <3> QED
      BY <3>2
  <2>4. CASE invitation' = [invitation EXCEPT ![subject[r]][item[r]] = ToCheck]
    <3>1. /\ DOMAIN invitation'[p] = DOMAIN invitation[p]
          /\ \A k \in DOMAIN invitation[p] : invitation'[p][k] = IF p = subject[r] /\ k = item[r] THEN ToCheck ELSE invitation[p][k]
      BY <1>b, <2>1, <2>4, AfterChanging
    <3> QED
      BY <3>1 DEF IsAgreed
  <2> QED
    BY <2>2, <2>3, <2>4
<1> QED
  BY <1>1, <1>2, <1>3, <1>4, InvitationsChange

(* The call that has saved an agreed invitation adds the member next.      *)
LEMMA InvitedStep == TypeOK /\ Placed /\ InvitedIsMember /\ [Next]_vars => InvitedIsMember'
<1> DEFINE Adds(s, p) == at[s] = "addMember" /\ call[s] = "inside" /\ subject[s] = p
<1> SUFFICES ASSUME TypeOK, Placed, InvitedIsMember, [Next]_vars, "failure" \notin causes',
                    NEW p \in Role, NEW i, IsAgreed(invitation'[p], i), ~IsMember(p)'
             PROVE  \E s \in Request : Adds(s, p)'
  BY DEF InvitedIsMember, IsAgreed
<1>a. ~IsMember(p)
  BY StaysMember
<1>b. "failure" \notin causes /\ IsAgreed(invitation[p], i) => \E s \in Request : Adds(s, p)
  BY <1>a DEF InvitedIsMember, IsAgreed
<1>1. ASSUME NEW r \in Request, SaveInside(r), p = subject[r] PROVE \E s \in Request : Adds(s, p)'
  <2>1. call[r] = "inside"
    BY <1>1 DEF SaveInside, Placed, PlacedAt
  <2>2. Adds(r, p)'
    BY <1>1, <2>1, GotoFrame DEF SaveInside
  <2> QED
    BY <2>2
<1>2. CASE IsAgreed(invitation[p], i)
  <2>1. causes \subseteq causes'
    <3>1. ASSUME NEW r \in Request, Shapes(r) PROVE causes \subseteq causes'
      BY <3>1, WritesFrame, FindUserFrame, FailFrame
      DEF Shapes, Quiet, Checking, AddMember, InsertUser, SaveInside
    <3> QED
      BY <3>1, StepShape DEF Next, SetValid, vars, history
  <2>2. PICK s \in Request : Adds(s, p)
    BY <1>2, <1>b, <2>1
  <2>3. ASSUME NEW r \in Request, Shapes(r) PROVE Adds(s, p)'
    <3>1. CASE s = r
      <4>1. AddMember(r) \/ Fail(r)
        BY <2>2, <2>3, <3>1, FindUserFrame, InsertUserFrame, SaveInsideFrame DEF Shapes, Quiet, Checking
      <4>2. CASE AddMember(r)
        BY <2>2, <3>1, <4>2, AddMemberFrame
      <4>3. CASE Fail(r)
        BY <2>2, <3>1, <4>3, FailFrame DEF Midway
      <4> QED
        BY <4>1, <4>2, <4>3
    <3>2. CASE s # r
      <4>1. Alone(r)
        BY <2>3, AddMemberFrame, FindUserFrame, InsertUserFrame, SaveInsideFrame, FailFrame
        DEF Shapes, Quiet, Checking
      <4> QED
        BY <2>2, <3>2, <4>1 DEF Alone
    <3> QED
      BY <3>1, <3>2
  <2>4. CASE SetValid \/ UNCHANGED vars
    BY <2>2, <2>4 DEF SetValid, vars, locals
  <2> QED
    BY <2>3, <2>4, StepShape DEF Next
<1> QED
  BY <1>a, <1>1, <1>2, InvitedRow

-----------------------------------------------------------------------------
(* What a step does to the rows of a role.                                 *)

(* A row added to the column of q: those before it stay.                   *)
LEMMA AfterAdding ==
  ASSUME NEW states \in [Role -> Seq(0..2)], NEW q \in Role, NEW p \in Role, NEW x \in 0..2,
         NEW after, after = [states EXCEPT ![q] = Append(@, x)]
  PROVE  /\ p # q => after[p] = states[p]
         /\ \A i \in DOMAIN states[p] : i \in DOMAIN after[p] /\ after[p][i] = states[p][i]
         /\ DOMAIN after[q] = DOMAIN states[q] \cup {Len(states[q]) + 1}
         /\ after[q][Len(states[q]) + 1] = x
<1>1. after[q] = Append(states[q], x) /\ states[q] \in Seq(0..2)
  OBVIOUS
<1>2. /\ DOMAIN after[q] = 1..(Len(states[q]) + 1)
      /\ \A i \in 1..Len(states[q]) : after[q][i] = states[q][i]
      /\ after[q][Len(states[q]) + 1] = x
  BY <1>1, AppendProperties
<1>3. Len(states[q]) \in Nat /\ DOMAIN states[q] = 1..Len(states[q])
  BY <1>1
<1>4. p # q => after[p] = states[p]
  OBVIOUS
<1> QED
  BY <1>2, <1>3, <1>4

(* No row is taken away.                                                   *)
LEMMA RowsStay ==
  ASSUME TypeOK, Placed, [Next]_vars, NEW p \in Role
  PROVE  DOMAIN application[p] \subseteq DOMAIN application'[p] /\ DOMAIN invitation[p] \subseteq DOMAIN invitation'[p]
<1>a. application \in [Role -> Seq(0..2)] /\ invitation \in [Role -> Seq(0..2)] /\ {ToCheck, Agree, Reject} \subseteq 0..2
  BY DEF TypeOK
<1>1. ASSUME NEW r \in Request, SaveApplication(r) \/ CloseApplication(r) \/ SaveReject(r)
      PROVE  DOMAIN application[p] \subseteq DOMAIN application'[p]
  <2>1. subject[r] \in Role
    BY <1>1 DEF SaveApplication, CloseApplication, SaveReject, Placed, PlacedAt
  <2>2. CASE SaveApplication(r)
    BY <1>a, <2>1, <2>2, AfterAdding DEF SaveApplication
  <2>3. CASE CloseApplication(r)
    BY <1>a, <2>1, <2>3, AfterChanging DEF CloseApplication
  <2>4. CASE SaveReject(r)
    BY <1>a, <2>1, <2>4, AfterChanging DEF SaveReject
  <2> QED
    BY <1>1, <2>2, <2>3, <2>4
<1>2. ASSUME NEW r \in Request, SaveInside(r) \/ CloseInvitation(r) \/ SaveRejectInvitation(r) \/ SaveOutside(r)
      PROVE  DOMAIN invitation[p] \subseteq DOMAIN invitation'[p]
  <2>1. subject[r] \in Role
    BY <1>2 DEF SaveInside, CloseInvitation, SaveRejectInvitation, SaveOutside, Placed, PlacedAt
  <2>2. CASE SaveInside(r)
    BY <1>a, <2>1, <2>2, AfterAdding DEF SaveInside
  <2>3. CASE CloseInvitation(r)
    BY <1>a, <2>1, <2>3, AfterChanging DEF CloseInvitation
  <2>4. CASE SaveRejectInvitation(r)
    BY <1>a, <2>1, <2>4, AfterChanging DEF SaveRejectInvitation
  <2>5. CASE SaveOutside(r) /\ item[r] = 0
    BY <1>a, <2>1, <2>5, AfterAdding DEF SaveOutside
  <2>6. CASE SaveOutside(r) /\ item[r] # 0
    BY <1>a, <2>1, <2>6, AfterChanging DEF SaveOutside
  <2> QED
    BY <1>2, <2>2, <2>3, <2>4, <2>5, <2>6
<1> QED
  BY <1>1, <1>2, ApplicationsChange, InvitationsChange

(* Each application keeps its applicant.                                   *)
LEMMA ApplicantsStay ==
  ASSUME TypeOK, Placed, [Next]_vars, NEW p \in Role
  PROVE  /\ Len(applicant'[p]) = Len(application'[p])
         /\ \A i \in DOMAIN application[p] : applicant'[p][i] = applicant[p][i]
<1>a. /\ application \in [Role -> Seq(0..2)] /\ applicant \in [Role -> Seq(User)]
      /\ Len(applicant[p]) = Len(application[p])
  BY DEF TypeOK, Placed, Paired
<1>1. ASSUME NEW r \in Request, SaveApplication(r)
      PROVE  /\ Len(applicant'[p]) = Len(application'[p])
             /\ \A i \in DOMAIN application[p] : applicant'[p][i] = applicant[p][i]
  <2>1. /\ subject[r] \in Role /\ user[r] \in User
        /\ application' = [application EXCEPT ![subject[r]] = Append(@, ToCheck)]
        /\ applicant' = [applicant EXCEPT ![subject[r]] = Append(@, user[r])]
    BY <1>1 DEF SaveApplication, Placed, PlacedAt
  <2>2. CASE p = subject[r]
    <3>1. application'[p] = Append(application[p], ToCheck) /\ applicant'[p] = Append(applicant[p], user[r])
      BY <1>a, <2>1, <2>2
    <3>2. application[p] \in Seq(0..2) /\ applicant[p] \in Seq(User) /\ ToCheck \in 0..2
      BY <1>a
    <3>3. /\ Len(Append(application[p], ToCheck)) = Len(application[p]) + 1
          /\ Len(Append(applicant[p], user[r])) = Len(applicant[p]) + 1
          /\ \A i \in 1..Len(applicant[p]) : Append(applicant[p], user[r])[i] = applicant[p][i]
      BY <2>1, <3>2, AppendProperties
    <3>4. DOMAIN application[p] = 1..Len(applicant[p])
      BY <1>a, <3>2
    <3> QED
      BY <1>a, <3>1, <3>3, <3>4
  <2>3. CASE p # subject[r]
    BY <1>a, <2>1, <2>3
  <2> QED
    BY <2>2, <2>3
<1>2. ASSUME NEW r \in Request, CloseApplication(r) \/ SaveReject(r)
      PROVE  Len(application'[p]) = Len(application[p]) /\ UNCHANGED applicant
  <2>1. /\ subject[r] \in Role /\ UNCHANGED applicant
        /\ \E x \in 0..2 : application' = [application EXCEPT ![subject[r]][item[r]] = x]
    BY <1>2 DEF CloseApplication, SaveReject, Placed, PlacedAt
  <2>2. PICK x \in 0..2 : application' = [application EXCEPT ![subject[r]][item[r]] = x]
    BY <2>1
  <2>3. DOMAIN application'[p] = DOMAIN application[p]
    BY <1>a, <2>1, <2>2, AfterChanging
  <2>4. application'[p] \in Seq(0..2) /\ application[p] \in Seq(0..2)
    <3>1. application \in [Role -> Seq(0..2)]
      BY <1>a
    <3>2. [application EXCEPT ![subject[r]][item[r]] = x] \in [Role -> Seq(0..2)]
      BY <3>1, RowChanged
    <3> QED
      BY <2>2, <3>1, <3>2
  <2>5. 1..Len(application'[p]) = 1..Len(application[p])
    BY <2>3, <2>4
  <2>6. Len(application'[p]) \in Nat /\ Len(application[p]) \in Nat
    BY <2>4
  <2> QED
    BY <2>1, <2>5, <2>6
<1> QED
  BY <1>a, <1>1, <1>2, ApplicationsChange

LEMMA PlacedStep == TypeOK /\ Placed /\ [Next]_vars => Placed'
  BY PlacedAtStep, ApplicantsStay DEF Placed, Paired

(* An application is agreed for a role that is a member, and its applicant *)
(* has a row.                                                              *)
LEMMA AgreedStep == TypeOK /\ Placed /\ Purpose /\ AgreedHasEntered /\ [Next]_vars => AgreedHasEntered'
<1> DEFINE Entered(p, i) == IsMember(p) /\ users[applicant[p][i]] > 0
<1> SUFFICES ASSUME TypeOK, Placed, Purpose, AgreedHasEntered, [Next]_vars,
                    NEW p \in Role, NEW i, IsAgreed(application[p], i)'
             PROVE  Entered(p, i)'
  BY DEF AgreedHasEntered, IsAgreed
<1>a. IsAgreed(application[p], i) => Entered(p, i)
  BY DEF AgreedHasEntered, IsAgreed
<1>b. application \in [Role -> Seq(0..2)] /\ {ToCheck, Agree, Reject} \subseteq 0..2
  BY DEF TypeOK
<1>c. i \in DOMAIN application[p] /\ Entered(p, i) => Entered(p, i)'
  BY StaysMember, UserStays, ApplicantsStay, ApplicantKnown
<1>d. IsAgreed(application[p], i) => i \in DOMAIN application[p]
  BY DEF IsAgreed
<1>1. ASSUME NEW r \in Request, SaveApplication(r) \/ CloseApplication(r) \/ SaveReject(r)
      PROVE  i \in DOMAIN application[p] /\ Entered(p, i)
  <2>1. subject[r] \in Role
    BY <1>1 DEF SaveApplication, CloseApplication, SaveReject, Placed, PlacedAt
  <2>2. CASE SaveApplication(r)
    <3>1. application' = [application EXCEPT ![subject[r]] = Append(@, ToCheck)]
      BY <2>2 DEF SaveApplication
    <3>2. IsAgreed([application EXCEPT ![subject[r]] = Append(@, ToCheck)][p], i)
      BY <3>1 DEF IsAgreed
    <3>3. IsAgreed(application[p], i) \/ (p = subject[r] /\ ToCheck = Agree)
      BY <1>b, <2>1, <3>2, AgreedAdded
    <3>4. IsAgreed(application[p], i)
      BY <3>3
    <3> QED
      BY <1>a, <1>d, <3>4
  <2>3. CASE CloseApplication(r)
    <3>1. /\ application' = [application EXCEPT ![subject[r]][item[r]] = Agree] /\ IsMember(subject[r])
          /\ at[r] = "closeApplication" /\ users[user[r]] > 0
      BY <2>3 DEF CloseApplication, Placed, PlacedAt
    <3>2. IsAgreed(application'[p], i)
      BY <3>1 DEF IsAgreed
    <3>3. IsAgreed(application[p], i) \/ (p = subject[r] /\ i = item[r])
      <4>1. /\ DOMAIN application'[p] = DOMAIN application[p]
            /\ \A k \in DOMAIN application[p] : application'[p][k] = IF p = subject[r] /\ k = item[r] THEN Agree ELSE application[p][k]
        BY <1>b, <2>1, <3>1, AfterChanging
      <4> QED
        BY <3>2, <4>1 DEF IsAgreed
    <3>4. item[r] \in DOMAIN application[subject[r]] /\ user[r] = applicant[subject[r]][item[r]]
      BY <3>1 DEF Purpose, PurposeAt
    <3> QED
      BY <1>a, <1>d, <3>1, <3>3, <3>4
  <2>4. CASE SaveReject(r)
    <3>1. application' = [application EXCEPT ![subject[r]][item[r]] = Reject]
      BY <2>4 DEF SaveReject
    <3>2. IsAgreed(application'[p], i)
      BY <3>1 DEF IsAgreed
    <3>3. IsAgreed(application[p], i) \/ (p = subject[r] /\ i = item[r] /\ Reject = Agree)
      <4>1. /\ DOMAIN application'[p] = DOMAIN application[p]
            /\ \A k \in DOMAIN application[p] : application'[p][k] = IF p = subject[r] /\ k = item[r] THEN Reject ELSE application[p][k]
        BY <1>b, <2>1, <3>1, AfterChanging
      <4> QED
        BY <3>2, <4>1 DEF IsAgreed
    <3>4. IsAgreed(application[p], i)
      BY <3>3
    <3> QED
      BY <1>a, <1>d, <3>4
  <2> QED
    BY <1>1, <2>2, <2>3, <2>4
<1>2. CASE UNCHANGED application
  <2>1. IsAgreed(application[p], i)
    BY <1>2 DEF IsAgreed
  <2> QED
    BY <1>a, <1>c, <1>d, <2>1
<1>3. ASSUME NEW r \in Request, SaveApplication(r) \/ CloseApplication(r) \/ SaveReject(r)
      PROVE  Entered(p, i)'
  BY <1>1, <1>3, <1>c
<1> QED
  BY <1>2, <1>3, ApplicationsChange

(* Other requests keep what they know, unless the step makes them stale.   *)
LEMMA OthersKnow ==
  ASSUME TypeOK, Placed, NEW r \in Request, Shapes(r),
         Entering(r) \/ Applying(r) \/ Inviting(r) \/ Fail(r),
         NEW s \in Request \ {r}, s \notin stale', subject[s] \in Role
  PROVE  /\ s \notin stale
         /\ application'[subject[s]] = application[subject[s]] /\ invitation'[subject[s]] = invitation[subject[s]]
<1>1. s \notin stale
  BY WritesFrame, FindUserFrame, FailFrame DEF Shapes, Quiet, Checking, AddMember, InsertUser, SaveInside
<1>2. subject[s] # NoRole
  BY RoleAssumption
<1>a. application \in [Role -> Seq(0..2)] /\ invitation \in [Role -> Seq(0..2)] /\ {ToCheck, Agree, Reject} \subseteq 0..2
  BY DEF TypeOK
<1>3. ASSUME SaveApplication(r) \/ CloseApplication(r) \/ SaveReject(r) PROVE application'[subject[s]] = application[subject[s]]
  <2>1. subject[s] # subject[r] /\ subject[r] \in Role
    BY <1>2, <1>3, WritesFrame DEF SaveApplication, CloseApplication, SaveReject, Placed, PlacedAt
  <2> QED
    BY <1>3, <2>1, <1>a DEF SaveApplication, CloseApplication, SaveReject
<1>4. ASSUME SaveInside(r) \/ CloseInvitation(r) \/ SaveRejectInvitation(r) \/ SaveOutside(r)
      PROVE  invitation'[subject[s]] = invitation[subject[s]]
  <2>1. subject[s] # subject[r] /\ subject[r] \in Role
    BY <1>2, <1>4, WritesFrame DEF SaveInside, CloseInvitation, SaveRejectInvitation, SaveOutside, Placed, PlacedAt
  <2> QED
    BY <1>4, <2>1, <1>a DEF SaveInside, CloseInvitation, SaveRejectInvitation, SaveOutside
<1>5. UNCHANGED application \/ SaveApplication(r) \/ CloseApplication(r) \/ SaveReject(r)
  BY DEF Entering, AddMember, FindUser, InsertUser, Inviting, InsideDone, InsideCheck, SaveInside,
     OutsideDone, OutsideCheck, SaveOutside, CloseInvitation, SaveRejectInvitation, Invite,
     AgreeInvitation, RejectInvitation, Fail, rows, applications, Applying, ApplyCheck, Apply, AgreeApplication, RejectApplication
<1>6. UNCHANGED invitation \/ SaveInside(r) \/ CloseInvitation(r) \/ SaveRejectInvitation(r) \/ SaveOutside(r)
  BY DEF Entering, AddMember, FindUser, InsertUser, Applying, ApplyCheck, SaveApplication,
     CloseApplication, SaveReject, Apply, AgreeApplication, RejectApplication, Fail, rows, applications,
     Inviting, InsideDone, InsideCheck, OutsideDone, OutsideCheck, Invite, AgreeInvitation, RejectInvitation
<1> QED
  BY <1>1, <1>3, <1>4, <1>5, <1>6

(* What a request adds a member for stays what it was checked for.         *)
LEMMA PurposeStep == TypeOK /\ Placed /\ Purpose /\ [Next]_vars => Purpose'
<1> SUFFICES ASSUME TypeOK, Placed, Purpose, [Next]_vars, NEW s \in Request PROVE PurposeAt(s)'
  BY DEF Purpose
<1>1. PurposeAt(s) /\ PlacedAt(s)
  BY DEF Purpose, Placed
<1>2. subject[s] \in Role => /\ DOMAIN application[subject[s]] \subseteq DOMAIN application'[subject[s]]
                             /\ DOMAIN invitation[subject[s]] \subseteq DOMAIN invitation'[subject[s]]
                             /\ \A i \in DOMAIN application[subject[s]] :
                                    applicant'[subject[s]][i] = applicant[subject[s]][i]
  BY RowsStay, ApplicantsStay
<1> USE <1>1, <1>2 DEF PurposeAt, PlacedAt, Adding
<1>3. CASE SetValid \/ UNCHANGED vars
  BY <1>3 DEF SetValid, vars, rows, applications, locals
<1>4. ASSUME NEW r \in Request, Shapes(r) PROVE PurposeAt(s)'
  <2>1. CASE s = r /\ (Quiet(r) \/ Checking(r))
    BY <2>1 DEF Quiet, Checking
  <2>2. CASE s = r /\ AddMember(r)
    BY <2>2, AddMemberFrame
  <2>3. CASE s = r /\ FindUser(r)
    BY <2>3, FindUserFrame
  <2>4. CASE s = r /\ InsertUser(r)
    BY <2>4, InsertUserFrame
  <2>5. CASE s = r /\ SaveInside(r)
    BY <2>5, SaveInsideFrame
  <2>6. CASE s = r /\ Fail(r)
    BY <2>6, FailFrame
  <2>7. CASE s # r
    <3>1. Alone(r)
      BY <1>4, AddMemberFrame, FindUserFrame, InsertUserFrame, SaveInsideFrame, FailFrame
      DEF Shapes, Quiet, Checking
    <3> QED
      BY <2>7, <3>1 DEF Alone
  <2> QED
    BY <1>4, <2>1, <2>2, <2>3, <2>4, <2>5, <2>6, <2>7 DEF Shapes
<1> QED
  BY <1>3, <1>4, StepShape DEF Next

(* So does what it has read of the open rows.                              *)
LEMMA KnowsStep == TypeOK /\ Placed /\ Knows /\ [Next]_vars => Knows'
<1> SUFFICES ASSUME TypeOK, Placed, Knows, [Next]_vars, NEW s \in Request, s \notin stale'
             PROVE  KnowsAt(s)'
  BY DEF Knows
<1>1. PlacedAt(s) /\ (s \notin stale => KnowsAt(s))
  BY DEF Placed, Knows
<1>2. ASSUME s \notin stale, at'[s] = at[s], subject'[s] = subject[s], item'[s] = item[s],
             subject[s] \in Role =>
                 application'[subject[s]] = application[subject[s]] /\ invitation'[subject[s]] = invitation[subject[s]]
      PROVE  KnowsAt(s)'
  <2>1. CASE at[s] \in {"idle", "inside", "outside"}
    BY <1>2, <2>1 DEF KnowsAt
  <2>2. CASE at[s] \notin {"idle", "inside", "outside"}
    <3>1. subject[s] \in Role
      BY <1>1, <2>2 DEF PlacedAt
    <3> DEFINE A == application[subject[s]]
               I == invitation[subject[s]]
    <3>2. application'[subject'[s]] = A /\ invitation'[subject'[s]] = I
      BY <1>2, <3>1
    <3>3. /\ at'[s] = "saveApplication" => Open(A) = {}
          /\ at'[s] = "saveOutside" /\ item'[s] = 0 => Open(I) = {}
          /\ at'[s] = "saveOutside" /\ item'[s] # 0 => item'[s] \in Open(I)
          /\ at'[s] = "rejectInvitation" => item'[s] \in Open(I)
      BY <1>1, <1>2 DEF KnowsAt
    <3> QED
      BY <3>2, <3>3 DEF KnowsAt, Open
  <2> QED
    BY <2>1, <2>2
<1>3. CASE SetValid \/ UNCHANGED vars
  <2>1. s \notin stale
    BY <1>3 DEF SetValid, vars, history
  <2> QED
    BY <1>2, <1>3, <2>1 DEF SetValid, vars, rows, applications, locals
<1>4. ASSUME NEW r \in Request, Shapes(r), Entering(r) \/ Applying(r) \/ Inviting(r) \/ Fail(r)
      PROVE  KnowsAt(s)'
  <2>1. CASE s = r /\ Checking(r)
    BY <2>1 DEF Checking
  <2>2. CASE s = r /\ ~Checking(r)
    <3>1. at'[r] \notin {"saveApplication", "saveOutside", "rejectInvitation"}
      BY <1>4, <2>2, AddMemberFrame, FindUserFrame, InsertUserFrame, SaveInsideFrame, FailFrame DEF Shapes, Quiet
    <3> QED
      BY <2>2, <3>1 DEF KnowsAt
  <2>3. CASE s # r
    <3>1. Alone(r)
      BY <1>4, AddMemberFrame, FindUserFrame, InsertUserFrame, SaveInsideFrame, FailFrame
      DEF Shapes, Quiet, Checking
    <3>2. s \notin stale
      BY <1>4, <2>3, WritesFrame, FindUserFrame, FailFrame
      DEF Shapes, Quiet, Checking, AddMember, InsertUser, SaveInside
    <3> QED
      BY <1>2, <1>4, <2>3, <3>1, <3>2, OthersKnow DEF Alone
  <2> QED
    BY <2>1, <2>2, <2>3
<1> QED
  BY <1>3, <1>4, StepShape DEF Next

(* The causes only grow.                                                   *)
LEMMA CausesStep ==
  ASSUME TypeOK, Placed, [Next]_vars
  PROVE  causes \subseteq causes'
<1>1. ASSUME NEW r \in Request, Shapes(r) PROVE causes \subseteq causes'
  BY <1>1, WritesFrame, FindUserFrame, FailFrame
  DEF Shapes, Quiet, Checking, AddMember, InsertUser, SaveInside
<1> QED
  BY <1>1, StepShape DEF Next, SetValid, vars, history

(* Nobody waits twice: a row is opened only where none is open.            *)
LEMMA OneOpenStep == TypeOK /\ Placed /\ Knows /\ OneOpen /\ [Next]_vars => OneOpen'
<1> SUFFICES ASSUME TypeOK, Placed, Knows, OneOpen, [Next]_vars, "overlap" \notin causes', NEW p \in Role
             PROVE  /\ \A i, j \in Open(application'[p]) : i = j
                    /\ \A i, j \in Open(invitation'[p]) : i = j
  BY DEF OneOpen, Open
<1>a. /\ \A i, j \in Open(application[p]) : i = j
      /\ \A i, j \in Open(invitation[p]) : i = j
  BY CausesStep DEF OneOpen
<1>b. application \in [Role -> Seq(0..2)] /\ invitation \in [Role -> Seq(0..2)] /\ {ToCheck, Agree, Reject} \subseteq 0..2
  BY DEF TypeOK
<1>1. ASSUME NEW r \in Request, SaveApplication(r) \/ CloseApplication(r) \/ SaveReject(r)
      PROVE  \A i, j \in Open(application'[p]) : i = j
  <2>1. subject[r] \in Role
    BY <1>1 DEF SaveApplication, CloseApplication, SaveReject, Placed, PlacedAt
  <2>2. CASE SaveApplication(r)
    <3>1. Open(application[subject[r]]) = {}
      BY <2>2, WritesFrame DEF SaveApplication, Knows, KnowsAt
    <3>2. application' = [application EXCEPT ![subject[r]] = Append(@, ToCheck)]
      BY <2>2 DEF SaveApplication
    <3>3. CASE p = subject[r]
      BY <1>b, <2>1, <3>1, <3>2, <3>3, AfterAdding DEF Open
    <3>4. CASE p # subject[r]
      BY <1>a, <1>b, <2>1, <3>2, <3>4, AfterAdding
    <3> QED
      BY <3>3, <3>4
  <2>3. CASE CloseApplication(r)
    <3>1. Open(application'[p]) \subseteq Open(application[p])
      BY <1>b, <2>1, <2>3, AfterChanging DEF CloseApplication, Open
    <3> QED
      BY <1>a, <3>1
  <2>4. CASE SaveReject(r)
    <3>1. application' = [application EXCEPT ![subject[r]][item[r]] = Reject]
      BY <2>4 DEF SaveReject
    <3>2. Open(application'[p]) \subseteq Open(application[p])
      BY <1>b, <2>1, <3>1, AfterChanging DEF Open
    <3> QED
      BY <1>a, <3>2
  <2> QED
    BY <1>1, <2>2, <2>3, <2>4
<1>2. ASSUME NEW r \in Request, SaveInside(r) \/ CloseInvitation(r) \/ SaveRejectInvitation(r) \/ SaveOutside(r)
      PROVE  \A i, j \in Open(invitation'[p]) : i = j
  <2>1. subject[r] \in Role
    BY <1>2 DEF SaveInside, CloseInvitation, SaveRejectInvitation, SaveOutside, Placed, PlacedAt
  <2>2. CASE SaveInside(r)
    <3>1. invitation' = [invitation EXCEPT ![subject[r]] = Append(@, Agree)]
      BY <2>2 DEF SaveInside
    <3>2. Open(invitation'[p]) \subseteq Open(invitation[p])
      BY <1>b, <2>1, <3>1, AfterAdding DEF Open
    <3> QED
      BY <1>a, <3>2
  <2>3. CASE CloseInvitation(r)
    <3>1. Open(invitation'[p]) \subseteq Open(invitation[p])
      BY <1>b, <2>1, <2>3, AfterChanging DEF CloseInvitation, Open
    <3> QED
      BY <1>a, <3>1
  <2>4. CASE SaveRejectInvitation(r)
    <3>1. Open(invitation'[p]) \subseteq Open(invitation[p])
      BY <1>b, <2>1, <2>4, AfterChanging DEF SaveRejectInvitation, Open
    <3> QED
      BY <1>a, <3>1
  <2>5. CASE SaveOutside(r)
    <3>1. KnowsAt(r) /\ at[r] = "saveOutside"
      BY <2>5, WritesFrame DEF SaveOutside, Knows
    <3>2. CASE item[r] = 0
      <4>1. Open(invitation[subject[r]]) = {}
        BY <3>1, <3>2 DEF KnowsAt
      <4>2. invitation' = [invitation EXCEPT ![subject[r]] = Append(@, ToCheck)]
        BY <2>5, <3>2 DEF SaveOutside
      <4>3. CASE p = subject[r]
        BY <1>b, <2>1, <4>1, <4>2, <4>3, AfterAdding DEF Open
      <4>4. CASE p # subject[r]
        BY <1>a, <1>b, <2>1, <4>2, <4>4, AfterAdding
      <4> QED
        BY <4>3, <4>4
    <3>3. CASE item[r] # 0
      <4>1. item[r] \in Open(invitation[subject[r]])
        BY <3>1, <3>3 DEF KnowsAt
      <4>2. invitation' = [invitation EXCEPT ![subject[r]][item[r]] = ToCheck]
        BY <2>5, <3>3 DEF SaveOutside
      <4>3. Open(invitation'[p]) \subseteq Open(invitation[p])
        BY <1>b, <2>1, <4>1, <4>2, AfterChanging DEF Open
      <4> QED
        BY <1>a, <4>3
    <3> QED
      BY <3>2, <3>3
  <2> QED
    BY <1>2, <2>2, <2>3, <2>4, <2>5
<1> QED
  BY <1>a, <1>1, <1>2, ApplicationsChange, InvitationsChange

(* An agreed row stays agreed unless calls overlap or an application is    *)
(* rejected after it was agreed.                                           *)
NothingUndone == causes \cap {"overlap", "agreedRejected"} = {}

LEMMA AgreedKept ==
  ASSUME TypeOK, Placed, Knows, [Next]_vars, NothingUndone', NEW p \in Role
  PROVE  /\ HasAgreed(application[p]) => HasAgreed(application'[p])
         /\ HasAgreed(invitation[p]) => HasAgreed(invitation'[p])
<1>b. application \in [Role -> Seq(0..2)] /\ invitation \in [Role -> Seq(0..2)] /\ {ToCheck, Agree, Reject} \subseteq 0..2
  BY DEF TypeOK
<1>1. ASSUME NEW r \in Request, SaveApplication(r) \/ CloseApplication(r) \/ SaveReject(r),
             NEW i \in DOMAIN application[p], application[p][i] = Agree
      PROVE  HasAgreed(application'[p])
  <2>1. subject[r] \in Role
    BY <1>1 DEF SaveApplication, CloseApplication, SaveReject, Placed, PlacedAt
  <2>2. CASE SaveApplication(r)
    <3>1. application' = [application EXCEPT ![subject[r]] = Append(@, ToCheck)]
      BY <2>2 DEF SaveApplication
    <3>2. i \in DOMAIN application'[p] /\ application'[p][i] = Agree
      BY <1>b, <1>1, <2>1, <3>1, AfterAdding
    <3> QED
      BY <3>2 DEF HasAgreed
  <2>3. CASE CloseApplication(r)
    BY <1>b, <1>1, <2>1, <2>3, AfterChanging DEF CloseApplication, HasAgreed
  <2>4. CASE SaveReject(r)
    <3>1. application' = [application EXCEPT ![subject[r]][item[r]] = Reject]
      BY <2>4 DEF SaveReject
    <3>2. application[subject[r]][item[r]] # Agree
      BY <2>4 DEF SaveReject, Writes, NothingUndone
    <3>3. ~(p = subject[r] /\ i = item[r])
      BY <1>1, <3>2
    <3>4. i \in DOMAIN application'[p] /\ application'[p][i] = Agree
      BY <1>b, <1>1, <2>1, <3>1, <3>3, AfterChanging
    <3> QED
      BY <3>4 DEF HasAgreed
  <2> QED
    BY <1>1, <2>2, <2>3, <2>4
<1>2. ASSUME NEW r \in Request, SaveInside(r) \/ CloseInvitation(r) \/ SaveRejectInvitation(r) \/ SaveOutside(r),
             NEW i \in DOMAIN invitation[p], invitation[p][i] = Agree
      PROVE  HasAgreed(invitation'[p])
  <2>1. subject[r] \in Role
    BY <1>2 DEF SaveInside, CloseInvitation, SaveRejectInvitation, SaveOutside, Placed, PlacedAt
  <2>2. CASE SaveInside(r)
    <3>1. invitation' = [invitation EXCEPT ![subject[r]] = Append(@, Agree)]
      BY <2>2 DEF SaveInside
    <3>2. i \in DOMAIN invitation'[p] /\ invitation'[p][i] = Agree
      BY <1>b, <1>2, <2>1, <3>1, AfterAdding
    <3> QED
      BY <3>2 DEF HasAgreed
  <2>3. CASE CloseInvitation(r)
    BY <1>b, <1>2, <2>1, <2>3, AfterChanging DEF CloseInvitation, HasAgreed
  <2>4. CASE SaveRejectInvitation(r)
    <3>1. invitation' = [invitation EXCEPT ![subject[r]][item[r]] = Reject]
      BY <2>4 DEF SaveRejectInvitation
    <3>2. item[r] \in Open(invitation[subject[r]])
      <4>1. r \notin stale /\ at[r] = "rejectInvitation"
        BY <2>4, WritesFrame DEF SaveRejectInvitation, NothingUndone
      <4> QED
        BY <4>1 DEF Knows, KnowsAt
    <3>3. ~(p = subject[r] /\ i = item[r])
      <4>1. invitation[subject[r]][item[r]] = ToCheck
        BY <3>2 DEF Open
      <4>2. invitation[subject[r]][item[r]] # Agree
        BY <4>1
      <4> QED
        BY <1>2, <4>2
    <3>4. i \in DOMAIN invitation'[p] /\ invitation'[p][i] = Agree
      BY <1>b, <1>2, <2>1, <3>1, <3>3, AfterChanging
    <3> QED
      BY <3>4 DEF HasAgreed
  <2>5. CASE SaveOutside(r) /\ item[r] = 0
    <3>1. invitation' = [invitation EXCEPT ![subject[r]] = Append(@, ToCheck)]
      BY <2>5 DEF SaveOutside
    <3>2. i \in DOMAIN invitation'[p] /\ invitation'[p][i] = Agree
      BY <1>b, <1>2, <2>1, <3>1, AfterAdding
    <3> QED
      BY <3>2 DEF HasAgreed
  <2>6. CASE SaveOutside(r) /\ item[r] # 0
    <3>1. invitation' = [invitation EXCEPT ![subject[r]][item[r]] = ToCheck]
      BY <2>6 DEF SaveOutside
    <3>2. item[r] \in Open(invitation[subject[r]])
      <4>1. r \notin stale /\ at[r] = "saveOutside"
        BY <2>6, WritesFrame DEF SaveOutside, NothingUndone
      <4> QED
        BY <2>6, <4>1 DEF Knows, KnowsAt
    <3>3. ~(p = subject[r] /\ i = item[r])
      <4>1. invitation[subject[r]][item[r]] = ToCheck
        BY <3>2 DEF Open
      <4>2. invitation[subject[r]][item[r]] # Agree
        BY <4>1
      <4> QED
        BY <1>2, <4>2
    <3>4. i \in DOMAIN invitation'[p] /\ invitation'[p][i] = Agree
      BY <1>b, <1>2, <2>1, <3>1, <3>3, AfterChanging
    <3> QED
      BY <3>4 DEF HasAgreed
  <2> QED
    BY <1>2, <2>2, <2>3, <2>4, <2>5, <2>6
<1> QED
  BY <1>1, <1>2, ApplicationsChange, InvitationsChange DEF HasAgreed

Unexcused == causes \cap {"overlap", "failure", "agreedRejected"} = {}

(* The call that adds a member inside the alliance has saved it as agreed. *)
LEMMA InsideAgreedStep == TypeOK /\ Placed /\ Knows /\ InsideAgreed /\ [Next]_vars => InsideAgreed'
<1> SUFFICES ASSUME TypeOK, Placed, Knows, InsideAgreed, [Next]_vars, Unexcused', NEW s \in Request,
                    at'[s] \in Adding, call'[s] = "inside"
             PROVE  HasAgreed(invitation'[subject'[s]])
  BY DEF InsideAgreed, Unexcused, HasAgreed, Adding
<1>1. Unexcused /\ NothingUndone'
  BY CausesStep DEF Unexcused, NothingUndone
<1>2. at[s] \in Adding /\ call[s] = "inside" => subject[s] \in Role /\ HasAgreed(invitation'[subject[s]])
  <2>1. at[s] \in Adding => subject[s] \in Role
    BY DEF Placed, PlacedAt, Adding
  <2>2. at[s] \in Adding /\ call[s] = "inside" => HasAgreed(invitation[subject[s]])
    BY <1>1 DEF InsideAgreed, Unexcused
  <2> QED
    BY <1>1, <2>1, <2>2, AgreedKept
<1>3. CASE SetValid \/ UNCHANGED vars
  BY <1>2, <1>3 DEF SetValid, vars, locals
<1>4. ASSUME NEW r \in Request, Shapes(r) PROVE HasAgreed(invitation'[subject'[s]])
  <2>1. CASE s = r /\ (Quiet(r) \/ Checking(r) \/ Fail(r))
    BY <2>1, FailFrame DEF Quiet, Checking, Adding
  <2>2. CASE s = r /\ AddMember(r)
    BY <1>2, <2>2, AddMemberFrame DEF Adding
  <2>3. CASE s = r /\ FindUser(r)
    BY <1>2, <2>3, FindUserFrame DEF Adding
  <2>4. CASE s = r /\ InsertUser(r)
    BY <1>2, <2>4, InsertUserFrame DEF Adding
  <2>5. CASE s = r /\ SaveInside(r)
    <3>1. subject[r] \in Role /\ subject'[r] = subject[r]
      BY <2>5, SaveInsideFrame
    <3>2. invitation' = [invitation EXCEPT ![subject[r]] = Append(@, Agree)]
      BY <2>5 DEF SaveInside
    <3>3. invitation \in [Role -> Seq(0..2)] /\ Agree \in 0..2
      BY DEF TypeOK
    <3> QED
      BY <2>5, <3>1, <3>2, <3>3, AfterAdding DEF HasAgreed
  <2>6. CASE s # r
    <3>1. Alone(r)
      BY <1>4, AddMemberFrame, FindUserFrame, InsertUserFrame, SaveInsideFrame, FailFrame
      DEF Shapes, Quiet, Checking
    <3> QED
      BY <1>2, <2>6, <3>1 DEF Alone
  <2> QED
    BY <1>4, <2>1, <2>2, <2>3, <2>4, <2>5, <2>6 DEF Shapes
<1> QED
  BY <1>3, <1>4, StepShape DEF Next

(* A member was let in: it is a director, its row is agreed, or the call   *)
(* that adds it agrees the row next.                                       *)
LEMMA AdmittedStep ==
  TypeOK /\ Placed /\ Purpose /\ Knows /\ InsideAgreed /\ MemberWasAdmitted /\ [Next]_vars => MemberWasAdmitted'
<1> DEFINE Has(p)      == HasAgreed(application[p]) \/ HasAgreed(invitation[p])
           Admits(r, p) == subject[r] = p /\ Midway(r)
<1> SUFFICES ASSUME TypeOK, Placed, Purpose, Knows, InsideAgreed, MemberWasAdmitted, [Next]_vars, Unexcused',
                    NEW p \in Role \ Director, IsMember(p)'
             PROVE  \/ HasAgreed(application'[p]) \/ HasAgreed(invitation'[p])
                    \/ \E r \in Request : Admits(r, p)'
  BY DEF MemberWasAdmitted, Unexcused, HasAgreed
<1>a. Unexcused /\ NothingUndone' /\ "failure" \notin causes'
  BY CausesStep DEF Unexcused, NothingUndone
<1>b. IsMember(p) => Has(p) \/ \E r \in Request : Admits(r, p)
  BY <1>a DEF MemberWasAdmitted, Unexcused, HasAgreed
<1>c. Has(p) => HasAgreed(application'[p]) \/ HasAgreed(invitation'[p])
  BY <1>a, AgreedKept
<1>d. application \in [Role -> Seq(0..2)] /\ invitation \in [Role -> Seq(0..2)] /\ {ToCheck, Agree, Reject} \subseteq 0..2
  BY DEF TypeOK
<1>1. CASE SetValid \/ UNCHANGED vars
  BY <1>b, <1>c, <1>1 DEF SetValid, vars, rows, applications, locals, IsMember, Midway
<1>2. ASSUME NEW r \in Request, Shapes(r), Entering(r) \/ Applying(r) \/ Inviting(r) \/ Fail(r), ~Has(p)
      PROVE  \/ HasAgreed(application'[p]) \/ HasAgreed(invitation'[p])
             \/ \E s \in Request : Admits(s, p)'
  <2>1. CASE AddMember(r) /\ p = subject[r]
    <3>1. Admits(r, p)'
      BY <2>1, AddMemberFrame DEF Midway
    <3> QED
      BY <3>1
  <2>2. CASE ~(AddMember(r) /\ p = subject[r])
    <3>1. IsMember(p)
      BY <1>2, <2>2, AddMemberFrame, FindUserFrame, InsertUserFrame, SaveInsideFrame, FailFrame
      DEF Shapes, Quiet, Checking, IsMember, TypeOK
    <3>2. PICK s \in Request : Admits(s, p)
      BY <1>b, <1>2, <3>1
    <3>3. CASE s # r
      <4>1. Alone(r)
        BY <1>2, AddMemberFrame, FindUserFrame, InsertUserFrame, SaveInsideFrame, FailFrame
        DEF Shapes, Quiet, Checking
      <4>2. Admits(s, p)'
        BY <3>2, <3>3, <4>1 DEF Alone, Midway
      <4> QED
        BY <4>2
    <3>4. CASE s = r
      <4>1. PurposeAt(r)
        BY DEF Purpose
      <4>2. CASE FindUser(r) \/ InsertUser(r)
        <5>1. at[r] \in Adding /\ (Continued(r) \/ (at'[r] = "insertUser" /\ subject'[r] = subject[r]))
          BY <4>2, FindUserFrame, InsertUserFrame DEF Adding
        <5>2. call[r] \notin {"none", "director"}
          BY <3>2, <3>4, <4>1, <5>1 DEF PurposeAt
        <5>3. call[r] # "inside"
          BY <1>a, <1>2, <3>2, <3>4, <5>1 DEF InsideAgreed, Unexcused
        <5>4. at'[r] \in {"insertUser", "closeApplication", "closeInvitation"} /\ subject'[r] = subject[r]
          BY <5>1, <5>2, <5>3
        <5>5. Admits(r, p)'
          BY <3>2, <3>4, <5>4 DEF Midway
        <5> QED
          BY <5>5
      <4>3. CASE CloseApplication(r)
        <5>1. item[r] \in DOMAIN application[p] /\ subject[r] = p
          BY <3>2, <3>4, <4>1, <4>3 DEF PurposeAt, CloseApplication
        <5>2. application' = [application EXCEPT ![p][item[r]] = Agree]
          BY <4>3, <5>1 DEF CloseApplication
        <5>3. item[r] \in DOMAIN application'[p] /\ application'[p][item[r]] = Agree
          BY <1>d, <5>1, <5>2, AfterChanging
        <5> QED
          BY <5>3 DEF HasAgreed
      <4>4. CASE CloseInvitation(r)
        <5>1. item[r] \in DOMAIN invitation[p] /\ subject[r] = p
          BY <3>2, <3>4, <4>1, <4>4 DEF PurposeAt, CloseInvitation
        <5>2. invitation' = [invitation EXCEPT ![p][item[r]] = Agree]
          BY <4>4, <5>1 DEF CloseInvitation
        <5>3. item[r] \in DOMAIN invitation'[p] /\ invitation'[p][item[r]] = Agree
          BY <1>d, <5>1, <5>2, AfterChanging
        <5> QED
          BY <5>3 DEF HasAgreed
      <4>5. ~Fail(r)
        BY <1>a, <3>2, <3>4, FailFrame
      <4>6. CASE AddMember(r)
        BY <2>2, <3>2, <3>4, <4>6
      <4>7. AddMember(r) \/ FindUser(r) \/ InsertUser(r) \/ CloseApplication(r) \/ CloseInvitation(r)
        <5>1. at[r] \in {"addMember", "addUser", "insertUser", "closeApplication", "closeInvitation"}
          BY <3>2, <3>4 DEF Midway
        <5> QED
          BY <1>2, <4>5, <5>1 DEF Entering, Applying, ApplyCheck, SaveApplication, SaveReject, Apply,
             AgreeApplication, RejectApplication, Inviting, InsideDone, InsideCheck, SaveInside, OutsideDone,
             OutsideCheck, SaveOutside, SaveRejectInvitation, Invite, AgreeInvitation, RejectInvitation
      <4> QED
        BY <4>2, <4>3, <4>4, <4>6, <4>7
    <3> QED
      BY <3>3, <3>4
  <2> QED
    BY <2>1, <2>2
<1> QED
  BY <1>c, <1>1, <1>2, StepShape DEF Next

-----------------------------------------------------------------------------
(* The invariant: the types, where each request is and what it knows, and  *)
(* what the rows say.                                                      *)
THEOREM Invariance == Spec => []IInv
<1>1. IInv /\ [Next]_vars => IInv'
  BY TypeStep, PlacedStep, CheckedStep, PurposeStep, KnowsStep, MemberOnceStep, UserOnceStep, HasUserStep,
     AgreedStep, InvitedStep, OneOpenStep, InsideAgreedStep, AdmittedStep
  DEF IInv
<1> QED
  BY <1>1, InitIInv, PTL DEF Spec

(* The values of every variable, whatever calls run at once.               *)
THEOREM TypeCorrect == Spec => []TypeOK
<1>1. IInv => TypeOK
  BY DEF IInv
<1> QED
  BY <1>1, Invariance, PTL

(* AffairMemberService.addMember: one row of affair_member for a role,     *)
(* unless calls about it overlap or it is let in when it is in already.    *)
THEOREM EntersOnce == Spec => []MemberOnce
<1>1. IInv => MemberOnce
  BY DEF IInv
<1> QED
  BY <1>1, Invariance, PTL

(* AffairUserService.addAffairUser: one row of affair_user for a user,     *)
(* unless calls about the user overlap.                                    *)
THEOREM OneRowPerUser == Spec => []UserOnce
<1>1. IInv => UserOnce
  BY DEF IInv
<1> QED
  BY <1>1, Invariance, PTL

(* addMember and addAffairUser come together: the user of a member is an   *)
(* affair_user, unless a call stops between them or the user that had      *)
(* applied with the role, and got the row, is another one.                 *)
THEOREM MembersAreUsers == Spec => []MemberHasUser
<1>1. IInv => MemberHasUser
  BY DEF IInv
<1> QED
  BY <1>1, Invariance, PTL

(* agreeAffairMemberApplication: an application is agreed only when its    *)
(* role is a member and the user who made it, as currentUserId() stored    *)
(* it, has a row of affair_user; wherever calls stop and overlap.          *)
THEOREM AgreedEntered == Spec => []AgreedHasEntered
<1>1. IInv => AgreedHasEntered
  BY DEF IInv
<1> QED
  BY <1>1, Invariance, PTL

(* agreeInvitation and inviteToEnterAffair: so is the role of an agreed    *)
(* invitation, unless a call stops before the member's insert.             *)
THEOREM InvitedEntered == Spec => []InvitedIsMember
<1>1. IInv => InvitedIsMember
  BY DEF IInv
<1> QED
  BY <1>1, Invariance, PTL

(* applyForEnterAffair and inviteOutAllianceRoleToEnterAffair: one open    *)
(* application and one open invitation of a role, unless calls overlap.    *)
THEOREM NobodyWaitsTwice == Spec => []WaitsOnce
<1>1. ASSUME NEW S, \A i, j \in S : i = j PROVE Cardinality(S) = 0 \/ Cardinality(S) = 1
  <2>1. CASE S = {}
    BY <2>1, FS_EmptySet
  <2>2. CASE S # {}
    <3>1. PICK i \in S : TRUE
      BY <2>2
    <3>2. S = {i}
      BY <1>1, <3>1
    <3> QED
      BY <3>2, FS_Singleton
  <2> QED
    BY <2>1, <2>2
<1>2. IInv => WaitsOnce
  <2>1. SUFFICES ASSUME IInv, "overlap" \notin causes, NEW p \in Role
                 PROVE  Cardinality(Open(application[p])) <= 1 /\ Cardinality(Open(invitation[p])) <= 1
    BY DEF WaitsOnce
  <2>2. /\ \A i, j \in Open(application[p]) : i = j
        /\ \A i, j \in Open(invitation[p]) : i = j
    BY <2>1 DEF IInv, OneOpen
  <2>3. /\ Cardinality(Open(application[p])) \in {0, 1}
        /\ Cardinality(Open(invitation[p])) \in {0, 1}
    BY <1>1, <2>2
  <2> QED
    BY <2>3
<1> QED
  BY <1>2, Invariance, PTL

(* agreeAffairMemberApplication, agreeInvitation and the shortcuts: every  *)
(* member that is no director has an agreed row or gets it next, unless    *)
(* calls overlap, one stops halfway or an agreed row is rejected.          *)
THEOREM MembersWereLetIn == Spec => []MemberWasAdmitted
<1>1. IInv => MemberWasAdmitted
  BY DEF IInv
<1> QED
  BY <1>1, Invariance, PTL

(* disableAffair: a role enters a disabled affair only when the affair was *)
(* disabled after the check of the call.                                   *)
THEOREM ValidWhenEntered == Spec => EntersValidOnly
<1>1. IInv /\ [Next]_vars =>
        \A r \in Request : at[r] = "addMember" /\ at'[r] = "addUser" => valid \/ r \in stale
  BY DEF IInv, Checked, CheckedAt
<1>2. IInv /\ [Next]_vars =>
        [\A r \in Request : at[r] = "addMember" /\ at'[r] = "addUser" => valid \/ r \in stale]_vars
  BY <1>1
<1> QED
  BY <1>2, Invariance, PTL DEF Spec, EntersValidOnly

=============================================================================
