----------------------------- MODULE Membership -----------------------------
(***************************************************************************)
(* How roles become members of one affair: the applications and            *)
(* invitations of AffairMemberService, the shortcut for directors of       *)
(* AffairMemberController and AffairUserService.addAffairUser.  No call    *)
(* runs in a transaction: a check and each statement that writes are steps *)
(* of their own, and update() writes back the row the call has loaded.     *)
(* Rows carry only what the checks read and the user an application was    *)
(* made by; a row of affair_member carries no permissions and one of       *)
(* affair_user not the role used last.                                     *)
(***************************************************************************)
EXTENDS Integers, Sequences, FiniteSets

CONSTANTS
    Request,    \* the request threads
    Role,
    User,
    UserOf,     \* the user of each role
    Inside,     \* the roles of the affair's own alliance
    Director,   \* those that own the affair or one above it
    Creator,    \* the role that has created the affair
    Lists,      \* the lists of roles that an invitation may name
    NoRole,
    NoUser

ASSUME RoleAssumption ==
    /\ UserOf \in [Role -> User]
    /\ Creator \in Director /\ Director \subseteq Inside /\ Inside \subseteq Role
    /\ Lists \subseteq SUBSET Role
    /\ NoRole \notin Role /\ NoUser \notin User

(* enums.state.DealState *)
ToCheck == 0
Agree   == 1

Reject  == 2

VARIABLES
    valid,       \* the affair's state is Valid
    members,     \* the number of rows of affair_member of each role
    users,       \* the number of rows of affair_user of each user
    application, \* the states of the applications of each role, oldest first
    applicant,   \* the users who have made them
    invitation,  \* the states of the invitations of each role
    at,          \* the next step of each request
    call,        \* what it adds a member for
    subject,     \* the role it has checked
    user,        \* the user it adds the role for
    item,        \* the row of subject it has loaded, 0 for none
    inside,      \* the roles its loops have still to do
    outside,
    stale,       \* history: requests whose check another one has outdated
    causes       \* history: what has happened that a property may excuse

applications == <<application, applicant>>
rows    == <<valid, members, users, applications, invitation>>
locals  == <<at, call, subject, user, item, inside, outside>>
history == <<stale, causes>>
vars    == <<rows, locals, history>>

Place == {"idle", "apply", "saveApplication", "addMember", "addUser", "insertUser",
          "closeApplication", "reject", "inside", "saveInside", "outside", "saveOutside",
          "closeInvitation", "rejectInvitation"}
Call  == {"none", "director", "application", "inside", "invitation"}
Cause == {"overlap", "failure", "secondEntry", "agreedRejected", "otherUser"}

TypeOK ==
    /\ valid       \in BOOLEAN
    /\ members     \in [Role -> Nat]
    /\ users       \in [User -> Nat]
    /\ application \in [Role -> Seq(0..2)]
    /\ applicant   \in [Role -> Seq(User)]
    /\ invitation  \in [Role -> Seq(0..2)]
    /\ at          \in [Request -> Place]
    /\ call        \in [Request -> Call]
    /\ subject     \in [Request -> Role \cup {NoRole}]
    /\ user        \in [Request -> User \cup {NoUser}]
    /\ item        \in [Request -> Nat]
    /\ inside      \in [Request -> SUBSET Role]
    /\ outside     \in [Request -> SUBSET Role]
    /\ stale       \in SUBSET Request
    /\ causes      \in SUBSET Cause

(* The affair was created with addCreator.                                 *)
Init ==
    /\ valid       = TRUE
    /\ members     = [p \in Role |-> IF p = Creator THEN 1 ELSE 0]
    /\ users       = [u \in User |-> IF u = UserOf[Creator] THEN 1 ELSE 0]
    /\ application = [p \in Role |-> <<>>]
    /\ applicant   = [p \in Role |-> <<>>]
    /\ invitation  = [p \in Role |-> <<>>]
    /\ at          = [r \in Request |-> "idle"]
    /\ call        = [r \in Request |-> "none"]
    /\ subject     = [r \in Request |-> NoRole]
    /\ user        = [r \in Request |-> NoUser]
    /\ item        = [r \in Request |-> 0]
    /\ inside      = [r \in Request |-> {}]
    /\ outside     = [r \in Request |-> {}]
    /\ stale       = {}
    /\ causes      = {}

-----------------------------------------------------------------------------
(* Queries and places.                                                     *)

IsMember(p) == members[p] > 0
Open(states) == {i \in DOMAIN states : states[i] = ToCheck}

(* Wrong variant of CanApply: an open application does not count.          *)
CanApplyAgain(p) == valid /\ ~IsMember(p)

(* canApplyForEnterAffair *)
CanApply(p) == valid /\ ~IsMember(p) /\ Open(application[p]) = {}

(* Wrong variant of CanInvite: any role of a valid affair can be invited.  *)
CanInviteMember(p) == valid

(* canInviteToEnterAffair *)
CanInvite(p) == valid /\ ~IsMember(p)

Goto(r, place) == at' = [at EXCEPT ![r] = place] /\ UNCHANGED <<call, subject, user, item, inside, outside>>

Return(r) ==
    /\ at'      = [at EXCEPT ![r] = "idle"]
    /\ call'    = [call EXCEPT ![r] = "none"]
    /\ subject' = [subject EXCEPT ![r] = NoRole]
    /\ user'    = [user EXCEPT ![r] = NoUser]
    /\ item'    = [item EXCEPT ![r] = 0]
    /\ inside'  = [inside EXCEPT ![r] = {}]
    /\ outside' = [outside EXCEPT ![r] = {}]

(* A check about p, for the user u: what it reads is current.  An agreed   *)
(* application or invitation of a role that is a member already enters it  *)
(* again.                                                                  *)
Checks(r, p, u, i, what, place) ==
    /\ at'      = [at EXCEPT ![r] = place]
    /\ call'    = [call EXCEPT ![r] = what]
    /\ subject' = [subject EXCEPT ![r] = p]
    /\ user'    = [user EXCEPT ![r] = u]
    /\ item'    = [item EXCEPT ![r] = i]
    /\ stale'   = stale \ {r}
    /\ causes'  = IF what \in {"application", "invitation"} /\ IsMember(p)
                  THEN causes \cup {"secondEntry"} ELSE causes

(* A write of r outdates the checks that other requests have made about    *)
(* the same role or user.                                                  *)
Writes(r, more) ==
    /\ causes' = causes \cup more \cup (IF r \in stale THEN {"overlap"} ELSE {})
    /\ stale'  = stale \cup {s \in Request \ {r} :
                     subject[s] # NoRole /\ (subject[s] = subject[r] \/ user[s] = user[r])}

(* The loop of a call has done its role.                                   *)
NextRole(r) ==
    /\ at'      = [at EXCEPT ![r] = "inside"]
    /\ call'    = [call EXCEPT ![r] = "none"]
    /\ subject' = [subject EXCEPT ![r] = NoRole]
    /\ user'    = [user EXCEPT ![r] = NoUser]
    /\ item'    = [item EXCEPT ![r] = 0]
    /\ UNCHANGED <<inside, outside>>

-----------------------------------------------------------------------------
(* Entering: addMember and addAffairUser, then what the caller does next.  *)

(* Where the caller goes on when addAffairUser has returned.               *)
Continue(r) ==
    \/ call[r] = "application" /\ Goto(r, "closeApplication")
    \/ call[r] = "invitation" /\ Goto(r, "closeInvitation")
    \/ call[r] = "inside" /\ NextRole(r)
    \/ call[r] \in {"none", "director"} /\ Return(r)

(* Nothing says that the role belongs to the user it is added for.         *)
Entry(r) == IF user[r] = UserOf[subject[r]] THEN {} ELSE {"otherUser"}

(* Wrong variant of AddMember: the caller forgets the affair_user.         *)
AddMemberOnly(r) ==
    /\ at[r] = "addMember"
    /\ members' = [members EXCEPT ![subject[r]] = @ + 1]
    /\ Continue(r)
    /\ Writes(r, Entry(r))
    /\ UNCHANGED <<valid, users, applications, invitation>>

AddMember(r) ==
    /\ at[r] = "addMember"
    /\ members' = [members EXCEPT ![subject[r]] = @ + 1]
    /\ Goto(r, "addUser")
    /\ Writes(r, Entry(r))
    /\ UNCHANGED <<valid, users, applications, invitation>>

(* Wrong variant of FindUser: it looks for the role's user.                *)
FindUserOfRole(r) ==
    /\ at[r] = "addUser"
    /\ IF users[UserOf[subject[r]]] = 0 THEN Goto(r, "insertUser") ELSE Continue(r)
    /\ UNCHANGED <<rows, history>>

(* addAffairUser looks for the row of the user ...                         *)
FindUser(r) ==
    /\ at[r] = "addUser"
    /\ IF users[user[r]] = 0 THEN Goto(r, "insertUser") ELSE Continue(r)
    /\ UNCHANGED <<rows, history>>

(* ... and inserts it when there was none.                                 *)
InsertUser(r) ==
    /\ at[r] = "insertUser"
    /\ users' = [users EXCEPT ![user[r]] = @ + 1]
    /\ Continue(r)
    /\ Writes(r, {})
    /\ UNCHANGED <<valid, members, applications, invitation>>

-----------------------------------------------------------------------------
(* Applications.                                                           *)

(* apply_for_enter_affair by the user u: a director enters at once.  The   *)
(* role is a parameter of the call.                                        *)
Apply(r, p, u) ==
    /\ at[r] = "idle" /\ CanApply(p)
    /\ IF p \in Director
       THEN Checks(r, p, u, 0, "director", "addMember")
       ELSE Checks(r, p, u, 0, "none", "apply")
    /\ UNCHANGED <<rows, inside, outside>>

(* The service checks again what the controller has checked.               *)
ApplyCheck(r) ==
    /\ at[r] = "apply"
    /\ IF CanApply(subject[r])
       THEN Checks(r, subject[r], user[r], 0, "none", "saveApplication") /\ UNCHANGED <<inside, outside>>
       ELSE Return(r) /\ UNCHANGED history
    /\ UNCHANGED rows

SaveApplication(r) ==
    /\ at[r] = "saveApplication"
    /\ application' = [application EXCEPT ![subject[r]] = Append(@, ToCheck)]
    /\ applicant'   = [applicant EXCEPT ![subject[r]] = Append(@, user[r])]
    /\ Return(r)
    /\ Writes(r, {})
    /\ UNCHANGED <<valid, members, users, invitation>>

AgreeApplication(r, p, i) ==
    /\ at[r] = "idle" /\ i \in Open(application[p]) /\ valid
    /\ Checks(r, p, applicant[p][i], i, "application", "addMember")
    /\ UNCHANGED <<rows, inside, outside>>

(* Wrong variant of CloseApplication: the row is not updated.              *)
CloseApplicationNot(r) ==
    /\ at[r] = "closeApplication"
    /\ Return(r)
    /\ UNCHANGED <<rows, history>>

CloseApplication(r) ==
    /\ at[r] = "closeApplication"
    /\ application' = [application EXCEPT ![subject[r]][item[r]] = Agree]
    /\ Return(r)
    /\ Writes(r, {})
    /\ UNCHANGED <<valid, members, users, applicant, invitation>>

(* rejectAffairMemberApplication asks only that the application exists.    *)
RejectApplication(r, p, i) ==
    /\ at[r] = "idle" /\ i \in DOMAIN application[p]
    /\ Checks(r, p, applicant[p][i], i, "none", "reject")
    /\ UNCHANGED <<rows, inside, outside>>

SaveReject(r) ==
    /\ at[r] = "reject"
    /\ application' = [application EXCEPT ![subject[r]][item[r]] = Reject]
    /\ Return(r)
    /\ Writes(r, IF application[subject[r]][item[r]] = Agree THEN {"agreedRejected"} ELSE {})
    /\ UNCHANGED <<valid, members, users, applicant, invitation>>

-----------------------------------------------------------------------------
(* Invitations: first the roles of the alliance, then those of others.     *)

(* invite_to_enter_affair                                                  *)
Invite(r, insiders, outsiders) ==
    /\ at[r] = "idle" /\ insiders \cup outsiders # {}
    /\ at'      = [at EXCEPT ![r] = "inside"]
    /\ inside'  = [inside EXCEPT ![r] = insiders]
    /\ outside' = [outside EXCEPT ![r] = outsiders]
    /\ UNCHANGED <<rows, call, subject, user, item, history>>

(* The role the loop over roles takes next.                                *)
NextOf(roles) == CHOOSE p \in roles : TRUE

InsideDone(r) ==
    /\ at[r] = "inside" /\ inside[r] = {}
    /\ Goto(r, "outside")
    /\ UNCHANGED <<rows, history>>

(* The call ends at the first role that is not of the alliance or cannot   *)
(* be invited; those before it stay invited.                               *)
InsideCheck(r) ==
    LET p == NextOf(inside[r]) IN
    /\ at[r] = "inside" /\ inside[r] # {}
    /\ IF p \in Inside /\ CanInvite(p)
       THEN /\ Checks(r, p, UserOf[p], 0, "inside", "saveInside")
            /\ inside' = [inside EXCEPT ![r] = @ \ {p}]
            /\ UNCHANGED outside
       ELSE Return(r) /\ UNCHANGED history
    /\ UNCHANGED rows

(* An invitation inside the alliance is agreed from the start.             *)
SaveInside(r) ==
    /\ at[r] = "saveInside"
    /\ invitation' = [invitation EXCEPT ![subject[r]] = Append(@, Agree)]
    /\ Goto(r, "addMember")
    /\ Writes(r, {})
    /\ UNCHANGED <<valid, members, users, applications>>

OutsideDone(r) ==
    /\ at[r] = "outside" /\ outside[r] = {}
    /\ Return(r)
    /\ UNCHANGED <<rows, history>>

(* Wrong variant of Pending: an invitation is never found again.           *)
PendingNever(p) == 0

(* The open invitation of p, 0 when there is none.                         *)
Pending(p) == IF Open(invitation[p]) = {} THEN 0 ELSE CHOOSE i \in Open(invitation[p]) : TRUE

OutsideCheck(r) ==
    LET p == NextOf(outside[r]) IN
    /\ at[r] = "outside" /\ outside[r] # {}
    /\ IF p \notin Inside /\ CanInvite(p)
       THEN /\ Checks(r, p, UserOf[p], Pending(p), "none", "saveOutside")
            /\ outside' = [outside EXCEPT ![r] = @ \ {p}]
            /\ UNCHANGED inside
       ELSE Return(r) /\ UNCHANGED history
    /\ UNCHANGED rows

(* It renews the open invitation with the state it was loaded with, or     *)
(* makes one.                                                              *)
SaveOutside(r) ==
    LET p == subject[r] IN
    /\ at[r] = "saveOutside"
    /\ invitation' = IF item[r] = 0
                     THEN [invitation EXCEPT ![p] = Append(@, ToCheck)]
                     ELSE [invitation EXCEPT ![p][item[r]] = ToCheck]
    /\ at'      = [at EXCEPT ![r] = "outside"]
    /\ subject' = [subject EXCEPT ![r] = NoRole]
    /\ user'    = [user EXCEPT ![r] = NoUser]
    /\ item'    = [item EXCEPT ![r] = 0]
    /\ Writes(r, {})
    /\ UNCHANGED <<valid, members, users, applications, call, inside, outside>>

AgreeInvitation(r, p, i) ==
    /\ at[r] = "idle" /\ i \in Open(invitation[p]) /\ valid
    /\ Checks(r, p, UserOf[p], i, "invitation", "addMember")
    /\ UNCHANGED <<rows, inside, outside>>

(* Wrong variant of CloseInvitation: the row is not updated.               *)
CloseInvitationNot(r) ==
    /\ at[r] = "closeInvitation"
    /\ Return(r)
    /\ UNCHANGED <<rows, history>>

CloseInvitation(r) ==
    /\ at[r] = "closeInvitation"
    /\ invitation' = [invitation EXCEPT ![subject[r]][item[r]] = Agree]
    /\ Return(r)
    /\ Writes(r, {})
    /\ UNCHANGED <<valid, members, users, applications>>

RejectInvitation(r, p, i) ==
    /\ at[r] = "idle" /\ i \in Open(invitation[p])
    /\ Checks(r, p, UserOf[p], i, "none", "rejectInvitation")
    /\ UNCHANGED <<rows, inside, outside>>

SaveRejectInvitation(r) ==
    /\ at[r] = "rejectInvitation"
    /\ invitation' = [invitation EXCEPT ![subject[r]][item[r]] = Reject]
    /\ Return(r)
    /\ Writes(r, {})
    /\ UNCHANGED <<valid, members, users, applications>>

-----------------------------------------------------------------------------
(* Around them.                                                            *)

(* disableAffair and enableAffair outdate every check.                     *)
SetValid ==
    /\ valid' = ~valid
    /\ stale' = stale \cup {r \in Request : subject[r] # NoRole}
    /\ UNCHANGED <<members, users, applications, invitation, locals, causes>>

(* r has written a part of what belongs together.                          *)
Midway(r) == at[r] \in {"addUser", "insertUser", "closeApplication", "closeInvitation"}
             \/ (at[r] = "addMember" /\ call[r] = "inside")

(* A statement throws or the server stops.                                 *)
Fail(r) ==
    /\ at[r] # "idle"
    /\ Return(r)
    /\ stale'  = stale \ {r}
    /\ causes' = IF Midway(r) THEN causes \cup {"failure"} ELSE causes
    /\ UNCHANGED rows

Entering(r) == AddMember(r) \/ FindUser(r) \/ InsertUser(r)

Applying(r) ==
    \/ ApplyCheck(r) \/ SaveApplication(r) \/ CloseApplication(r) \/ SaveReject(r)
    \/ \E p \in Role :
        \/ \E u \in User : Apply(r, p, u)
        \/ \E i \in DOMAIN application[p] : AgreeApplication(r, p, i) \/ RejectApplication(r, p, i)

Inviting(r) ==
    \/ InsideDone(r) \/ InsideCheck(r) \/ SaveInside(r)
    \/ OutsideDone(r) \/ OutsideCheck(r) \/ SaveOutside(r)
    \/ CloseInvitation(r) \/ SaveRejectInvitation(r)
    \/ \E insiders, outsiders \in Lists : Invite(r, insiders, outsiders)
    \/ \E p \in Role : \E i \in DOMAIN invitation[p] : AgreeInvitation(r, p, i) \/ RejectInvitation(r, p, i)

Next ==
    \/ SetValid
    \/ \E r \in Request : Entering(r) \/ Applying(r) \/ Inviting(r) \/ Fail(r)

Spec == Init /\ [][Next]_vars

-----------------------------------------------------------------------------
(* A role enters the affair once, whichever way it is let in: unless two   *)
(* calls about it ran at once, or an application or invitation that had    *)
(* stayed open was agreed when it was a member already.                    *)
MemberOnce ==
    causes \cap {"overlap", "secondEntry"} = {} => \A p \in Role : members[p] <= 1

(* A user has one row of affair_user however many of its roles enter and   *)
(* whatever stops halfway, unless two calls about the user ran at once.    *)
UserOnce == "overlap" \notin causes => \A u \in User : users[u] <= 1

(* The user of a member has a row of affair_user, or is about to get one,  *)
(* unless a call stopped between the two inserts, or another user entered  *)
(* the affair in its role.                                                 *)
MemberHasUser ==
    causes \cap {"failure", "otherUser"} = {} =>
        \A p \in Role : IsMember(p) /\ users[UserOf[p]] = 0 =>
            \E r \in Request : at[r] \in {"addUser", "insertUser"} /\ user[r] = UserOf[p]

(* The role of an agreed application is a member and the user who made it, *)
(* whose role it need not be, has a row of affair_user; whatever fails.    *)
AgreedHasEntered ==
    \A p \in Role : \A i \in DOMAIN application[p] :
        application[p][i] = Agree => IsMember(p) /\ users[applicant[p][i]] > 0

(* So is one that was invited, although an invitation inside the alliance  *)
(* is saved as agreed first: unless the call stopped before the member.    *)
InvitedIsMember ==
    "failure" \notin causes =>
        \A p \in Role : Agree \in {invitation[p][i] : i \in DOMAIN invitation[p]} /\ ~IsMember(p) =>
            \E r \in Request : at[r] = "addMember" /\ call[r] = "inside" /\ subject[r] = p

(* Nobody waits twice: at most one open application per role, and at most  *)
(* one open invitation because inviting again renews the open one.         *)
WaitsOnce ==
    "overlap" \notin causes =>
        \A p \in Role : Cardinality(Open(application[p])) <= 1 /\ Cardinality(Open(invitation[p])) <= 1

(* A member that is no director was let in: one of its applications or     *)
(* invitations is agreed, or the call that lets it in is about to say so;  *)
(* unless an application was rejected after it had been agreed.            *)
MemberWasAdmitted ==
    causes \cap {"overlap", "failure", "agreedRejected"} = {} =>
        \A p \in Role \ Director : IsMember(p) =>
            \/ \E i \in DOMAIN application[p] : application[p][i] = Agree
            \/ \E i \in DOMAIN invitation[p] : invitation[p][i] = Agree
            \/ \E r \in Request : subject[r] = p /\ Midway(r)

(* Nobody enters an affair that is disabled, unless it was disabled after  *)
(* the call's check.                                                       *)
EntersValidOnly ==
    [][\A r \in Request : at[r] = "addMember" /\ at'[r] = "addUser" => valid \/ r \in stale]_vars

(* A request past its check knows its role and user, past the member's     *)
(* insert the role is a member, and each application has its applicant.    *)
PlacedAt(r) ==
    /\ at[r] \notin {"idle", "inside", "outside"} => subject[r] \in Role /\ user[r] \in User
    /\ at[r] = "saveInside" => call[r] = "inside"
    /\ at[r] \in {"addUser", "insertUser", "closeApplication", "closeInvitation"} => IsMember(subject[r])
    /\ at[r] = "closeApplication" => users[user[r]] > 0
Paired == \A p \in Role : Len(applicant[p]) = Len(application[p])
Placed == Paired /\ \A r \in Request : PlacedAt(r)

(* What a request has checked still holds when it writes, unless another   *)
(* request has marked it stale.                                            *)
CheckedAt(r) ==
    /\ at[r] \in {"addMember", "saveInside"} => valid
    /\ at[r] = "saveInside" => ~IsMember(subject[r])
    /\ at[r] = "addMember" /\ IsMember(subject[r]) => "secondEntry" \in causes
    /\ at[r] = "insertUser" => users[user[r]] = 0
Checked == \A r \in Request \ stale : CheckedAt(r)

(* What a request adds a member for: a director, or a row that it has.     *)
Adding == {"addMember", "addUser", "insertUser"}
PurposeAt(r) ==
    /\ at[r] \in Adding => call[r] # "none"
    /\ at[r] \in Adding /\ call[r] = "director" => subject[r] \in Director
    /\ at[r] = "closeApplication" => call[r] = "application"
    /\ at[r] = "closeInvitation" => call[r] = "invitation"
    /\ at[r] \in Adding \cup {"closeApplication"} /\ call[r] = "application" =>
           item[r] \in DOMAIN application[subject[r]] /\ user[r] = applicant[subject[r]][item[r]]
    /\ at[r] \in Adding \cup {"closeInvitation"} /\ call[r] = "invitation" =>
           item[r] \in DOMAIN invitation[subject[r]]
Purpose == \A r \in Request : PurposeAt(r)

(* What a request has read of the open rows still holds when it writes,    *)
(* unless another request has marked it stale.                             *)
KnowsAt(r) ==
    /\ at[r] = "saveApplication" => Open(application[subject[r]]) = {}
    /\ at[r] = "saveOutside" /\ item[r] = 0 => Open(invitation[subject[r]]) = {}
    /\ at[r] = "saveOutside" /\ item[r] # 0 => item[r] \in Open(invitation[subject[r]])
    /\ at[r] = "rejectInvitation" => item[r] \in Open(invitation[subject[r]])
Knows == \A r \in Request \ stale : KnowsAt(r)

(* WaitsOnce without counting.                                             *)
OneOpen ==
    "overlap" \notin causes =>
        \A p \in Role : /\ \A i, j \in Open(application[p]) : i = j
                        /\ \A i, j \in Open(invitation[p]) : i = j

(* A call that adds a member inside the alliance has saved its invitation. *)
HasAgreed(states) == \E i \in DOMAIN states : states[i] = Agree
InsideAgreed ==
    causes \cap {"overlap", "failure", "agreedRejected"} = {} =>
        \A r \in Request : at[r] \in Adding /\ call[r] = "inside" => HasAgreed(invitation[subject[r]])

(* The invariant that its own steps keep: where each request is and what   *)
(* it knows, and what the rows say.                                        *)
IInv ==
    /\ TypeOK /\ Placed /\ Checked /\ Purpose /\ Knows
    /\ MemberOnce /\ UserOnce /\ MemberHasUser /\ AgreedHasEntered /\ InvitedIsMember
    /\ OneOpen /\ InsideAgreed /\ MemberWasAdmitted
=============================================================================
