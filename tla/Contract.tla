------------------------------ MODULE Contract ------------------------------
(***************************************************************************)
(* One contract and its rows of contract_role: ContractService from        *)
(* addContract to the end of the contract.  None of its calls runs in a    *)
(* transaction and update() writes back the whole row that the call has    *)
(* loaded, so the calls are split at each statement that writes and at the *)
(* loads of the two tables.  Additions have flags of their own in the role *)
(* rows; here addAddition only writes the role rows back.  Loops over the  *)
(* rows of a list take them in one fixed order.                            *)
(***************************************************************************)
EXTENDS Integers, FiniteSets

CONSTANTS
    Request,    \* the request threads
    Role,       \* the roles that may act on the contract
    Creator,    \* the role that calls addContract
    Alliance,
    AllianceOf, \* the alliance of each role
    Content,    \* the texts of the contract
    Blank,      \* the text of a new contract
    NoRow,      \* no row of this role, a contract that was never saved
    Deleted     \* a contract whose row was deleted

ASSUME RoleAssumption ==
    /\ Creator \in Role /\ IsFiniteSet(Role)
    /\ AllianceOf \in [Role -> Alliance]
    /\ Blank \in Content

(* enums.state.ContractState *)
Invalid      == 0
Starting     == 1
NotConfirmed == 2
Valid        == 3
Terminating  == 4

ContractRow == [state : 0..4, content : Content, isBlock : 0..1]
RoleRow     == [confirmed : 0..1, signature : 0..1, terminate : 0..2]

ASSUME NoRowAssumption ==
    NoRow \notin ContractRow \cup RoleRow \cup Content /\ Deleted \notin ContractRow \cup {NoRow}

VARIABLES
    contract,   \* the row of the table contract
    roleRow,    \* the rows of the table contract_role
    at,         \* the next step of each request
    operator,   \* operationRoleId of each request
    other,      \* the second role of addRole and removeRole
    seen,       \* the contract row each request has loaded
    seenRows,   \* the role rows each request has loaded
    todo,       \* the rows its loop has still to do
    signed,     \* history: the text each role has put its signature under
    agreed,     \* history: the roles that agreed to the last termination
    stale,      \* history: requests whose loaded rows another one has overwritten
    wrote,      \* history: requests in progress that have written
    causes      \* history: what has happened that a property may excuse

rows    == <<contract, roleRow>>
locals  == <<at, operator, other, seen, seenRows, todo>>
marks   == <<signed, agreed>>
history == <<stale, wrote, causes>>
vars    == <<rows, locals, marks, history>>

Place == {"idle", "insertRole", "insertRoles",
          "confirm", "confirmRow", "start", "refuse", "deleteContract", "deleteRows",
          "sign", "signRow", "block", "signSum", "validate",
          "undo", "undoRow", "undoSum", "unblock",
          "terminate", "terminateContract", "terminateRows",
          "agree", "agreeRow", "agreeSum", "end",
          "refuseTerminate", "refuseTerminateRow", "resume",
          "edit", "insert", "remove", "addition"}
Cause == {"overlap", "failure", "edited", "removed", "undone", "late role"}

TypeOK ==
    /\ contract \in ContractRow \cup {NoRow, Deleted}
    /\ roleRow  \in [Role -> RoleRow \cup {NoRow}]
    /\ at       \in [Request -> Place]
    /\ operator \in [Request -> Role \cup {NoRow}]
    /\ other    \in [Request -> Role \cup {NoRow}]
    /\ seen     \in [Request -> ContractRow \cup {NoRow}]
    /\ seenRows \in [Request -> [Role -> RoleRow \cup {NoRow}]]
    /\ todo     \in [Request -> SUBSET Role]
    /\ signed   \in [Role -> Content \cup {NoRow}]
    /\ agreed   \in SUBSET Role
    /\ stale    \in SUBSET Request
    /\ wrote    \in SUBSET Request
    /\ causes   \in SUBSET Cause

NoRows == [p \in Role |-> NoRow]

Init ==
    /\ contract = NoRow
    /\ roleRow  = NoRows
    /\ at       = [r \in Request |-> "idle"]
    /\ operator = [r \in Request |-> NoRow]
    /\ other    = [r \in Request |-> NoRow]
    /\ seen     = [r \in Request |-> NoRow]
    /\ seenRows = [r \in Request |-> NoRows]
    /\ todo     = [r \in Request |-> {}]
    /\ signed   = NoRows
    /\ agreed   = {}
    /\ stale    = {}
    /\ wrote    = {}
    /\ causes   = {}

-----------------------------------------------------------------------------
(* Statements and places.                                                  *)

Members == {p \in Role : roleRow[p] # NoRow}
RowsOf(alliance) == {p \in Members : AllianceOf[p] = alliance}
Alliances == {AllianceOf[p] : p \in Members}

(* SELECT sum(column) ... GROUP BY alliance_id                             *)
SignedOf(alliance) == Cardinality({p \in RowsOf(alliance) : roleRow[p].signature = 1})
TerminateOf(alliance) ==
    Cardinality({p \in RowsOf(alliance) : roleRow[p].terminate = 1})
    + 2 * Cardinality({p \in RowsOf(alliance) : roleRow[p].terminate = 2})

Goto(r, place) == at' = [at EXCEPT ![r] = place] /\ UNCHANGED <<operator, other, seen, seenRows, todo>>

(* The call returns and drops its variables.                               *)
Return(r) ==
    /\ at'       = [at EXCEPT ![r] = "idle"]
    /\ operator' = [operator EXCEPT ![r] = NoRow]
    /\ other'    = [other EXCEPT ![r] = NoRow]
    /\ seen'     = [seen EXCEPT ![r] = NoRow]
    /\ seenRows' = [seenRows EXCEPT ![r] = NoRows]
    /\ todo'     = [todo EXCEPT ![r] = {}]

(* A load sees what a call in progress has written so far.                 *)
Loads(r) ==
    /\ causes' = IF wrote \ {r} # {} THEN causes \cup {"overlap"} ELSE causes
    /\ UNCHANGED <<stale, wrote>>

(* A write makes the rows that other calls have loaded out of date; written *)
(* by a call whose own rows are, it undoes or ignores another write.       *)
Writes(r, more, last) ==
    /\ causes' = causes \cup more \cup (IF r \in stale THEN {"overlap"} ELSE {})
    /\ stale'  = (stale \cup {s \in Request \ {r} : at[s] # "idle"}) \ (IF last THEN {r} ELSE {})
    /\ wrote'  = IF last THEN wrote \ {r} ELSE wrote \cup {r}

(* The call goes on to a read, or returns, without a write.                *)
NoWrite(r, last) ==
    /\ stale' = IF last THEN stale \ {r} ELSE stale
    /\ wrote' = IF last THEN wrote \ {r} ELSE wrote
    /\ UNCHANGED causes

(* contract.update(): the whole row, when it is still there.               *)
UpdateContract(row) == contract' = IF contract \in {NoRow, Deleted} THEN contract ELSE row

(* contractRole.update()                                                   *)
UpdateRole(p, row) ==
    roleRow' = IF roleRow[p] = NoRow THEN roleRow ELSE [roleRow EXCEPT ![p] = row]

(* A call that begins with ContractEntity.dao.findById; it fails with a    *)
(* NullPointerException when there is no such contract.                    *)
Begin(r, p, place) ==
    /\ at[r] = "idle" /\ contract \notin {NoRow, Deleted}
    /\ at'       = [at EXCEPT ![r] = place]
    /\ operator' = [operator EXCEPT ![r] = p]
    /\ seen'     = [seen EXCEPT ![r] = contract]
    /\ Loads(r)
    /\ UNCHANGED <<rows, other, seenRows, todo, marks>>

(* It loads role rows, checks and goes on to place or returns.             *)
Check(r, here, needed, loaded, place) ==
    /\ at[r] = here
    /\ IF needed
       THEN /\ at' = [at EXCEPT ![r] = place]
            /\ seenRows' = [seenRows EXCEPT ![r] = loaded]
            /\ todo' = [todo EXCEPT ![r] = {p \in Role : loaded[p] # NoRow}]
            /\ Loads(r)
            /\ UNCHANGED <<operator, other, seen>>
       ELSE Return(r) /\ NoWrite(r, TRUE)
    /\ UNCHANGED <<rows, marks>>

Own(r) == [NoRows EXCEPT ![operator[r]] = roleRow[operator[r]]]

(* The operator's own row, as the call has loaded it.                      *)
OwnRow(r) == seenRows[r][operator[r]]

(* The row the loop of r takes next.                                       *)
NextOf(r) == CHOOSE p \in todo[r] : TRUE

-----------------------------------------------------------------------------
(* addContract: the contract, the row of the creator, one row per role.    *)

NewRow(confirmed) == [confirmed |-> confirmed, signature |-> 0, terminate |-> 0]

AddContract(r, roles) ==
    /\ at[r] = "idle" /\ contract = NoRow
    /\ roles # {} /\ Creator \notin roles
    /\ contract' = [state |-> Starting, content |-> Blank, isBlock |-> 0]
    /\ at' = [at EXCEPT ![r] = "insertRole"]
    /\ todo' = [todo EXCEPT ![r] = roles]
    /\ Writes(r, {}, FALSE)
    /\ UNCHANGED <<roleRow, operator, other, seen, seenRows, marks>>

InsertCreator(r) ==
    /\ at[r] = "insertRole"
    /\ roleRow' = [roleRow EXCEPT ![Creator] = NewRow(1)]
    /\ Goto(r, "insertRoles")
    /\ Writes(r, {}, FALSE)
    /\ UNCHANGED <<contract, marks>>

InsertMember(r) ==
    LET p == NextOf(r) IN
    /\ at[r] = "insertRoles"
    /\ roleRow' = [roleRow EXCEPT ![p] = NewRow(0)]
    /\ IF todo[r] = {p}
       THEN Return(r) /\ Writes(r, {}, TRUE)
       ELSE /\ todo' = [todo EXCEPT ![r] = @ \ {p}]
            /\ Writes(r, {}, FALSE)
            /\ UNCHANGED <<at, operator, other, seen, seenRows>>
    /\ UNCHANGED <<contract, marks>>

-----------------------------------------------------------------------------
(* confirm and refuseConfirm.                                              *)

ConfirmCheck(r) ==
    Check(r, "confirm", operator[r] \in Members /\ roleRow[operator[r]].confirmed = 0,
          roleRow, "confirmRow")

(* Wrong variant of IsStart: the first confirmation starts the contract.   *)
IsStartAtOnce(r) == TRUE

(* All the others had confirmed when the list was read.                    *)
IsStart(r) ==
    \A p \in Role \ {operator[r]} : seenRows[r][p] # NoRow => seenRows[r][p].confirmed # 0

(* Wrong variant of ConfirmRow: the last confirmation is never noticed.    *)
ConfirmRowOnly(r) ==
    /\ at[r] = "confirmRow"
    /\ UpdateRole(operator[r], [OwnRow(r) EXCEPT !.confirmed = 1])
    /\ Return(r) /\ Writes(r, {}, TRUE)
    /\ UNCHANGED <<contract, marks>>

ConfirmRow(r) ==
    /\ at[r] = "confirmRow"
    /\ UpdateRole(operator[r], [OwnRow(r) EXCEPT !.confirmed = 1])
    /\ IF IsStart(r)
       THEN Goto(r, "start") /\ Writes(r, {}, FALSE)
       ELSE Return(r) /\ Writes(r, {}, TRUE)
    /\ UNCHANGED <<contract, marks>>

Start(r) ==
    /\ at[r] = "start"
    /\ UpdateContract([seen[r] EXCEPT !.state = NotConfirmed])
    /\ Return(r) /\ Writes(r, {}, TRUE)
    /\ UNCHANGED <<roleRow, marks>>

(* Wrong variant of RefuseCheck: a role that has confirmed may refuse.     *)
RefuseCheckAny(r) ==
    Check(r, "refuse", operator[r] \in Members, roleRow, "deleteContract")

RefuseCheck(r) ==
    Check(r, "refuse", operator[r] \in Members /\ roleRow[operator[r]].confirmed = 0,
          roleRow, "deleteContract")

DeleteContract(r) ==
    /\ at[r] = "deleteContract"
    /\ contract' = Deleted
    /\ Goto(r, "deleteRows")
    /\ Writes(r, {}, FALSE)
    /\ UNCHANGED <<roleRow, marks>>

DeleteRow(r) ==
    LET p == NextOf(r) IN
    /\ at[r] = "deleteRows"
    /\ roleRow' = [roleRow EXCEPT ![p] = NoRow]
    /\ IF todo[r] = {p}
       THEN Return(r) /\ Writes(r, {}, TRUE)
       ELSE /\ todo' = [todo EXCEPT ![r] = @ \ {p}]
            /\ Writes(r, {}, FALSE)
            /\ UNCHANGED <<at, operator, other, seen, seenRows>>
    /\ UNCHANGED <<contract, marks>>

-----------------------------------------------------------------------------
(* sign and undoSign.                                                      *)

SignCheck(r) ==
    Check(r, "sign", /\ seen[r].state = NotConfirmed
                     /\ operator[r] \in Members /\ roleRow[operator[r]].signature = 0,
          Own(r), "signRow")

SignRow(r) ==
    /\ at[r] = "signRow"
    /\ UpdateRole(operator[r], [OwnRow(r) EXCEPT !.signature = 1])
    /\ signed' = [signed EXCEPT ![operator[r]] = seen[r].content]
    /\ Goto(r, "block")
    /\ Writes(r, {}, FALSE)
    /\ UNCHANGED <<contract, agreed>>

(* isBlock is set, in the row loaded at first: state and content go back.  *)
Block(r) ==
    /\ at[r] = "block"
    /\ UpdateContract([seen[r] EXCEPT !.isBlock = 1])
    /\ Goto(r, "signSum")
    /\ Writes(r, {}, FALSE)
    /\ UNCHANGED <<roleRow, marks>>

(* Wrong variant of IsAllSign: one alliance is enough.                     *)
IsOneSign == \E a \in Alliances : SignedOf(a) >= 1

IsAllSign == \A a \in Alliances : SignedOf(a) >= 1

SignSum(r) ==
    /\ at[r] = "signSum"
    /\ IF IsAllSign
       THEN Goto(r, "validate") /\ NoWrite(r, FALSE)
       ELSE Return(r) /\ NoWrite(r, TRUE)
    /\ UNCHANGED <<rows, marks>>

Validate(r) ==
    /\ at[r] = "validate"
    /\ UpdateContract([seen[r] EXCEPT !.isBlock = 1, !.state = Valid])
    /\ Return(r) /\ Writes(r, {}, TRUE)
    /\ UNCHANGED <<roleRow, marks>>

UndoCheck(r) ==
    Check(r, "undo", /\ seen[r].state # Valid
                     /\ operator[r] \in Members /\ roleRow[operator[r]].signature = 1,
          Own(r), "undoRow")

UndoRow(r) ==
    /\ at[r] = "undoRow"
    /\ UpdateRole(operator[r], [OwnRow(r) EXCEPT !.signature = 0])
    /\ signed' = [signed EXCEPT ![operator[r]] = NoRow]
    /\ Goto(r, "undoSum")
    /\ Writes(r, IF seen[r].state \in {Terminating, Invalid} THEN {"undone"} ELSE {}, FALSE)
    /\ UNCHANGED <<contract, agreed>>

(* Without rows the sum is null and its cast to int throws.                *)
UndoSum(r) ==
    /\ at[r] = "undoSum"
    /\ IF Members # {} /\ \A p \in Members : roleRow[p].signature = 0
       THEN Goto(r, "unblock") /\ NoWrite(r, FALSE)
       ELSE Return(r) /\ NoWrite(r, TRUE)
    /\ UNCHANGED <<rows, marks>>

Unblock(r) ==
    /\ at[r] = "unblock"
    /\ UpdateContract([seen[r] EXCEPT !.isBlock = 0])
    /\ Return(r) /\ Writes(r, {}, TRUE)
    /\ UNCHANGED <<roleRow, marks>>

-----------------------------------------------------------------------------
(* terminate, agreeTerminate and refuseTerminate.  The operator of         *)
(* terminate need not be a role of the contract.                           *)

TerminateCheck(r) ==
    Check(r, "terminate", seen[r].state = Valid, roleRow, "terminateContract")

TerminateContract(r) ==
    /\ at[r] = "terminateContract"
    /\ UpdateContract([seen[r] EXCEPT !.state = Terminating])
    /\ agreed' = {operator[r]}
    /\ IF todo[r] = {} THEN Return(r) /\ Writes(r, {}, TRUE)
       ELSE Goto(r, "terminateRows") /\ Writes(r, {}, FALSE)
    /\ UNCHANGED <<roleRow, signed>>

(* Wrong variant of Asked: answers to an earlier termination are kept.     *)
AskedAgain(r, p) ==
    [seenRows[r][p] EXCEPT !.terminate = IF p = operator[r] THEN 1 ELSE @]

Asked(r, p) ==
    [seenRows[r][p] EXCEPT !.terminate = IF p = operator[r] THEN 1 ELSE 0]

TerminateRow(r) ==
    LET p == NextOf(r) IN
    /\ at[r] = "terminateRows"
    /\ UpdateRole(p, Asked(r, p))
    /\ IF todo[r] = {p}
       THEN Return(r) /\ Writes(r, {}, TRUE)
       ELSE /\ todo' = [todo EXCEPT ![r] = @ \ {p}]
            /\ Writes(r, {}, FALSE)
            /\ UNCHANGED <<at, operator, other, seen, seenRows>>
    /\ UNCHANGED <<contract, marks>>

AnswerCheck(r, here, place) ==
    Check(r, here, /\ seen[r].state = Terminating
                   /\ operator[r] \in Members /\ roleRow[operator[r]].terminate = 0,
          Own(r), place)

AgreeRow(r) ==
    /\ at[r] = "agreeRow"
    /\ UpdateRole(operator[r], [OwnRow(r) EXCEPT !.terminate = 1])
    /\ agreed' = agreed \cup {operator[r]}
    /\ Goto(r, "agreeSum")
    /\ Writes(r, {}, FALSE)
    /\ UNCHANGED <<contract, signed>>

(* The sum of every alliance is one: exactly one of its roles has agreed.  *)
IsAllTerminated == \A a \in Alliances : TerminateOf(a) = 1

AgreeSum(r) ==
    /\ at[r] = "agreeSum"
    /\ IF IsAllTerminated
       THEN Goto(r, "end") /\ NoWrite(r, FALSE)
       ELSE Return(r) /\ NoWrite(r, TRUE)
    /\ UNCHANGED <<rows, marks>>

End(r) ==
    /\ at[r] = "end"
    /\ UpdateContract([seen[r] EXCEPT !.state = Invalid])
    /\ Return(r) /\ Writes(r, {}, TRUE)
    /\ UNCHANGED <<roleRow, marks>>

RefuseTerminateRow(r) ==
    /\ at[r] = "refuseTerminateRow"
    /\ UpdateRole(operator[r], [OwnRow(r) EXCEPT !.terminate = 2])
    /\ Goto(r, "resume")
    /\ Writes(r, {}, FALSE)
    /\ UNCHANGED <<contract, marks>>

Resume(r) ==
    /\ at[r] = "resume"
    /\ UpdateContract([seen[r] EXCEPT !.state = Valid])
    /\ Return(r) /\ Writes(r, {}, TRUE)
    /\ agreed' = {}
    /\ UNCHANGED <<roleRow, signed>>

-----------------------------------------------------------------------------
(* editContract, addRole, removeRole and addAddition.                      *)

(* editContract checks nothing but the contract's existence.               *)
Edit(r, text) ==
    /\ at[r] = "edit"
    /\ UpdateContract([seen[r] EXCEPT !.content = text, !.state = NotConfirmed])
    /\ Return(r)
    /\ Writes(r, IF \/ seen[r].state # NotConfirmed
                    \/ \E p \in Members : roleRow[p].signature = 1
                 THEN {"edited"} ELSE {}, TRUE)
    /\ UNCHANGED <<roleRow, marks>>

(* The operator's row gives the new one its alliance.  A role that is in   *)
(* the contract already would get a second row; that is left out.          *)
BeginAddRole(r, p, new) ==
    /\ at[r] = "idle" /\ contract # NoRow
    /\ p \in Members /\ new \notin Members /\ AllianceOf[new] = AllianceOf[p]
    /\ at'       = [at EXCEPT ![r] = "insert"]
    /\ operator' = [operator EXCEPT ![r] = p]
    /\ other'    = [other EXCEPT ![r] = new]
    /\ Loads(r)
    /\ UNCHANGED <<rows, seen, seenRows, todo, marks>>

AddRole(r) ==
    /\ at[r] = "insert" /\ other[r] \notin Members
    /\ roleRow' = [roleRow EXCEPT ![other[r]] = NewRow(0)]
    /\ signed' = [signed EXCEPT ![other[r]] = NoRow]
    /\ Return(r)
    /\ Writes(r, IF contract \in ContractRow /\ contract.state = Starting THEN {}
                 ELSE {"late role"}, TRUE)
    /\ UNCHANGED <<contract, agreed>>

BeginRemoveRole(r, p, removed) ==
    /\ at[r] = "idle" /\ contract # NoRow
    /\ p \in Members /\ removed \in Members /\ AllianceOf[p] = AllianceOf[removed]
    /\ at'       = [at EXCEPT ![r] = "remove"]
    /\ operator' = [operator EXCEPT ![r] = p]
    /\ other'    = [other EXCEPT ![r] = removed]
    /\ Loads(r)
    /\ UNCHANGED <<rows, seen, seenRows, todo, marks>>

RemoveRole(r) ==
    /\ at[r] = "remove"
    /\ roleRow' = [roleRow EXCEPT ![other[r]] = NoRow]
    /\ Return(r)
    /\ Writes(r, IF /\ other[r] \in Members
                    /\ \/ roleRow[other[r]].confirmed = 0
                       \/ roleRow[other[r]].signature = 1
                       \/ roleRow[other[r]].terminate = 1
                 THEN {"removed"} ELSE {}, TRUE)
    /\ signed' = [signed EXCEPT ![other[r]] = NoRow]
    /\ agreed' = agreed \ {other[r]}
    /\ UNCHANGED contract

(* addAddition resets one flag of every role and writes the rows back.     *)
BeginAddition(r) ==
    /\ at[r] = "idle" /\ Members # {}
    /\ at'       = [at EXCEPT ![r] = "addition"]
    /\ seenRows' = [seenRows EXCEPT ![r] = roleRow]
    /\ todo'     = [todo EXCEPT ![r] = Members]
    /\ Loads(r)
    /\ UNCHANGED <<rows, operator, other, seen, marks>>

AdditionRow(r) ==
    LET p == NextOf(r) IN
    /\ at[r] = "addition"
    /\ UpdateRole(p, seenRows[r][p])
    /\ IF todo[r] = {p}
       THEN Return(r) /\ Writes(r, {}, TRUE)
       ELSE /\ todo' = [todo EXCEPT ![r] = @ \ {p}]
            /\ Writes(r, {}, FALSE)
            /\ UNCHANGED <<at, operator, other, seen, seenRows>>
    /\ UNCHANGED <<contract, marks>>

(* A statement throws: what the call has written stays.                    *)
CallThrows(r) ==
    /\ at[r] # "idle"
    /\ Return(r)
    /\ causes' = IF r \in wrote THEN causes \cup {"failure"} ELSE causes
    /\ stale'  = stale \ {r}
    /\ wrote'  = wrote \ {r}
    /\ UNCHANGED <<rows, marks>>

-----------------------------------------------------------------------------
Joining(r) ==
    \/ \E roles \in SUBSET Role : AddContract(r, roles)
    \/ InsertCreator(r)
    \/ InsertMember(r)
    \/ \E p \in Role : Begin(r, p, "confirm")
    \/ ConfirmCheck(r)
    \/ ConfirmRow(r)
    \/ Start(r)
    \/ \E p \in Role : Begin(r, p, "refuse")
    \/ RefuseCheck(r)
    \/ DeleteContract(r)
    \/ DeleteRow(r)

Signing(r) ==
    \/ \E p \in Role : Begin(r, p, "sign")
    \/ SignCheck(r)
    \/ SignRow(r)
    \/ Block(r)
    \/ SignSum(r)
    \/ Validate(r)
    \/ \E p \in Role : Begin(r, p, "undo")
    \/ UndoCheck(r)
    \/ UndoRow(r)
    \/ UndoSum(r)
    \/ Unblock(r)

Ending(r) ==
    \/ \E p \in Role : Begin(r, p, "terminate")
    \/ TerminateCheck(r)
    \/ TerminateContract(r)
    \/ TerminateRow(r)
    \/ \E p \in Role : Begin(r, p, "agree")
    \/ AnswerCheck(r, "agree", "agreeRow")
    \/ AgreeRow(r)
    \/ AgreeSum(r)
    \/ End(r)
    \/ \E p \in Role : Begin(r, p, "refuseTerminate")
    \/ AnswerCheck(r, "refuseTerminate", "refuseTerminateRow")
    \/ RefuseTerminateRow(r)
    \/ Resume(r)

Changing(r) ==
    \/ \E p \in Role : Begin(r, p, "edit")
    \/ \E text \in Content : Edit(r, text)
    \/ \E p, new \in Role : BeginAddRole(r, p, new)
    \/ AddRole(r)
    \/ \E p, removed \in Role : BeginRemoveRole(r, p, removed)
    \/ RemoveRole(r)
    \/ BeginAddition(r)
    \/ AdditionRow(r)

Next == \E r \in Request :
    Joining(r) \/ Signing(r) \/ Ending(r) \/ Changing(r) \/ CallThrows(r)

Spec == Init /\ [][Next]_vars

-----------------------------------------------------------------------------
(* Properties.  Each names the causes that may break it; whatever else     *)
(* happens, in whatever order, does not.                                   *)

InState(states) == contract \in ContractRow /\ contract.state \in states

Quiet == \A r \in Request : at[r] = "idle"

(* A contract in force carries a signature of every alliance under its     *)
(* present text, and keeps it through a termination, unless calls overlap  *)
(* or fail, the text is edited after a signature, a role that counts is    *)
(* removed, or a signature is undone in a termination.                     *)
ValidIsSigned ==
    causes \subseteq {"late role"} /\ InState({Valid, Terminating, Invalid}) =>
        \A a \in Alliances : \E p \in RowsOf(a) :
            roleRow[p].signature = 1 /\ signed[p] = contract.content

(* A contract ends only when every alliance agreed to this termination; an *)
(* answer to an earlier one does not count.                                *)
EndedIsAgreed ==
    causes \subseteq {"late role", "edited", "undone"} /\ InState({Invalid}) =>
        \A a \in Alliances : RowsOf(a) \cap agreed # {}

(* Past Starting every role has confirmed, unless calls overlap, the       *)
(* contract is edited, or a role is added later.                           *)
StartedIsConfirmed ==
    causes \subseteq {"failure", "removed", "undone"}
    /\ InState({NotConfirmed, Valid, Terminating, Invalid}) =>
        \A p \in Members : roleRow[p].confirmed = 1

(* Between calls the contract says what its rows say, unless calls overlap *)
(* or fail or a role that counts is removed: one still at Starting has     *)
(* somebody to wait for, and it is blocked for editing exactly when        *)
(* somebody has signed.                                                    *)
ContractSumsUp ==
    causes \subseteq {"late role", "edited", "undone"} /\ Quiet =>
        /\ InState({Starting}) => \E p \in Members : roleRow[p].confirmed = 0
        /\ contract \in ContractRow =>
             (contract.isBlock = 1 <=> \E p \in Members : roleRow[p].signature = 1)

(* A refused invitation deletes no contract in force, unless a role was    *)
(* added or an edit came before the confirmations.                         *)
InForceIsKept ==
    [][ InState({Valid, Terminating, Invalid}) /\ contract' = Deleted
            => causes' \cap {"overlap", "failure", "edited", "late role"} # {} ]_vars

=============================================================================
