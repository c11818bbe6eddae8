-------------------------- MODULE ContractProofs ---------------------------
(***************************************************************************)
(* What the contract promises, for any requests, roles, alliances and      *)
(* texts: a contract in force is signed under its text, one past Starting  *)
(* is confirmed, one that has ended was agreed to, and none in force is    *)
(* deleted.                                                                *)
(***************************************************************************)
EXTENDS Contract, FiniteSetTheorems, TLAPS

Past == {NotConfirmed, Valid, Terminating, Invalid}
InForce == {Valid, Terminating, Invalid}

(* Before addContract nothing runs and there are no rows.                  *)
Unborn ==
    contract = NoRow =>
        /\ Members = {} /\ wrote = {}
        /\ \A r \in Request : at[r] = "idle"

(* Unless calls overlapped, whoever runs beside a call that has written    *)
(* has loaded rows that this one has overwritten.                          *)
OneWriter ==
    /\ \A r \in Request : at[r] = "terminateRows" => r \in wrote
    /\ "overlap" \notin causes =>
         \A s \in wrote : \A r \in Request \ {s} : at[r] # "idle" => r \in stale

(* The places of a call that has loaded the contract and not changed its   *)
(* state.                                                                  *)
Loaded == {"confirm", "confirmRow", "start", "refuse", "deleteContract",
           "sign", "signRow", "block", "signSum", "validate",
           "undo", "undoRow", "undoSum", "unblock",
           "terminate", "terminateContract", "agree", "agreeRow", "agreeSum", "end",
           "refuseTerminate", "refuseTerminateRow", "resume", "edit"}

(* What a call has checked when it loaded the contract.                    *)
StateSeen(r) ==
    /\ at[r] \in Loaded => seen[r] \in ContractRow
    /\ at[r] \in {"signRow", "block", "signSum", "validate"} => seen[r].state = NotConfirmed
    /\ at[r] \in {"undoRow", "undoSum", "unblock"} => seen[r].state # Valid
    /\ at[r] = "terminateContract" => seen[r].state = Valid
    /\ at[r] \in {"agreeRow", "agreeSum", "end", "refuseTerminateRow", "resume"} =>
         seen[r].state = Terminating
    /\ at[r] \notin {"idle", "insertRole", "insertRoles", "addition"} => operator[r] \in Role
    /\ at[r] \in {"insert", "remove"} => other[r] \in Role
    /\ at[r] \in {"insertRole", "insertRoles", "deleteContract", "deleteRows", "terminateRows",
                   "addition"} => todo[r] # {}
    /\ at[r] \in {"confirmRow", "signRow", "undoRow", "agreeRow", "refuseTerminateRow"} =>
         OwnRow(r) \in RoleRow
    /\ at[r] \in {"terminateContract", "terminateRows", "addition"} =>
         \A p \in todo[r] : seenRows[r][p] \in RoleRow

(* Where a call stands, it knows this of the tables as long as no other    *)
(* call has written.                                                       *)
ContractKnown(r) ==
    /\ at[r] \in Loaded =>
         /\ contract \in ContractRow
         /\ contract.state = seen[r].state /\ contract.content = seen[r].content
    /\ at[r] = "terminateRows" => InState({Terminating}) /\ operator[r] \in agreed
    /\ at[r] \in {"insertRole", "insertRoles"} => InState({Starting})
    /\ at[r] = "deleteRows" => contract = Deleted

RowsKnown(r) ==
    /\ at[r] \in {"confirmRow", "deleteContract", "terminateContract"} => seenRows[r] = roleRow
    /\ at[r] \in {"confirmRow", "deleteContract", "signRow", "undoRow", "agreeRow",
                   "refuseTerminateRow"} =>
         operator[r] \in Members /\ OwnRow(r) = roleRow[operator[r]]
    /\ at[r] = "deleteContract" => OwnRow(r).confirmed = 0
    /\ at[r] = "terminateContract" => todo[r] = Members
    /\ at[r] \in {"terminateRows", "addition"} =>
         \A p \in todo[r] : p \in Members /\ seenRows[r][p] = roleRow[p]
    /\ at[r] = "insert" => operator[r] \in Members /\ AllianceOf[other[r]] = AllianceOf[operator[r]]

SumsKnown(r) ==
    /\ at[r] = "start" => \A p \in Members : roleRow[p].confirmed = 1
    /\ at[r] = "validate" =>
         \A a \in Alliances : \E p \in RowsOf(a) : roleRow[p].signature = 1
    /\ at[r] = "end" => \A a \in Alliances : \E p \in RowsOf(a) : roleRow[p].terminate = 1

Fresh(r) == r \notin stale => ContractKnown(r) /\ RowsKnown(r) /\ SumsKnown(r)

(* Unless excused: past Starting every role has confirmed.                 *)
Confirmed ==
    causes \cap {"overlap", "edited", "late role"} = {} /\ InState(Past) =>
        \A p \in Members : roleRow[p].confirmed = 1

(* Who has signed has signed the present text.                             *)
TextSigned ==
    causes \cap {"overlap", "edited"} = {} /\ contract \in ContractRow =>
        \A p \in Members : roleRow[p].signature = 1 => signed[p] = contract.content

(* A contract in force has a signature of every alliance.                  *)
AllSigned ==
    causes \cap {"overlap", "removed", "undone"} = {} /\ InState(InForce) =>
        \A a \in Alliances : \E p \in RowsOf(a) : roleRow[p].signature = 1

(* In a termination, who counts as agreed has agreed to it, or is about to *)
(* be asked.                                                               *)
Asking(p) == \E s \in Request : at[s] = "terminateRows" /\ p \in todo[s]

AgreedCounts ==
    causes \cap {"overlap", "failure"} = {} /\ InState({Terminating}) =>
        \A p \in Members : roleRow[p].terminate = 1 => p \in agreed \/ Asking(p)

(* A contract that has ended was agreed to by every alliance.              *)
AllAgreed ==
    causes \cap {"overlap", "failure", "removed"} = {} /\ InState({Invalid}) =>
        \A a \in Alliances : \E p \in RowsOf(a) : roleRow[p].terminate = 1 /\ p \in agreed

Promises == Confirmed /\ TextSigned /\ AllSigned /\ AgreedCounts /\ AllAgreed

IInv ==
    /\ TypeOK /\ Unborn /\ OneWriter
    /\ \A r \in Request : StateSeen(r) /\ Fresh(r)
    /\ Promises

-----------------------------------------------------------------------------
(* What a step leaves to the other requests.                               *)

LocalsOK ==
    /\ at       \in [Request -> Place]
    /\ operator \in [Request -> Role \cup {NoRow}]
    /\ other    \in [Request -> Role \cup {NoRow}]
    /\ seen     \in [Request -> ContractRow \cup {NoRow}]
    /\ seenRows \in [Request -> [Role -> RoleRow \cup {NoRow}]]
    /\ todo     \in [Request -> SUBSET Role]

HistoryOK ==
    /\ stale    \in SUBSET Request
    /\ wrote    \in SUBSET Request
    /\ causes   \in SUBSET Cause

OthersSame(r) == \A s \in Request \ {r} :
    /\ at'[s] = at[s] /\ operator'[s] = operator[s] /\ other'[s] = other[s]
    /\ seen'[s] = seen[s] /\ seenRows'[s] = seenRows[s] /\ todo'[s] = todo[s]

(* A call that returns.                                                    *)
LEMMA ReturnFacts ==
  ASSUME TypeOK, NEW r \in Request, Return(r)
  PROVE  LocalsOK' /\ OthersSame(r) /\ at'[r] = "idle"
  BY DEF TypeOK, LocalsOK, Return, OthersSame, NoRows, Place

(* A call that goes on.                                                    *)
LEMMA GotoFacts ==
  ASSUME TypeOK, NEW r \in Request, NEW place \in Place, Goto(r, place)
  PROVE  /\ LocalsOK' /\ OthersSame(r) /\ at'[r] = place
         /\ operator' = operator /\ other' = other /\ seen' = seen
         /\ seenRows' = seenRows /\ todo' = todo
  BY DEF TypeOK, LocalsOK, Goto, OthersSame

(* A loop that goes on to its next row.                                    *)
LoopsOn(r, p) ==
    /\ todo' = [todo EXCEPT ![r] = @ \ {p}]
    /\ UNCHANGED <<at, operator, other, seen, seenRows>>

(* A loop that goes on has one row less to do.                             *)
LEMMA LoopFacts ==
  ASSUME TypeOK, NEW r \in Request, NEW p, LoopsOn(r, p)
  PROVE  /\ LocalsOK' /\ OthersSame(r) /\ at' = at /\ todo'[r] = todo[r] \ {p}
         /\ operator' = operator /\ other' = other /\ seen' = seen
         /\ seenRows' = seenRows
  BY DEF TypeOK, LocalsOK, LoopsOn, OthersSame

(* The marks of a write and of a step without one.                         *)
LEMMA WritesType ==
  ASSUME TypeOK, NEW r \in Request, NEW more \in SUBSET Cause, NEW last \in BOOLEAN,
         Writes(r, more, last)
  PROVE  HistoryOK'
<1>1. "overlap" \in Cause
  BY DEF Cause
<1> QED
  BY <1>1 DEF TypeOK, HistoryOK, Writes

(* The marks of a load.                                                    *)
LEMMA LoadsType ==
  ASSUME TypeOK, NEW r \in Request, Loads(r)
  PROVE  HistoryOK'
<1>1. "overlap" \in Cause
  BY DEF Cause
<1> QED
  BY <1>1 DEF TypeOK, HistoryOK, Loads

(* The marks of a step that goes on or returns without a write.            *)
LEMMA NoWriteType ==
  ASSUME TypeOK, NEW r \in Request, NEW last \in BOOLEAN, NoWrite(r, last)
  PROVE  HistoryOK'
  BY DEF TypeOK, HistoryOK, NoWrite

(* What is known of a call depends on its own variables only.              *)
LEMMA OthersStateSeen ==
  ASSUME NEW r \in Request, OthersSame(r), NEW s \in Request \ {r}, StateSeen(s)
  PROVE  StateSeen(s)'
  BY DEF OthersSame, StateSeen, OwnRow

(* Nothing is to be known of a call that is idle.                          *)
LEMMA IdleKnows ==
  ASSUME NEW r \in Request, at'[r] = "idle"
  PROVE  StateSeen(r)' /\ Fresh(r)'
  BY DEF StateSeen, Fresh, ContractKnown, RowsKnown, SumsKnown, Loaded

(* A loop of terminate that has still to ask somebody is not disturbed.    *)
LEMMA AskingStays ==
  ASSUME NEW r \in Request, OthersSame(r), at[r] # "terminateRows", NEW p, Asking(p)
  PROVE  Asking(p)'
  BY DEF Asking, OthersSame

(* With the tables and the marks as they were, the promises are kept.      *)
LEMMA PromisesStay ==
  ASSUME NEW r \in Request, OthersSame(r), Promises, UNCHANGED <<rows, marks>>,
         causes \subseteq causes',
         at[r] = "terminateRows" => "failure" \in causes'
  PROVE  Promises'
<1>0. contract' = contract /\ roleRow' = roleRow /\ signed' = signed /\ agreed' = agreed
  BY DEF rows, marks
<1>1. Members' = Members /\ Alliances' = Alliances /\ \A a : RowsOf(a)' = RowsOf(a)
  BY <1>0 DEF Members, Alliances, RowsOf
<1>2. \A states : InState(states)' = InState(states)
  BY <1>0 DEF InState
<1>3. Confirmed'
  BY <1>0, <1>1, <1>2 DEF Promises, Confirmed
<1>4. TextSigned'
  BY <1>0, <1>1, <1>2 DEF Promises, TextSigned
<1>5. AllSigned'
  BY <1>0, <1>1, <1>2 DEF Promises, AllSigned
<1>6. AgreedCounts'
  <2> SUFFICES ASSUME causes' \cap {"overlap", "failure"} = {}, InState({Terminating})',
                      NEW p \in Members', roleRow'[p].terminate = 1
               PROVE  p \in agreed' \/ Asking(p)'
    BY DEF AgreedCounts
  <2>1. p \in agreed \/ Asking(p)
    BY <1>0, <1>1, <1>2 DEF Promises, AgreedCounts
  <2> QED
    BY <2>1, <1>0, AskingStays
<1>7. AllAgreed'
  BY <1>0, <1>1, <1>2 DEF Promises, AllAgreed
<1> QED
  BY <1>3, <1>4, <1>5, <1>6, <1>7 DEF Promises

(* A step that writes no table.                                            *)
LEMMA ReadKeeps ==
  ASSUME IInv, TypeOK', NEW r \in Request, OthersSame(r), UNCHANGED <<rows, marks>>,
         contract # NoRow, causes \subseteq causes',
         wrote' \subseteq wrote, wrote \ {r} \subseteq wrote', stale \ {r} \subseteq stale', stale' \subseteq stale,
         at'[r] # "terminateRows", at[r] = "terminateRows" => "failure" \in causes',
         at'[r] = "idle" \/ (stale' = stale /\ (at[r] # "idle" \/ wrote \ {r} = {} \/ "overlap" \in causes')),
         at'[r] # "idle" => StateSeen(r)' /\ Fresh(r)'
  PROVE  IInv'
<1>0. contract' = contract /\ roleRow' = roleRow /\ signed' = signed /\ agreed' = agreed
  BY DEF rows, marks
<1>1. Unborn'
  BY <1>0 DEF Unborn
<1>2. OneWriter'
  <2>1. \A s \in Request : at'[s] = "terminateRows" => s \in wrote'
    BY DEF IInv, OneWriter, OthersSame
  <2>2. ASSUME "overlap" \notin causes', NEW s \in wrote', NEW q \in Request \ {s}, at'[q] # "idle"
        PROVE  q \in stale'
    <3>1. "overlap" \notin causes /\ s \in wrote
      BY <2>2
    <3>2. CASE q = r
      BY <2>2, <3>1, <3>2 DEF IInv, OneWriter
    <3>3. CASE q # r
      BY <2>2, <3>1, <3>3 DEF IInv, OneWriter, OthersSame
    <3> QED
      BY <3>2, <3>3
  <2> QED
    BY <2>1, <2>2 DEF OneWriter
<1>3. \A s \in Request : StateSeen(s)'
  BY OthersStateSeen, IdleKnows DEF IInv
<1>4. ASSUME NEW s \in Request \ {r} PROVE Fresh(s)'
  <2>1. s \in stale <=> s \in stale'
    OBVIOUS
  <2>2. CASE s \in stale
    BY <2>1, <2>2 DEF Fresh
  <2>3. CASE s \notin stale
    <3>1. ContractKnown(s) /\ RowsKnown(s) /\ SumsKnown(s)
      BY <2>3 DEF IInv, Fresh
    <3>2. ContractKnown(s)'
      BY <3>1, <1>0 DEF ContractKnown, InState, OthersSame
    <3>3. RowsKnown(s)'
      BY <3>1, <1>0 DEF RowsKnown, OwnRow, Members, OthersSame
    <3>4. SumsKnown(s)'
      <4>1. Members' = Members /\ Alliances' = Alliances /\ \A a : RowsOf(a)' = RowsOf(a)
        BY <1>0 DEF Members, Alliances, RowsOf
      <4> QED
        BY <3>1, <4>1, <1>0 DEF SumsKnown, OthersSame
    <3> QED
      BY <3>2, <3>3, <3>4 DEF Fresh
  <2> QED
    BY <2>2, <2>3
<1>5. \A s \in Request : Fresh(s)'
  BY <1>4, IdleKnows
<1>6. Promises'
  BY PromisesStay DEF IInv
<1> QED
  BY <1>1, <1>2, <1>3, <1>5, <1>6 DEF IInv

(* A step that writes a table: it makes every other call in progress stale. *)
(* If it is stale itself the calls have overlapped, which excuses all.     *)
LEMMA WriteKeeps ==
  ASSUME IInv, TypeOK', NEW r \in Request, OthersSame(r), contract' # NoRow,
         NEW more \in SUBSET Cause, NEW last \in BOOLEAN, Writes(r, more, last),
         at[r] # "idle" \/ wrote = {}, last <=> at'[r] = "idle",
         ~last => StateSeen(r)',
         r \notin stale => (~last => Fresh(r)') /\ Promises'
  PROVE  IInv'
<1>0. /\ causes' = causes \cup more \cup (IF r \in stale THEN {"overlap"} ELSE {})
      /\ stale'  = (stale \cup {s \in Request \ {r} : at[s] # "idle"}) \ (IF last THEN {r} ELSE {})
      /\ wrote'  = IF last THEN wrote \ {r} ELSE wrote \cup {r}
  BY DEF Writes
<1>1. Unborn'
  BY DEF Unborn
<1>2. OneWriter'
  <2>1. \A s \in Request : at'[s] = "terminateRows" => s \in wrote'
    BY <1>0 DEF IInv, OneWriter, OthersSame
  <2>2. ASSUME "overlap" \notin causes', NEW s \in wrote', NEW q \in Request \ {s}, at'[q] # "idle"
        PROVE  q \in stale'
    <3>1. "overlap" \notin causes /\ r \notin stale
      BY <2>2, <1>0
    <3>2. CASE q = r
      BY <2>2, <3>1, <3>2, <1>0 DEF IInv, OneWriter
    <3>3. CASE q # r
      BY <2>2, <3>3, <1>0 DEF OthersSame
    <3> QED
      BY <3>2, <3>3
  <2> QED
    BY <2>1, <2>2 DEF OneWriter
<1>3. \A s \in Request : StateSeen(s)'
  BY OthersStateSeen, IdleKnows DEF IInv
<1>4. ASSUME NEW s \in Request \ {r} PROVE Fresh(s)'
  <2>1. CASE at[s] = "idle"
    BY <2>1, IdleKnows DEF OthersSame
  <2>2. CASE at[s] # "idle"
    BY <2>2, <1>0 DEF Fresh
  <2> QED
    BY <2>1, <2>2
<1>5. Fresh(r)'
  <2>1. CASE last
    BY <2>1, IdleKnows
  <2>2. CASE ~last /\ r \in stale
    BY <2>2, <1>0 DEF Fresh
  <2> QED
    BY <2>1, <2>2
<1>6. Promises'
  <2>1. CASE r \in stale
    BY <2>1, <1>0 DEF Promises, Confirmed, TextSigned, AllSigned, AgreedCounts, AllAgreed
  <2> QED
    BY <2>1
<1> QED
  BY <1>1, <1>2, <1>3, <1>4, <1>5, <1>6 DEF IInv

-----------------------------------------------------------------------------
(* The steps that write no table.                                          *)

(* A call that loads the contract knows its state and text.                *)
LEMMA BeginKeeps ==
  ASSUME IInv, NEW r \in Request, NEW p \in Role,
         NEW place \in {"confirm", "refuse", "sign", "undo", "terminate", "agree",
                        "refuseTerminate", "edit"},
         Begin(r, p, place)
  PROVE  IInv'
<1>1. /\ at[r] = "idle" /\ contract \notin {NoRow, Deleted}
      /\ at' = [at EXCEPT ![r] = place] /\ operator' = [operator EXCEPT ![r] = p]
      /\ seen' = [seen EXCEPT ![r] = contract] /\ other' = other
      /\ seenRows' = seenRows /\ todo' = todo
      /\ UNCHANGED <<rows, marks>> /\ Loads(r)
  BY DEF Begin
<1>2. contract \in ContractRow /\ place \in Place
  BY <1>1 DEF IInv, TypeOK, Place
<1>3. HistoryOK'
  BY LoadsType DEF IInv, Begin
<1>4. TypeOK'
  BY <1>1, <1>2, <1>3 DEF IInv, TypeOK, HistoryOK, rows, marks
<1>5. /\ at'[r] = place /\ seen'[r] = contract /\ operator'[r] = p /\ contract' = contract
      /\ OthersSame(r)
  BY <1>1 DEF IInv, TypeOK, rows, OthersSame
<1>6. StateSeen(r)'
  BY <1>2, <1>5 DEF StateSeen
<1>7. Fresh(r)'
  BY <1>2, <1>5 DEF Fresh, ContractKnown, RowsKnown, SumsKnown
<1>8. stale' = stale /\ wrote' = wrote /\ causes \subseteq causes'
      /\ (wrote \ {r} = {} \/ "overlap" \in causes')
  BY <1>1 DEF Loads
<1> QED
  BY <1>1, <1>2, <1>4, <1>5, <1>6, <1>7, <1>8, ReadKeeps

(* A check that the call passes has loaded these rows.                     *)
Passed(r, place, loaded) ==
    /\ at'[r] = place /\ operator' = operator /\ seen' = seen
    /\ seenRows'[r] = loaded /\ todo'[r] = {p \in Role : loaded[p] # NoRow}
    /\ contract' = contract /\ roleRow' = roleRow

(* What it has learned is left to show.                                    *)
LEMMA CheckKeeps ==
  ASSUME IInv, NEW r \in Request, NEW here, NEW needed \in BOOLEAN, NEW place \in Place,
         NEW loaded \in [Role -> RoleRow \cup {NoRow}],
         Check(r, here, needed, loaded, place),
         here \notin {"idle", "terminateRows"}, place \notin {"idle", "terminateRows"},
         needed /\ Passed(r, place, loaded) => StateSeen(r)' /\ (r \notin stale => Fresh(r)')
  PROVE  IInv'
<1>0. at[r] = here /\ UNCHANGED <<rows, marks>> /\ TypeOK /\ contract # NoRow
  BY DEF Check, IInv, Unborn
<1>1. CASE needed
  <2>1. /\ at' = [at EXCEPT ![r] = place]
        /\ seenRows' = [seenRows EXCEPT ![r] = loaded]
        /\ todo' = [todo EXCEPT ![r] = {p \in Role : loaded[p] # NoRow}]
        /\ Loads(r) /\ operator' = operator /\ other' = other /\ seen' = seen
    BY <1>1 DEF Check
  <2>2. TypeOK'
    <3>1. LocalsOK'
      BY <1>0, <2>1 DEF TypeOK, LocalsOK
    <3>2. HistoryOK'
      BY <1>0, <2>1, LoadsType
    <3> QED
      BY <1>0, <3>1, <3>2 DEF TypeOK, LocalsOK, HistoryOK, rows, marks
  <2>3. /\ OthersSame(r) /\ at'[r] = place /\ seenRows'[r] = loaded
        /\ todo'[r] = {p \in Role : loaded[p] # NoRow}
        /\ contract' = contract /\ roleRow' = roleRow
    BY <1>0, <2>1 DEF TypeOK, OthersSame, rows
  <2>4. stale' = stale /\ wrote' = wrote /\ causes \subseteq causes'
    BY <2>1 DEF Loads
  <2>5. StateSeen(r)' /\ (r \notin stale => Fresh(r)')
    BY <1>1, <2>1, <2>3 DEF Passed
  <2>6. Fresh(r)'
    BY <2>4, <2>5 DEF Fresh
  <2> QED
    BY <1>0, <2>2, <2>3, <2>4, <2>5, <2>6, ReadKeeps
<1>2. CASE ~needed
  <2>1. Return(r) /\ NoWrite(r, TRUE)
    BY <1>2 DEF Check
  <2>2. LocalsOK' /\ OthersSame(r) /\ at'[r] = "idle" /\ HistoryOK'
    BY <1>0, <2>1, ReturnFacts, NoWriteType
  <2>3. TypeOK'
    BY <1>0, <2>2 DEF TypeOK, LocalsOK, HistoryOK, rows, marks
  <2>4. /\ stale' = stale \ {r} /\ wrote' = wrote \ {r} /\ causes' = causes
    BY <2>1 DEF NoWrite
  <2> QED
    BY <1>0, <2>2, <2>3, <2>4, ReadKeeps
<1> QED
  BY <1>1, <1>2

(* What a call knows.                                                      *)
LEMMA Known ==
  ASSUME IInv, NEW r \in Request
  PROVE  /\ TypeOK /\ StateSeen(r)
         /\ r \notin stale => ContractKnown(r) /\ RowsKnown(r) /\ SumsKnown(r)
  BY DEF IInv, Fresh

(* The rows of a call that has loaded the operator's alone.                *)
LEMMA OwnType ==
  ASSUME TypeOK, NEW r \in Request, operator[r] \in Role
  PROVE  /\ Own(r) \in [Role -> RoleRow \cup {NoRow}] /\ Own(r)[operator[r]] = roleRow[operator[r]]
  BY DEF TypeOK, Own, NoRows

(* The check of confirm has read every row.                                *)
LEMMA ConfirmCheckKeeps ==
  ASSUME IInv, NEW r \in Request, ConfirmCheck(r) PROVE IInv'
<1>1. /\ at[r] = "confirm" /\ TypeOK /\ StateSeen(r) /\ operator[r] \in Role
      /\ seen[r] \in ContractRow /\ {"confirmRow"} \subseteq Place
      /\ r \notin stale => contract \in ContractRow
           /\ contract.state = seen[r].state /\ contract.content = seen[r].content
  BY Known DEF ConfirmCheck, Check, StateSeen, ContractKnown, Loaded, Place
<1> DEFINE needed == operator[r] \in Members /\ roleRow[operator[r]].confirmed = 0
<1>2. roleRow \in [Role -> RoleRow \cup {NoRow}]
  BY <1>1 DEF TypeOK
<1>3. ASSUME needed, Passed(r, "confirmRow", roleRow)
      PROVE  StateSeen(r)' /\ (r \notin stale => Fresh(r)')
  <2> USE <1>3 DEF Passed
  <2>1. StateSeen(r)'
    BY <1>1, <1>2, <1>3 DEF StateSeen, OwnRow, Members
  <2>2. r \notin stale => ContractKnown(r)'
    BY <1>1, <1>3 DEF ContractKnown
  <2>3. RowsKnown(r)'
    BY <1>1, <1>3 DEF RowsKnown, OwnRow, Members
  <2>4. SumsKnown(r)'
    BY <1>1, <1>3 DEF SumsKnown
  <2> QED
    BY <2>1, <2>2, <2>3, <2>4 DEF Fresh
<1>4. needed \in BOOLEAN /\ Check(r, "confirm", needed, roleRow, "confirmRow")
  BY DEF ConfirmCheck
<1> HIDE DEF needed
<1> QED
  BY <1>1, <1>2, <1>3, <1>4, CheckKeeps

(* The check of refuseConfirm: the operator has not confirmed.             *)
LEMMA RefuseCheckKeeps ==
  ASSUME IInv, NEW r \in Request, RefuseCheck(r) PROVE IInv'
<1>1. /\ at[r] = "refuse" /\ TypeOK /\ StateSeen(r) /\ operator[r] \in Role
      /\ seen[r] \in ContractRow /\ {"deleteContract"} \subseteq Place
      /\ r \notin stale => contract \in ContractRow
           /\ contract.state = seen[r].state /\ contract.content = seen[r].content
  BY Known DEF RefuseCheck, Check, StateSeen, ContractKnown, Loaded, Place
<1> DEFINE needed == operator[r] \in Members /\ roleRow[operator[r]].confirmed = 0
<1>2. roleRow \in [Role -> RoleRow \cup {NoRow}]
  BY <1>1 DEF TypeOK
<1>3. ASSUME needed, Passed(r, "deleteContract", roleRow)
      PROVE  StateSeen(r)' /\ (r \notin stale => Fresh(r)')
  <2> USE <1>3 DEF Passed
  <2>1. StateSeen(r)'
    BY <1>1, <1>2, <1>3 DEF StateSeen, OwnRow, Members
  <2>2. r \notin stale => ContractKnown(r)'
    BY <1>1, <1>3 DEF ContractKnown
  <2>3. RowsKnown(r)'
    BY <1>1, <1>3 DEF RowsKnown, OwnRow, Members
  <2>4. SumsKnown(r)'
    BY <1>1, <1>3 DEF SumsKnown
  <2> QED
    BY <2>1, <2>2, <2>3, <2>4 DEF Fresh
<1>4. needed \in BOOLEAN /\ Check(r, "refuse", needed, roleRow, "deleteContract")
  BY DEF RefuseCheck
<1> HIDE DEF needed
<1> QED
  BY <1>1, <1>2, <1>3, <1>4, CheckKeeps

(* The check of terminate: the contract is valid.                          *)
LEMMA TerminateCheckKeeps ==
  ASSUME IInv, NEW r \in Request, TerminateCheck(r) PROVE IInv'
<1>1. /\ at[r] = "terminate" /\ TypeOK /\ StateSeen(r) /\ operator[r] \in Role
      /\ seen[r] \in ContractRow /\ {"terminateContract"} \subseteq Place
      /\ r \notin stale => contract \in ContractRow
           /\ contract.state = seen[r].state /\ contract.content = seen[r].content
  BY Known DEF TerminateCheck, Check, StateSeen, ContractKnown, Loaded, Place
<1> DEFINE needed == seen[r].state = Valid
<1>2. roleRow \in [Role -> RoleRow \cup {NoRow}]
  BY <1>1 DEF TypeOK
<1>3. ASSUME needed, Passed(r, "terminateContract", roleRow)
      PROVE  StateSeen(r)' /\ (r \notin stale => Fresh(r)')
  <2> USE <1>3 DEF Passed
  <2>1. StateSeen(r)'
    BY <1>1, <1>2, <1>3 DEF StateSeen, OwnRow, Members
  <2>2. r \notin stale => ContractKnown(r)'
    BY <1>1, <1>3 DEF ContractKnown
  <2>3. RowsKnown(r)'
    BY <1>1, <1>3 DEF RowsKnown, OwnRow, Members
  <2>4. SumsKnown(r)'
    BY <1>1, <1>3 DEF SumsKnown
  <2> QED
    BY <2>1, <2>2, <2>3, <2>4 DEF Fresh
<1>4. needed \in BOOLEAN /\ Check(r, "terminate", needed, roleRow, "terminateContract")
  BY DEF TerminateCheck
<1> HIDE DEF needed
<1> QED
  BY <1>1, <1>2, <1>3, <1>4, CheckKeeps

(* The checks of sign, undoSign, agreeTerminate and refuseTerminate load   *)
(* the operator's row alone.                                               *)
LEMMA OwnCheckKeeps ==
  ASSUME IInv, NEW r \in Request,
         NEW here \in {"sign", "undo", "agree", "refuseTerminate"},
         NEW needed \in BOOLEAN,
         NEW place \in {"signRow", "undoRow", "agreeRow", "refuseTerminateRow"},
         Check(r, here, needed, Own(r), place),
         needed => /\ operator[r] \in Members
                   /\ place = "signRow" => seen[r].state = NotConfirmed
                   /\ place = "undoRow" => seen[r].state # Valid
                   /\ place \in {"agreeRow", "refuseTerminateRow"} => seen[r].state = Terminating
  PROVE  IInv'
<1>1. /\ at[r] = here /\ TypeOK /\ StateSeen(r) /\ operator[r] \in Role
      /\ seen[r] \in ContractRow /\ place \in Place
      /\ r \notin stale => contract \in ContractRow
           /\ contract.state = seen[r].state /\ contract.content = seen[r].content
  BY Known DEF Check, StateSeen, ContractKnown, Loaded, Place
<1>2. roleRow \in [Role -> RoleRow \cup {NoRow}] /\ Own(r) \in [Role -> RoleRow \cup {NoRow}]
      /\ Own(r)[operator[r]] = roleRow[operator[r]]
  BY <1>1, OwnType DEF TypeOK
<1>3. ASSUME needed, Passed(r, place, Own(r))
      PROVE  StateSeen(r)' /\ (r \notin stale => Fresh(r)')
  <2> USE <1>3 DEF Passed
  <2>0. OwnRow(r)' = roleRow[operator[r]] /\ operator[r] \in Members
    BY <1>2, <1>3 DEF OwnRow
  <2>1. StateSeen(r)'
    BY <1>1, <1>2, <1>3, <2>0 DEF StateSeen, Members
  <2>2. r \notin stale => ContractKnown(r)'
    BY <1>1, <1>3 DEF ContractKnown
  <2>3. RowsKnown(r)'
    BY <1>1, <1>3, <2>0 DEF RowsKnown, Members
  <2>4. SumsKnown(r)'
    BY <1>1, <1>3 DEF SumsKnown
  <2> QED
    BY <2>1, <2>2, <2>3, <2>4 DEF Fresh
<1> QED
  BY <1>1, <1>2, <1>3, CheckKeeps

(* sign and undoSign.                                                      *)
LEMMA SignCheckKeeps ==
  ASSUME IInv, NEW r \in Request, SignCheck(r) \/ UndoCheck(r) PROVE IInv'
<1>1. CASE SignCheck(r)
  BY <1>1, OwnCheckKeeps DEF SignCheck
<1>2. CASE UndoCheck(r)
  BY <1>2, OwnCheckKeeps DEF UndoCheck
<1> QED
  BY <1>1, <1>2

(* agreeTerminate and refuseTerminate.                                     *)
LEMMA AnswerCheckKeeps ==
  ASSUME IInv, NEW r \in Request,
         \/ AnswerCheck(r, "agree", "agreeRow")
         \/ AnswerCheck(r, "refuseTerminate", "refuseTerminateRow")
  PROVE  IInv'
  BY OwnCheckKeeps DEF AnswerCheck

(* A sum that is positive has a row behind it.                             *)
LEMMA Counted ==
  ASSUME NEW S \in SUBSET Role
  PROVE  /\ Cardinality(S) \in Nat
         /\ Cardinality(S) >= 1 => S # {}
<1>1. IsFiniteSet(S)
  BY RoleAssumption, FS_Subset
<1> QED
  BY <1>1, FS_CardinalityType, FS_EmptySet

(* A step that reads a sum and goes on to place or returns.                *)
SumStep(r, here, positive, place) ==
    /\ at[r] = here
    /\ IF positive
       THEN Goto(r, place) /\ NoWrite(r, FALSE)
       ELSE Return(r) /\ NoWrite(r, TRUE)
    /\ UNCHANGED <<rows, marks>>

(* The sums of signatures and answers, and what the call learns of them.   *)
LEMMA SumKeeps ==
  ASSUME IInv, NEW r \in Request, NEW positive \in BOOLEAN,
         NEW here \in {"signSum", "undoSum", "agreeSum"},
         NEW place \in {"validate", "unblock", "end"},
         SumStep(r, here, positive, place),
         <<here, place>> \in {<<"signSum", "validate">>, <<"undoSum", "unblock">>, <<"agreeSum", "end">>},
         positive /\ place = "validate" =>
            \A a \in Alliances : \E p \in RowsOf(a) : roleRow[p].signature = 1,
         positive /\ place = "end" =>
            \A a \in Alliances : \E p \in RowsOf(a) : roleRow[p].terminate = 1
  PROVE  IInv'
<1>1. /\ at[r] = here /\ TypeOK /\ StateSeen(r) /\ operator[r] \in Role
      /\ seen[r] \in ContractRow /\ place \in Place /\ contract # NoRow
      /\ r \notin stale => contract \in ContractRow
           /\ contract.state = seen[r].state /\ contract.content = seen[r].content
  BY Known DEF SumStep, StateSeen, ContractKnown, Loaded, Place, IInv, Unborn
<1>2. contract' = contract /\ roleRow' = roleRow /\ UNCHANGED <<rows, marks>>
  BY DEF SumStep, rows
<1>3. CASE positive
  <2>1. Goto(r, place) /\ NoWrite(r, FALSE)
    BY <1>3 DEF SumStep
  <2>2. LocalsOK' /\ OthersSame(r) /\ at'[r] = place /\ operator' = operator /\ seen' = seen
        /\ HistoryOK'
    BY <1>1, <2>1, GotoFacts, NoWriteType
  <2>3. stale' = stale /\ wrote' = wrote /\ causes' = causes
    BY <2>1 DEF NoWrite
  <2>4. TypeOK'
    BY <1>1, <1>2, <2>2 DEF TypeOK, LocalsOK, HistoryOK, rows, marks
  <2>5. StateSeen(r)'
    BY <1>1, <2>2 DEF StateSeen
  <2>6. Fresh(r)'
    <3>1. r \notin stale => ContractKnown(r)'
      BY <1>1, <1>2, <2>2 DEF ContractKnown
    <3>2. RowsKnown(r)'
      BY <2>2 DEF RowsKnown
    <3>3. SumsKnown(r)'
      BY <1>2, <1>3, <2>2 DEF SumsKnown, Alliances, RowsOf, Members
    <3> QED
      BY <3>1, <3>2, <3>3, <2>3 DEF Fresh
  <2> QED
    BY <1>1, <1>2, <2>2, <2>3, <2>4, <2>5, <2>6, ReadKeeps
<1>4. CASE ~positive
  <2>1. Return(r) /\ NoWrite(r, TRUE)
    BY <1>4 DEF SumStep
  <2>2. LocalsOK' /\ OthersSame(r) /\ at'[r] = "idle" /\ HistoryOK'
    BY <1>1, <2>1, ReturnFacts, NoWriteType
  <2>3. TypeOK'
    BY <1>1, <1>2, <2>2 DEF TypeOK, LocalsOK, HistoryOK, rows, marks
  <2>4. /\ stale' = stale \ {r} /\ wrote' = wrote \ {r} /\ causes' = causes
    BY <2>1 DEF NoWrite
  <2> QED
    BY <1>1, <1>2, <2>2, <2>3, <2>4, ReadKeeps
<1> QED
  BY <1>3, <1>4

(* Every alliance has a signature.                                         *)
LEMMA SignSumKeeps ==
  ASSUME IInv, NEW r \in Request, SignSum(r) PROVE IInv'
<1>1. SumStep(r, "signSum", IsAllSign, "validate") /\ IsAllSign \in BOOLEAN
  BY DEF SignSum, SumStep, IsAllSign
<1>2. IsAllSign => \A a \in Alliances : \E p \in RowsOf(a) : roleRow[p].signature = 1
  <2> SUFFICES ASSUME IsAllSign, NEW a \in Alliances
               PROVE  \E p \in RowsOf(a) : roleRow[p].signature = 1
    OBVIOUS
  <2> DEFINE S == {p \in RowsOf(a) : roleRow[p].signature = 1}
  <2>1. S \in SUBSET Role /\ Cardinality(S) >= 1
    BY DEF IsAllSign, SignedOf, RowsOf, Members
  <2> QED
    BY <2>1, Counted
<1> QED
  BY <1>1, <1>2, SumKeeps

(* Nobody has signed.                                                      *)
LEMMA UndoSumKeeps ==
  ASSUME IInv, NEW r \in Request, UndoSum(r) PROVE IInv'
<1> DEFINE positive == Members # {} /\ \A p \in Members : roleRow[p].signature = 0
<1>1. SumStep(r, "undoSum", positive, "unblock") /\ positive \in BOOLEAN
  BY DEF UndoSum, SumStep
<1> HIDE DEF positive
<1> QED
  BY <1>1, SumKeeps

(* Every alliance has one row that agrees.                                 *)
LEMMA AgreeSumKeeps ==
  ASSUME IInv, NEW r \in Request, AgreeSum(r) PROVE IInv'
<1>1. SumStep(r, "agreeSum", IsAllTerminated, "end") /\ IsAllTerminated \in BOOLEAN
  BY DEF AgreeSum, SumStep, IsAllTerminated
<1>2. IsAllTerminated => \A a \in Alliances : \E p \in RowsOf(a) : roleRow[p].terminate = 1
  <2> SUFFICES ASSUME IsAllTerminated, NEW a \in Alliances
               PROVE  \E p \in RowsOf(a) : roleRow[p].terminate = 1
    OBVIOUS
  <2> DEFINE S == {p \in RowsOf(a) : roleRow[p].terminate = 1}
  <2> DEFINE T == {p \in RowsOf(a) : roleRow[p].terminate = 2}
  <2>1. S \in SUBSET Role /\ T \in SUBSET Role
    BY DEF RowsOf, Members
  <2>2. Cardinality(S) + 2 * Cardinality(T) = 1
    BY DEF IsAllTerminated, TerminateOf
  <2>3. Cardinality(S) \in Nat /\ Cardinality(T) \in Nat /\ (Cardinality(S) >= 1 => S # {})
    BY <2>1, Counted
  <2> HIDE DEF S, T
  <2>4. Cardinality(S) >= 1
    BY <2>2, <2>3
  <2>5. S # {}
    BY <2>3, <2>4
  <2> QED
    BY <2>5 DEF S
<1> QED
  BY <1>1, <1>2, SumKeeps

(* addRole, removeRole and addAddition load, and a call throws.            *)
LEMMA BeginRoleKeeps ==
  ASSUME IInv, NEW r \in Request, NEW p \in Role, NEW q \in Role,
         BeginAddRole(r, p, q) \/ BeginRemoveRole(r, p, q)
  PROVE  IInv'
<1>1. PICK place \in {"insert", "remove"} :
        /\ at[r] = "idle" /\ contract # NoRow /\ p \in Members
        /\ AllianceOf[q] = AllianceOf[p]
        /\ at' = [at EXCEPT ![r] = place] /\ operator' = [operator EXCEPT ![r] = p]
        /\ other' = [other EXCEPT ![r] = q]
        /\ seen' = seen /\ seenRows' = seenRows /\ todo' = todo
        /\ UNCHANGED <<rows, marks>> /\ Loads(r)
  BY DEF BeginAddRole, BeginRemoveRole
<1>2. TypeOK /\ place \in Place /\ HistoryOK'
  BY <1>1, LoadsType DEF IInv, Place
<1>4. TypeOK'
  BY <1>1, <1>2 DEF TypeOK, HistoryOK, rows, marks
<1>5. /\ at'[r] = place /\ operator'[r] = p /\ other'[r] = q /\ roleRow' = roleRow
      /\ OthersSame(r)
  BY <1>1, <1>2 DEF TypeOK, rows, OthersSame
<1>6. StateSeen(r)'
  BY <1>5 DEF StateSeen, Loaded
<1>7. Fresh(r)'
  BY <1>1, <1>5 DEF Fresh, ContractKnown, RowsKnown, SumsKnown, Loaded, Members
<1>8. stale' = stale /\ wrote' = wrote /\ causes \subseteq causes'
      /\ (wrote \ {r} = {} \/ "overlap" \in causes')
  BY <1>1 DEF Loads
<1> QED
  BY <1>1, <1>4, <1>5, <1>6, <1>7, <1>8, ReadKeeps

(* addAddition has loaded every row.                                       *)
LEMMA BeginAdditionKeeps ==
  ASSUME IInv, NEW r \in Request, BeginAddition(r) PROVE IInv'
<1>1. /\ at[r] = "idle" /\ Members # {}
      /\ at' = [at EXCEPT ![r] = "addition"]
      /\ seenRows' = [seenRows EXCEPT ![r] = roleRow]
      /\ todo' = [todo EXCEPT ![r] = Members]
      /\ operator' = operator /\ other' = other /\ seen' = seen
      /\ UNCHANGED <<rows, marks>> /\ Loads(r)
  BY DEF BeginAddition
<1>2. TypeOK /\ "addition" \in Place /\ HistoryOK' /\ Members \in SUBSET Role
      /\ contract # NoRow
  BY <1>1, LoadsType DEF IInv, Place, Members, Unborn
<1>4. TypeOK'
  BY <1>1, <1>2 DEF TypeOK, HistoryOK, rows, marks
<1>5. /\ at'[r] = "addition" /\ seenRows'[r] = roleRow /\ todo'[r] = Members
      /\ roleRow' = roleRow /\ roleRow \in [Role -> RoleRow \cup {NoRow}] /\ OthersSame(r)
  BY <1>1, <1>2 DEF TypeOK, rows, OthersSame
<1>6. StateSeen(r)'
  BY <1>1, <1>5 DEF StateSeen, Loaded, Members
<1>7. Fresh(r)'
  BY <1>5 DEF Fresh, ContractKnown, RowsKnown, SumsKnown, Loaded, Members
<1>8. stale' = stale /\ wrote' = wrote /\ causes \subseteq causes'
      /\ (wrote \ {r} = {} \/ "overlap" \in causes')
  BY <1>1 DEF Loads
<1> QED
  BY <1>1, <1>2, <1>4, <1>5, <1>6, <1>7, <1>8, ReadKeeps

(* A call that throws after it has written leaves its cause.               *)
LEMMA CallThrowsKeeps ==
  ASSUME IInv, NEW r \in Request, CallThrows(r) PROVE IInv'
<1>1. /\ at[r] # "idle" /\ Return(r) /\ stale' = stale \ {r} /\ wrote' = wrote \ {r}
      /\ causes' = IF r \in wrote THEN causes \cup {"failure"} ELSE causes
      /\ UNCHANGED <<rows, marks>>
  BY DEF CallThrows
<1>2. TypeOK /\ contract # NoRow /\ "failure" \in Cause
      /\ (at[r] = "terminateRows" => r \in wrote)
  BY <1>1 DEF IInv, Unborn, OneWriter, Cause
<1>3. LocalsOK' /\ OthersSame(r) /\ at'[r] = "idle"
  BY <1>1, <1>2, ReturnFacts
<1>4. TypeOK'
  BY <1>1, <1>2, <1>3 DEF TypeOK, LocalsOK, rows, marks
<1> QED
  BY <1>1, <1>2, <1>3, <1>4, ReadKeeps

-----------------------------------------------------------------------------
(* The steps that write, when the call goes on, loops on and returns.      *)

RowsOK ==
    /\ contract \in ContractRow \cup {Deleted}
    /\ roleRow  \in [Role -> RoleRow \cup {NoRow}]
    /\ signed   \in [Role -> Content \cup {NoRow}]
    /\ agreed   \in SUBSET Role

(* The types of the tables and the marks, once there is a contract.        *)
LEMMA RowsType == ASSUME TypeOK, contract # NoRow PROVE RowsOK
  BY DEF TypeOK, RowsOK

(* The last write of a call.                                               *)
LEMMA LastKeeps ==
  ASSUME IInv, NEW r \in Request, at[r] # "idle", RowsOK', NEW more \in SUBSET Cause,
         Return(r), Writes(r, more, TRUE), r \notin stale => Promises'
  PROVE  IInv'
<1>1. TypeOK
  BY DEF IInv
<1>2. LocalsOK' /\ OthersSame(r) /\ at'[r] = "idle" /\ HistoryOK'
  BY <1>1, ReturnFacts, WritesType
<1>3. TypeOK' /\ contract' # NoRow
  BY <1>2, NoRowAssumption DEF TypeOK, LocalsOK, HistoryOK, RowsOK
<1> QED
  BY <1>2, <1>3, WriteKeeps

(* A write after which the call goes on.                                   *)
LEMMA OnKeeps ==
  ASSUME IInv, NEW r \in Request, at[r] # "idle", RowsOK', NEW more \in SUBSET Cause,
         NEW place \in Place \ {"idle"}, Goto(r, place), Writes(r, more, FALSE),
         StateSeen(r)', r \notin stale => Fresh(r)' /\ Promises'
  PROVE  IInv'
<1>1. TypeOK
  BY DEF IInv
<1>2. LocalsOK' /\ OthersSame(r) /\ at'[r] = place /\ HistoryOK'
  BY <1>1, GotoFacts, WritesType
<1>3. TypeOK' /\ contract' # NoRow
  BY <1>2, NoRowAssumption DEF TypeOK, LocalsOK, HistoryOK, RowsOK
<1> QED
  BY <1>2, <1>3, WriteKeeps

(* The last row of a loop, or one before it.                               *)
LoopStep(r, p) ==
    IF todo[r] = {p}
    THEN Return(r) /\ Writes(r, {}, TRUE)
    ELSE /\ todo' = [todo EXCEPT ![r] = @ \ {p}]
         /\ Writes(r, {}, FALSE)
         /\ UNCHANGED <<at, operator, other, seen, seenRows>>

(* A write of a loop over the rows.                                        *)
LEMMA LoopKeeps ==
  ASSUME IInv, NEW r \in Request,
         at[r] \in {"insertRoles", "deleteRows", "terminateRows", "addition"},
         NEW p \in todo[r], RowsOK', LoopStep(r, p),
         r \notin stale =>
            /\ LoopsOn(r, p) => ContractKnown(r)' /\ RowsKnown(r)'
            /\ LoopsOn(r, p) \/ (todo[r] = {p} /\ Return(r)) => Promises'
  PROVE  IInv'
<1>1. TypeOK /\ StateSeen(r)
  BY DEF IInv
<1>2. CASE todo[r] = {p}
  <2>1. Return(r) /\ Writes(r, {}, TRUE) /\ {} \in SUBSET Cause
    BY <1>2 DEF LoopStep
  <2> QED
    BY <1>2, <2>1, LastKeeps
<1>3. CASE todo[r] # {p}
  <2>1. LoopsOn(r, p) /\ Writes(r, {}, FALSE) /\ {} \in SUBSET Cause
    BY <1>3 DEF LoopStep, LoopsOn
  <2>2. LocalsOK' /\ OthersSame(r) /\ at' = at /\ todo'[r] = todo[r] \ {p}
        /\ operator' = operator /\ seenRows' = seenRows /\ HistoryOK'
    BY <1>1, <2>1, LoopFacts, WritesType
  <2>3. TypeOK' /\ contract' # NoRow
    BY <2>2, NoRowAssumption DEF TypeOK, LocalsOK, HistoryOK, RowsOK
  <2>4. StateSeen(r)'
    BY <1>1, <1>3, <2>2 DEF StateSeen, Loaded
  <2>5. r \notin stale => Fresh(r)'
    BY <2>1, <2>2 DEF Fresh, SumsKnown
  <2> QED
    BY <2>1, <2>2, <2>3, <2>4, <2>5, WriteKeeps
<1> QED
  BY <1>2, <1>3

(* The statements.                                                         *)
LEMMA ContractUpdated ==
  ASSUME RowsOK, NEW row \in ContractRow, UpdateContract(row)
  PROVE  /\ contract' \in ContractRow \cup {Deleted}
         /\ contract \in ContractRow => contract' = row
  BY NoRowAssumption DEF RowsOK, UpdateContract

(* contractRole.update().                                                  *)
LEMMA RoleUpdated ==
  ASSUME RowsOK, NEW p \in Role, NEW row \in RoleRow, UpdateRole(p, row)
  PROVE  /\ roleRow' \in [Role -> RoleRow \cup {NoRow}]
         /\ Members' = Members
         /\ p \in Members => roleRow' = [roleRow EXCEPT ![p] = row]
<1>1. row # NoRow
  BY NoRowAssumption
<1>2. roleRow' \in [Role -> RoleRow \cup {NoRow}]
  BY DEF RowsOK, UpdateRole
<1>3. Members' = Members
  BY <1>1 DEF RowsOK, UpdateRole, Members
<1>4. p \in Members => roleRow' = [roleRow EXCEPT ![p] = row]
  BY DEF UpdateRole, Members
<1> QED
  BY <1>2, <1>3, <1>4

(* A write to the contract alone that keeps its content, leaves it before  *)
(* confirmation or confirmed, and in force only when it is signed.         *)
LEMMA StatePromises ==
  ASSUME IInv, NEW r \in Request, OthersSame(r), at[r] # "terminateRows",
         contract \in ContractRow, contract' \in ContractRow, contract'.content = contract.content,
         roleRow' = roleRow, signed' = signed, causes \subseteq causes',
         causes' \cap {"overlap", "edited", "late role"} = {} /\ contract'.state \in Past =>
            contract.state \in Past \/ \A p \in Members : roleRow[p].confirmed = 1,
         causes' \cap {"overlap", "removed", "undone"} = {} /\ contract'.state \in InForce =>
            contract.state \in InForce
            \/ \A a \in Alliances : \E p \in RowsOf(a) : roleRow[p].signature = 1,
         contract'.state = Terminating => contract.state = Terminating /\ agreed' = agreed,
         contract'.state = Invalid => contract.state = Invalid /\ agreed' = agreed
  PROVE  Promises'
<1>1. Members' = Members /\ Alliances' = Alliances /\ \A a : RowsOf(a)' = RowsOf(a)
  BY DEF Members, Alliances, RowsOf
<1>2. Confirmed'
  BY <1>1 DEF IInv, Promises, Confirmed, InState
<1>3. TextSigned'
  BY <1>1 DEF IInv, Promises, TextSigned
<1>4. AllSigned'
  BY <1>1 DEF IInv, Promises, AllSigned, InState
<1>5. AgreedCounts'
  BY <1>1, AskingStays DEF IInv, Promises, AgreedCounts, InState
<1>6. AllAgreed'
  BY <1>1 DEF IInv, Promises, AllAgreed, InState, Invalid, Terminating
<1> QED
  BY <1>2, <1>3, <1>4, <1>5, <1>6 DEF Promises

(* The last confirmation: every role has confirmed.                        *)
LEMMA StartKeeps ==
  ASSUME IInv, NEW r \in Request, Start(r) PROVE IInv'
<1>1. /\ at[r] = "start" /\ TypeOK /\ contract # NoRow /\ RowsOK /\ seen[r] \in ContractRow
      /\ r \notin stale => ContractKnown(r) /\ SumsKnown(r)
      /\ Return(r) /\ Writes(r, {}, TRUE) /\ {} \in SUBSET Cause
      /\ roleRow' = roleRow /\ signed' = signed /\ agreed' = agreed
  BY Known, RowsType DEF Start, StateSeen, Loaded, IInv, Unborn, marks
<1> DEFINE row == [seen[r] EXCEPT !.state = NotConfirmed]
<1>2. row \in ContractRow /\ UpdateContract(row)
      /\ row.state = NotConfirmed /\ row.content = seen[r].content
  BY <1>1 DEF Start, ContractRow, NotConfirmed
<1>3. RowsOK' /\ (contract \in ContractRow => contract' = row)
  BY <1>1, <1>2, ContractUpdated DEF RowsOK
<1> HIDE DEF row
<1>4. ASSUME r \notin stale PROVE Promises'
  <2>1. contract \in ContractRow /\ contract.content = seen[r].content
        /\ \A p \in Members : roleRow[p].confirmed = 1
    BY <1>1, <1>4 DEF ContractKnown, SumsKnown, Loaded
  <2>2. OthersSame(r) /\ causes \subseteq causes'
    BY <1>1, ReturnFacts DEF Writes
  <2>3. contract' \in ContractRow /\ contract'.state = NotConfirmed
        /\ contract'.content = contract.content
    BY <2>1, <1>2, <1>3
  <2>4. NotConfirmed \notin InForce \cup {Terminating, Invalid}
    BY DEF InForce, NotConfirmed, Valid, Terminating, Invalid
  <2> QED
    BY <1>1, <2>1, <2>2, <2>3, <2>4, StatePromises
<1> QED
  BY <1>1, <1>3, <1>4, LastKeeps

(* What a call that is to update the contract knows of it.                 *)
LEMMA UpdaterKnows ==
  ASSUME IInv, NEW r \in Request, at[r] \in Loaded
  PROVE  /\ TypeOK /\ contract # NoRow /\ RowsOK /\ seen[r] \in ContractRow /\ at[r] # "idle"
         /\ {} \in SUBSET Cause /\ operator[r] \in Role
         /\ r \notin stale => /\ contract \in ContractRow
                              /\ contract.state = seen[r].state
                              /\ contract.content = seen[r].content
  BY RowsType DEF IInv, Unborn, StateSeen, Fresh, ContractKnown, Loaded

(* The update of sign writes back state and text as they are.              *)
LEMMA BlockKeeps ==
  ASSUME IInv, NEW r \in Request, Block(r) PROVE IInv'
<1> DEFINE row == [seen[r] EXCEPT !.isBlock = 1]
<1>1. /\ at[r] = "block" /\ at[r] \in Loaded /\ UpdateContract(row) /\ StateSeen(r)
      /\ Goto(r, "signSum") /\ Writes(r, {}, FALSE) /\ "signSum" \in Place \ {"idle"}
      /\ roleRow' = roleRow /\ signed' = signed /\ agreed' = agreed
  BY Known DEF Block, Loaded, Place, marks
<1>2. /\ TypeOK /\ RowsOK /\ seen[r] \in ContractRow /\ {} \in SUBSET Cause
      /\ r \notin stale => /\ contract \in ContractRow
                           /\ contract.state = seen[r].state
                           /\ contract.content = seen[r].content
  BY <1>1, UpdaterKnows
<1>3. row \in ContractRow /\ row.state = seen[r].state /\ row.content = seen[r].content
  BY <1>2 DEF ContractRow
<1> HIDE DEF row
<1>4. RowsOK' /\ (contract \in ContractRow => contract' = row)
  BY <1>1, <1>2, <1>3, ContractUpdated DEF RowsOK
<1>5. OthersSame(r) /\ at'[r] = "signSum" /\ seen' = seen /\ operator' = operator
  BY <1>1, <1>2, GotoFacts
<1>6. StateSeen(r)'
  BY <1>1, <1>5 DEF StateSeen
<1>7. ASSUME r \notin stale PROVE Fresh(r)' /\ Promises'
  <2>1. /\ contract' \in ContractRow /\ contract'.state = contract.state
        /\ contract'.content = contract.content /\ causes \subseteq causes'
        /\ contract'.state = seen[r].state /\ contract'.content = seen[r].content
    BY <1>1, <1>2, <1>3, <1>4, <1>7 DEF Writes
  <2>2. Fresh(r)'
    BY <1>5, <2>1 DEF Fresh, ContractKnown, RowsKnown, SumsKnown
  <2>3. Promises'
    BY <1>1, <1>2, <1>5, <1>7, <2>1, StatePromises
  <2> QED
    BY <2>2, <2>3
<1> QED
  BY <1>1, <1>2, <1>4, <1>6, <1>7, OnKeeps

(* So does the one of undoSign.                                            *)
LEMMA UnblockKeeps ==
  ASSUME IInv, NEW r \in Request, Unblock(r) PROVE IInv'
<1> DEFINE row == [seen[r] EXCEPT !.isBlock = 0]
<1>1. /\ at[r] = "unblock" /\ at[r] \in Loaded /\ UpdateContract(row)
      /\ Return(r) /\ Writes(r, {}, TRUE)
      /\ roleRow' = roleRow /\ signed' = signed /\ agreed' = agreed
  BY DEF Unblock, Loaded, marks
<1>2. /\ TypeOK /\ RowsOK /\ seen[r] \in ContractRow /\ {} \in SUBSET Cause
      /\ r \notin stale => /\ contract \in ContractRow
                           /\ contract.state = seen[r].state
                           /\ contract.content = seen[r].content
  BY <1>1, UpdaterKnows
<1>3. row \in ContractRow /\ row.state = seen[r].state /\ row.content = seen[r].content
  BY <1>2 DEF ContractRow
<1> HIDE DEF row
<1>4. RowsOK' /\ (contract \in ContractRow => contract' = row)
  BY <1>1, <1>2, <1>3, ContractUpdated DEF RowsOK
<1>5. OthersSame(r) /\ causes \subseteq causes'
  BY <1>1, <1>2, ReturnFacts DEF Writes
<1>6. ASSUME r \notin stale PROVE Promises'
  <2>1. /\ contract' \in ContractRow /\ contract'.state = contract.state
        /\ contract'.content = contract.content
    BY <1>2, <1>3, <1>4, <1>6
  <2> QED
    BY <1>1, <1>2, <1>5, <1>6, <2>1, StatePromises
<1> QED
  BY <1>1, <1>2, <1>4, <1>6, LastKeeps

(* The last signature: every alliance has signed the present text.         *)
LEMMA ValidateKeeps ==
  ASSUME IInv, NEW r \in Request, Validate(r) PROVE IInv'
<1> DEFINE row == [seen[r] EXCEPT !.isBlock = 1, !.state = Valid]
<1>1. /\ at[r] = "validate" /\ at[r] \in Loaded /\ UpdateContract(row)
      /\ Return(r) /\ Writes(r, {}, TRUE) /\ StateSeen(r)
      /\ r \notin stale => SumsKnown(r)
      /\ roleRow' = roleRow /\ signed' = signed /\ agreed' = agreed
  BY Known DEF Validate, Loaded, marks
<1>2. /\ TypeOK /\ RowsOK /\ seen[r] \in ContractRow /\ {} \in SUBSET Cause
      /\ r \notin stale => /\ contract \in ContractRow
                           /\ contract.state = seen[r].state
                           /\ contract.content = seen[r].content
  BY <1>1, UpdaterKnows
<1>3. row \in ContractRow /\ row.state = Valid /\ row.content = seen[r].content
  <2> DEFINE first == [seen[r] EXCEPT !.isBlock = 1]
  <2>1. first \in ContractRow /\ first.content = seen[r].content
    BY <1>2 DEF ContractRow
  <2>2. row = [first EXCEPT !.state = Valid]
    OBVIOUS
  <2> HIDE DEF first, row
  <2>3. [first EXCEPT !.state = Valid] \in ContractRow
    BY <2>1 DEF ContractRow, Valid
  <2> QED
    BY <2>1, <2>2, <2>3 DEF ContractRow
<1> HIDE DEF row
<1>4. RowsOK' /\ (contract \in ContractRow => contract' = row)
  BY <1>1, <1>2, <1>3, ContractUpdated DEF RowsOK
<1>5. OthersSame(r) /\ causes \subseteq causes'
  BY <1>1, <1>2, ReturnFacts DEF Writes
<1>6. ASSUME r \notin stale PROVE Promises'
  <2>1. /\ contract' \in ContractRow /\ contract'.state = Valid
        /\ contract'.content = contract.content
    BY <1>2, <1>3, <1>4, <1>6
  <2>2. contract.state \in Past /\ \A a \in Alliances : \E p \in RowsOf(a) : roleRow[p].signature = 1
    BY <1>1, <1>2, <1>6 DEF StateSeen, SumsKnown, Past
  <2>3. Valid \notin {Terminating, Invalid}
    BY DEF Valid, Terminating, Invalid
  <2> QED
    BY <1>1, <1>2, <1>5, <1>6, <2>1, <2>2, <2>3, StatePromises
<1> QED
  BY <1>1, <1>2, <1>4, <1>6, LastKeeps

(* A refused termination: the contract is in force and signed as before.   *)
LEMMA ResumeKeeps ==
  ASSUME IInv, NEW r \in Request, Resume(r) PROVE IInv'
<1> DEFINE row == [seen[r] EXCEPT !.state = Valid]
<1>1. /\ at[r] = "resume" /\ at[r] \in Loaded /\ UpdateContract(row)
      /\ Return(r) /\ Writes(r, {}, TRUE) /\ StateSeen(r)
      /\ roleRow' = roleRow /\ signed' = signed /\ agreed' = {}
  BY Known DEF Resume, Loaded
<1>2. /\ TypeOK /\ RowsOK /\ seen[r] \in ContractRow /\ {} \in SUBSET Cause
      /\ r \notin stale => /\ contract \in ContractRow
                           /\ contract.state = seen[r].state
                           /\ contract.content = seen[r].content
  BY <1>1, UpdaterKnows
<1>3. row \in ContractRow /\ row.state = Valid /\ row.content = seen[r].content
  BY <1>2 DEF ContractRow, Valid
<1> HIDE DEF row
<1>4. RowsOK' /\ (contract \in ContractRow => contract' = row)
  BY <1>1, <1>2, <1>3, ContractUpdated DEF RowsOK
<1>5. OthersSame(r) /\ causes \subseteq causes'
  BY <1>1, <1>2, ReturnFacts DEF Writes
<1>6. ASSUME r \notin stale PROVE Promises'
  <2>1. /\ contract' \in ContractRow /\ contract'.state = Valid
        /\ contract'.content = contract.content
    BY <1>2, <1>3, <1>4, <1>6
  <2>2. contract.state \in Past /\ contract.state \in InForce
    BY <1>1, <1>2, <1>6 DEF StateSeen, Past, InForce
  <2>3. Valid \notin {Terminating, Invalid}
    BY DEF Valid, Terminating, Invalid
  <2> QED
    BY <1>1, <1>2, <1>5, <1>6, <2>1, <2>2, <2>3, StatePromises
<1> QED
  BY <1>1, <1>2, <1>4, <1>6, LastKeeps

(* editContract: the text changes; with a signature under the old one, or  *)
(* from another state, the cause is noted.                                 *)
LEMMA EditKeeps ==
  ASSUME IInv, NEW r \in Request, NEW text \in Content, Edit(r, text) PROVE IInv'
<1> DEFINE row == [seen[r] EXCEPT !.content = text, !.state = NotConfirmed]
<1> DEFINE more == IF \/ seen[r].state # NotConfirmed
                      \/ \E p \in Members : roleRow[p].signature = 1
                   THEN {"edited"} ELSE {}
<1>1. /\ at[r] = "edit" /\ at[r] \in Loaded /\ UpdateContract(row)
      /\ Return(r) /\ Writes(r, more, TRUE) /\ more \in SUBSET Cause
      /\ roleRow' = roleRow /\ signed' = signed /\ agreed' = agreed
  BY DEF Edit, Loaded, Cause, marks
<1>2. /\ TypeOK /\ RowsOK /\ seen[r] \in ContractRow
      /\ r \notin stale => /\ contract \in ContractRow
                           /\ contract.state = seen[r].state
                           /\ contract.content = seen[r].content
  BY <1>1, UpdaterKnows
<1>3. row \in ContractRow /\ row.state = NotConfirmed /\ row.content = text
  <2> DEFINE first == [seen[r] EXCEPT !.content = text]
  <2>1. first \in ContractRow /\ first.content = text
    BY <1>2 DEF ContractRow
  <2>2. row = [first EXCEPT !.state = NotConfirmed]
    OBVIOUS
  <2> HIDE DEF first, row
  <2>3. [first EXCEPT !.state = NotConfirmed] \in ContractRow
    BY <2>1 DEF ContractRow, NotConfirmed
  <2> QED
    BY <2>1, <2>2, <2>3 DEF ContractRow
<1> HIDE DEF row
<1>4. RowsOK' /\ (contract \in ContractRow => contract' = row)
  BY <1>1, <1>2, <1>3, ContractUpdated DEF RowsOK
<1>5. causes \cup more \subseteq causes'
  BY <1>1 DEF Writes
<1>6. ASSUME r \notin stale PROVE Promises'
  <2>1. contract \in ContractRow /\ contract' \in ContractRow /\ contract'.state = NotConfirmed
    BY <1>2, <1>3, <1>4, <1>6
  <2>2. Members' = Members /\ NotConfirmed \notin InForce \cup {Terminating, Invalid}
    BY <1>1 DEF Members, InForce, NotConfirmed, Valid, Terminating, Invalid
  <2>3. "edited" \notin causes' =>
           contract.state = NotConfirmed /\ \A p \in Members : roleRow[p].signature # 1
    BY <1>2, <1>5, <1>6
  <2> HIDE DEF more
  <2>4. Confirmed'
    BY <1>1, <1>5, <2>1, <2>2, <2>3 DEF IInv, Promises, Confirmed, InState, Past
  <2>5. TextSigned'
    BY <1>1, <2>2, <2>3 DEF TextSigned
  <2>6. AllSigned' /\ AgreedCounts' /\ AllAgreed'
    BY <2>1, <2>2 DEF AllSigned, AgreedCounts, AllAgreed, InState
  <2> QED
    BY <2>4, <2>5, <2>6 DEF Promises
<1> HIDE DEF more
<1> QED
  BY <1>1, <1>2, <1>4, <1>6, LastKeeps

(* The operator agrees by asking; every row is still to be asked.          *)
LEMMA TerminateContractKeeps ==
  ASSUME IInv, NEW r \in Request, TerminateContract(r) PROVE IInv'
<1> DEFINE row == [seen[r] EXCEPT !.state = Terminating]
<1>1. /\ at[r] = "terminateContract" /\ at[r] \in Loaded /\ UpdateContract(row) /\ StateSeen(r)
      /\ r \notin stale => RowsKnown(r)
      /\ roleRow' = roleRow /\ signed' = signed /\ agreed' = {operator[r]}
  BY Known DEF TerminateContract, Loaded
<1>2. /\ TypeOK /\ RowsOK /\ seen[r] \in ContractRow /\ {} \in SUBSET Cause
      /\ operator[r] \in Role /\ at[r] # "idle"
      /\ r \notin stale => /\ contract \in ContractRow
                           /\ contract.state = seen[r].state
                           /\ contract.content = seen[r].content
  BY <1>1, UpdaterKnows
<1>3. row \in ContractRow /\ row.state = Terminating /\ row.content = seen[r].content
  BY <1>2 DEF ContractRow, Terminating
<1> HIDE DEF row
<1>4. RowsOK' /\ (contract \in ContractRow => contract' = row)
  BY <1>1, <1>2, <1>3, ContractUpdated DEF RowsOK
<1>5. ASSUME r \notin stale, causes \subseteq causes', todo[r] = {} \/ (at'[r] = "terminateRows" /\ todo' = todo)
      PROVE  Promises'
  <2>1. /\ contract \in ContractRow /\ contract' \in ContractRow /\ contract'.state = Terminating
        /\ contract'.content = contract.content /\ contract.state = Valid
        /\ todo[r] = Members
    BY <1>1, <1>2, <1>3, <1>4, <1>5 DEF StateSeen, RowsKnown
  <2>2. Members' = Members /\ Alliances' = Alliances /\ \A a : RowsOf(a)' = RowsOf(a)
    BY <1>1 DEF Members, Alliances, RowsOf
  <2>3. Confirmed'
    BY <1>1, <1>5, <2>1, <2>2 DEF IInv, Promises, Confirmed, InState, Past
  <2>4. TextSigned'
    BY <1>1, <1>5, <2>1, <2>2 DEF IInv, Promises, TextSigned
  <2>5. AllSigned'
    BY <1>1, <1>5, <2>1, <2>2 DEF IInv, Promises, AllSigned, InState, InForce
  <2>6. AgreedCounts'
    BY <1>1, <1>5, <2>1, <2>2 DEF AgreedCounts, Asking
  <2>7. AllAgreed'
    BY <2>1 DEF AllAgreed, InState, Terminating, Invalid
  <2> QED
    BY <2>3, <2>4, <2>5, <2>6, <2>7 DEF Promises
<1>6. CASE todo[r] = {}
  <2>1. Return(r) /\ Writes(r, {}, TRUE) /\ causes \subseteq causes'
    BY <1>6 DEF TerminateContract, Writes
  <2> QED
    BY <1>2, <1>4, <1>5, <1>6, <2>1, LastKeeps
<1>7. CASE todo[r] # {}
  <2>1. Goto(r, "terminateRows") /\ Writes(r, {}, FALSE) /\ causes \subseteq causes'
        /\ "terminateRows" \in Place \ {"idle"}
    BY <1>7 DEF TerminateContract, Writes, Place
  <2>2. /\ at'[r] = "terminateRows" /\ todo' = todo /\ operator' = operator
        /\ seenRows' = seenRows
    BY <1>2, <2>1, GotoFacts
  <2>3. StateSeen(r)'
    BY <1>1, <1>2, <1>7, <2>2 DEF StateSeen, Loaded
  <2>4. ASSUME r \notin stale PROVE Fresh(r)'
    <3>1. contract' \in ContractRow /\ contract'.state = Terminating
      BY <1>2, <1>3, <1>4, <2>4
    <3>2. ContractKnown(r)'
      BY <1>1, <2>2, <3>1 DEF ContractKnown, Loaded, InState
    <3>3. RowsKnown(r)'
      BY <1>1, <2>2, <2>4 DEF RowsKnown, Members
    <3>4. SumsKnown(r)'
      BY <2>2 DEF SumsKnown
    <3> QED
      BY <3>2, <3>3, <3>4 DEF Fresh
  <2> QED
    BY <1>2, <1>4, <1>5, <2>1, <2>2, <2>3, <2>4, OnKeeps
<1> QED
  BY <1>6, <1>7

(* The last agreement: nobody is being asked, since only a call that has   *)
(* written asks, and beside it this one would be stale.                    *)
LEMMA EndKeeps ==
  ASSUME IInv, NEW r \in Request, End(r) PROVE IInv'
<1> DEFINE row == [seen[r] EXCEPT !.state = Invalid]
<1>1. /\ at[r] = "end" /\ at[r] \in Loaded /\ UpdateContract(row)
      /\ Return(r) /\ Writes(r, {}, TRUE) /\ StateSeen(r)
      /\ r \notin stale => SumsKnown(r)
      /\ roleRow' = roleRow /\ signed' = signed /\ agreed' = agreed
  BY Known DEF End, Loaded, marks
<1>2. /\ TypeOK /\ RowsOK /\ seen[r] \in ContractRow /\ {} \in SUBSET Cause
      /\ r \notin stale => /\ contract \in ContractRow
                           /\ contract.state = seen[r].state
                           /\ contract.content = seen[r].content
  BY <1>1, UpdaterKnows
<1>3. row \in ContractRow /\ row.state = Invalid /\ row.content = seen[r].content
  BY <1>2 DEF ContractRow, Invalid
<1> HIDE DEF row
<1>4. RowsOK' /\ (contract \in ContractRow => contract' = row)
  BY <1>1, <1>2, <1>3, ContractUpdated DEF RowsOK
<1>5. causes \subseteq causes'
  BY <1>1 DEF Writes
<1>6. ASSUME r \notin stale PROVE Promises'
  <2>1. /\ contract \in ContractRow /\ contract' \in ContractRow /\ contract'.state = Invalid
        /\ contract'.content = contract.content /\ contract.state = Terminating
    BY <1>1, <1>2, <1>3, <1>4, <1>6 DEF StateSeen
  <2>2. Members' = Members /\ Alliances' = Alliances /\ \A a : RowsOf(a)' = RowsOf(a)
    BY <1>1 DEF Members, Alliances, RowsOf
  <2>3. Confirmed'
    BY <1>1, <1>5, <2>1, <2>2 DEF IInv, Promises, Confirmed, InState, Past
  <2>4. TextSigned'
    BY <1>1, <1>5, <2>1, <2>2 DEF IInv, Promises, TextSigned
  <2>5. AllSigned'
    BY <1>1, <1>5, <2>1, <2>2 DEF IInv, Promises, AllSigned, InState, InForce
  <2>6. AgreedCounts'
    BY <2>1 DEF AgreedCounts, InState, Terminating, Invalid
  <2>7. AllAgreed'
    <3> SUFFICES ASSUME causes' \cap {"overlap", "failure", "removed"} = {}, NEW a \in Alliances
                 PROVE  \E p \in RowsOf(a) : roleRow[p].terminate = 1 /\ p \in agreed
      BY <1>1, <2>2 DEF AllAgreed
    <3>1. PICK p \in RowsOf(a) : roleRow[p].terminate = 1
      BY <1>1, <1>6 DEF SumsKnown
    <3>2. causes \cap {"overlap", "failure"} = {} /\ p \in Members
      BY <1>5, <3>1 DEF RowsOf
    <3>3. p \in agreed \/ Asking(p)
      BY <2>1, <3>1, <3>2 DEF IInv, Promises, AgreedCounts, InState
    <3>4. ASSUME NEW s \in Request, at[s] = "terminateRows" PROVE FALSE
      <4>1. s \in wrote /\ s # r /\ at[r] # "idle"
        BY <1>1, <3>4 DEF IInv, OneWriter
      <4> QED
        BY <1>6, <3>2, <4>1 DEF IInv, OneWriter
    <3> QED
      BY <3>1, <3>3, <3>4 DEF Asking
  <2> QED
    BY <2>3, <2>4, <2>5, <2>6, <2>7 DEF Promises
<1> QED
  BY <1>1, <1>2, <1>4, <1>6, LastKeeps

(* Where there is no contract in force and no row, nothing is promised.    *)
LEMMA DeleteContractKeeps ==
  ASSUME IInv, NEW r \in Request, DeleteContract(r) PROVE IInv'
<1>1. /\ at[r] = "deleteContract" /\ at[r] \in Loaded /\ contract' = Deleted /\ StateSeen(r)
      /\ Goto(r, "deleteRows") /\ Writes(r, {}, FALSE) /\ "deleteRows" \in Place \ {"idle"}
      /\ roleRow' = roleRow /\ signed' = signed /\ agreed' = agreed
  BY Known DEF DeleteContract, Loaded, Place, marks
<1>2. TypeOK /\ RowsOK /\ {} \in SUBSET Cause /\ operator[r] \in Role
  BY <1>1, UpdaterKnows
<1>3. RowsOK'
  BY <1>1, <1>2 DEF RowsOK
<1>4. at'[r] = "deleteRows" /\ operator' = operator /\ todo' = todo
  BY <1>1, <1>2, GotoFacts
<1>5. StateSeen(r)'
  BY <1>1, <1>2, <1>4 DEF StateSeen, Loaded
<1>6. Fresh(r)'
  BY <1>1, <1>4 DEF Fresh, ContractKnown, RowsKnown, SumsKnown, Loaded
<1>7. Promises'
  <2>1. contract' \notin ContractRow
    BY <1>1, NoRowAssumption
  <2> QED
    BY <2>1 DEF Promises, Confirmed, TextSigned, AllSigned, AgreedCounts, AllAgreed, InState
<1> QED
  BY <1>1, <1>2, <1>3, <1>5, <1>6, <1>7, OnKeeps

(* A new contract has no rows.                                             *)
LEMMA AddContractKeeps ==
  ASSUME IInv, NEW r \in Request, NEW roles \in SUBSET Role, AddContract(r, roles) PROVE IInv'
<1>1. /\ at[r] = "idle" /\ contract = NoRow /\ roles # {} /\ wrote = {} /\ Members = {}
      /\ contract' = [state |-> Starting, content |-> Blank, isBlock |-> 0]
      /\ at' = [at EXCEPT ![r] = "insertRole"] /\ todo' = [todo EXCEPT ![r] = roles]
      /\ operator' = operator /\ other' = other /\ seen' = seen /\ seenRows' = seenRows
      /\ Writes(r, {}, FALSE) /\ {} \in SUBSET Cause /\ TypeOK
      /\ roleRow' = roleRow /\ signed' = signed /\ agreed' = agreed
  BY DEF AddContract, IInv, Unborn, marks
<1>2. contract' \in ContractRow /\ contract'.state = Starting
  BY <1>1, RoleAssumption DEF ContractRow, Starting
<1>3. "insertRole" \in Place /\ HistoryOK'
  BY <1>1, WritesType DEF Place
<1>4. TypeOK'
  BY <1>1, <1>2, <1>3 DEF TypeOK, HistoryOK
<1>5. contract' # NoRow /\ at'[r] = "insertRole" /\ todo'[r] = roles /\ OthersSame(r)
  BY <1>1, <1>2, NoRowAssumption DEF TypeOK, OthersSame
<1>6. StateSeen(r)'
  BY <1>1, <1>5 DEF StateSeen, Loaded
<1>7. Fresh(r)'
  BY <1>2, <1>5 DEF Fresh, ContractKnown, RowsKnown, SumsKnown, Loaded, InState
<1>8. Promises'
  <2>1. Members' = {} /\ Alliances' = {}
    BY <1>1 DEF Members, Alliances
  <2> QED
    BY <2>1 DEF Promises, Confirmed, TextSigned, AllSigned, AgreedCounts, AllAgreed
<1> QED
  BY <1>1, <1>4, <1>5, <1>6, <1>7, <1>8, WriteKeeps

-----------------------------------------------------------------------------
(* The steps that write a role row.                                        *)

(* A contract at Starting, or none, promises only the text of signatures.  *)
LEMMA StartingPromises ==
  ASSUME InState({Starting})' \/ contract' \notin ContractRow, TextSigned'
  PROVE  Promises'
<1>1. ~InState(Past)' /\ ~InState(InForce)' /\ ~InState({Terminating})' /\ ~InState({Invalid})'
  BY DEF InState, Past, InForce, Starting, NotConfirmed, Valid, Terminating, Invalid
<1> QED
  BY <1>1 DEF Promises, Confirmed, AllSigned, AgreedCounts, AllAgreed

(* A new row has neither signed nor agreed.                                *)
LEMMA InsertCreatorKeeps ==
  ASSUME IInv, NEW r \in Request, InsertCreator(r) PROVE IInv'
<1>1. /\ at[r] = "insertRole" /\ StateSeen(r) /\ TypeOK /\ contract # NoRow /\ RowsOK
      /\ r \notin stale => ContractKnown(r)
      /\ roleRow' = [roleRow EXCEPT ![Creator] = NewRow(1)]
      /\ Goto(r, "insertRoles") /\ Writes(r, {}, FALSE) /\ "insertRoles" \in Place \ {"idle"}
      /\ {} \in SUBSET Cause
      /\ contract' = contract /\ signed' = signed /\ agreed' = agreed
  BY Known, RowsType DEF InsertCreator, Place, marks, IInv, Unborn
<1>2. NewRow(1) \in RoleRow /\ NewRow(1).signature = 0 /\ NewRow(1) # NoRow
  BY NoRowAssumption DEF NewRow, RoleRow
<1>3. RowsOK'
  BY <1>1, <1>2, RoleAssumption DEF RowsOK
<1>4. at'[r] = "insertRoles" /\ todo' = todo
  BY <1>1, GotoFacts
<1>5. StateSeen(r)'
  BY <1>1, <1>4 DEF StateSeen, Loaded
<1>6. ASSUME r \notin stale PROVE Fresh(r)' /\ Promises'
  <2>1. InState({Starting})'
    BY <1>1, <1>6 DEF ContractKnown, InState
  <2>2. Fresh(r)'
    BY <1>4, <2>1 DEF Fresh, ContractKnown, RowsKnown, SumsKnown, Loaded
  <2>3. TextSigned'
    <3>1. \A p \in Members' : roleRow'[p].signature = 1 => p \in Members /\ roleRow[p].signature = 1
      BY <1>1, <1>2, RoleAssumption DEF RowsOK, Members
    <3>2. causes \subseteq causes'
      BY <1>1 DEF Writes
    <3> QED
      BY <1>1, <3>1, <3>2 DEF IInv, Promises, TextSigned
  <2> QED
    BY <2>1, <2>2, <2>3, StartingPromises
<1> QED
  BY <1>1, <1>3, <1>5, <1>6, OnKeeps

(* Nor have the rows of the others.                                        *)
LEMMA InsertMemberKeeps ==
  ASSUME IInv, NEW r \in Request, InsertMember(r) PROVE IInv'
<1> DEFINE p == NextOf(r)
<1>1. /\ at[r] = "insertRoles" /\ StateSeen(r) /\ TypeOK /\ contract # NoRow /\ RowsOK
      /\ r \notin stale => ContractKnown(r)
      /\ roleRow' = [roleRow EXCEPT ![p] = NewRow(0)] /\ LoopStep(r, p)
      /\ contract' = contract /\ signed' = signed /\ agreed' = agreed
  BY Known, RowsType DEF InsertMember, LoopStep, marks, IInv, Unborn
<1>2. NewRow(0) \in RoleRow /\ NewRow(0).signature = 0 /\ NewRow(0) # NoRow
  BY NoRowAssumption DEF NewRow, RoleRow
<1>3. p \in todo[r] /\ p \in Role
  BY <1>1 DEF StateSeen, NextOf, TypeOK
<1> HIDE DEF p
<1>4. RowsOK'
  BY <1>1, <1>2, <1>3 DEF RowsOK
<1>5. causes \subseteq causes'
  BY <1>1 DEF LoopStep, Writes
<1>6. ASSUME r \notin stale PROVE (LoopsOn(r, p) => ContractKnown(r)' /\ RowsKnown(r)') /\ Promises'
  <2>1. InState({Starting})'
    BY <1>1, <1>6 DEF ContractKnown, InState
  <2>2. LoopsOn(r, p) => ContractKnown(r)' /\ RowsKnown(r)'
    BY <1>1, <2>1 DEF LoopsOn, ContractKnown, RowsKnown, Loaded
  <2>3. TextSigned'
    <3>1. \A q \in Members' : roleRow'[q].signature = 1 => q \in Members /\ roleRow[q].signature = 1
      BY <1>1, <1>2, <1>3 DEF RowsOK, Members
    <3> QED
      BY <1>1, <1>5, <3>1 DEF IInv, Promises, TextSigned
  <2> QED
    BY <2>1, <2>2, <2>3, StartingPromises
<1> QED
  BY <1>1, <1>3, <1>4, <1>6, LoopKeeps

(* The rows of a deleted contract.                                         *)
LEMMA DeleteRowKeeps ==
  ASSUME IInv, NEW r \in Request, DeleteRow(r) PROVE IInv'
<1> DEFINE p == NextOf(r)
<1>1. /\ at[r] = "deleteRows" /\ StateSeen(r) /\ TypeOK /\ contract # NoRow /\ RowsOK
      /\ r \notin stale => ContractKnown(r)
      /\ roleRow' = [roleRow EXCEPT ![p] = NoRow] /\ LoopStep(r, p)
      /\ contract' = contract /\ signed' = signed /\ agreed' = agreed
  BY Known, RowsType DEF DeleteRow, LoopStep, marks, IInv, Unborn
<1>2. p \in todo[r] /\ p \in Role
  BY <1>1 DEF StateSeen, NextOf, TypeOK
<1> HIDE DEF p
<1>3. RowsOK'
  BY <1>1, <1>2 DEF RowsOK
<1>4. ASSUME r \notin stale PROVE (LoopsOn(r, p) => ContractKnown(r)' /\ RowsKnown(r)') /\ Promises'
  <2>1. contract = Deleted /\ contract' \notin ContractRow
    BY <1>1, <1>4, NoRowAssumption DEF ContractKnown
  <2>2. LoopsOn(r, p) => ContractKnown(r)' /\ RowsKnown(r)'
    BY <1>1, <2>1 DEF LoopsOn, ContractKnown, RowsKnown, Loaded
  <2>3. TextSigned'
    BY <2>1 DEF TextSigned
  <2> QED
    BY <2>1, <2>2, <2>3, StartingPromises
<1> QED
  BY <1>1, <1>2, <1>3, <1>4, LoopKeeps

(* addAddition writes back, unless stale, what is there.                   *)
LEMMA AdditionRowKeeps ==
  ASSUME IInv, NEW r \in Request, AdditionRow(r) PROVE IInv'
<1> DEFINE p == NextOf(r)
<1>1. /\ at[r] = "addition" /\ StateSeen(r) /\ TypeOK /\ contract # NoRow /\ RowsOK
      /\ r \notin stale => RowsKnown(r)
      /\ UpdateRole(p, seenRows[r][p]) /\ LoopStep(r, p)
      /\ contract' = contract /\ signed' = signed /\ agreed' = agreed
  BY Known, RowsType DEF AdditionRow, LoopStep, marks, IInv, Unborn
<1>2. p \in todo[r] /\ p \in Role /\ seenRows[r][p] \in RoleRow
  BY <1>1 DEF StateSeen, NextOf, TypeOK
<1> HIDE DEF p
<1>3. RowsOK' /\ (p \in Members => roleRow' = [roleRow EXCEPT ![p] = seenRows[r][p]])
  BY <1>1, <1>2, RoleUpdated DEF RowsOK
<1>4. causes \subseteq causes' /\ (LoopsOn(r, p) \/ Return(r) => OthersSame(r))
  BY <1>1, ReturnFacts, LoopFacts, <1>2 DEF LoopStep, Writes
<1>5. ASSUME r \notin stale
      PROVE  /\ LoopsOn(r, p) => ContractKnown(r)' /\ RowsKnown(r)'
             /\ LoopsOn(r, p) \/ (todo[r] = {p} /\ Return(r)) => Promises'
  <2>1. roleRow' = roleRow
    BY <1>1, <1>2, <1>3, <1>5 DEF RowsKnown, RowsOK
  <2>2. ASSUME LoopsOn(r, p) PROVE ContractKnown(r)' /\ RowsKnown(r)'
    <3>1. at' = at /\ todo'[r] = todo[r] \ {p} /\ seenRows' = seenRows
      BY <1>1, <2>2, LoopFacts
    <3>2. RowsKnown(r)'
      BY <1>1, <1>5, <2>1, <3>1 DEF RowsKnown, Members
    <3> QED
      BY <1>1, <3>1, <3>2 DEF ContractKnown, Loaded
  <2>3. ASSUME LoopsOn(r, p) \/ Return(r) PROVE Promises'
    BY <1>1, <1>4, <2>1, <2>3, PromisesStay DEF IInv, rows, marks
  <2> QED
    BY <2>2, <2>3
<1> QED
  BY <1>1, <1>2, <1>3, <1>5, LoopKeeps

(* Every row is asked anew; the operator, who has agreed, counts.          *)
LEMMA TerminateRowKeeps ==
  ASSUME IInv, NEW r \in Request, TerminateRow(r) PROVE IInv'
<1> DEFINE p == NextOf(r)
<1> DEFINE row == Asked(r, p)
<1>1. /\ at[r] = "terminateRows" /\ StateSeen(r) /\ TypeOK /\ contract # NoRow /\ RowsOK
      /\ r \notin stale => ContractKnown(r) /\ RowsKnown(r)
      /\ UpdateRole(p, row) /\ LoopStep(r, p)
      /\ contract' = contract /\ signed' = signed /\ agreed' = agreed
  BY Known, RowsType DEF TerminateRow, LoopStep, marks, IInv, Unborn
<1>2. p \in todo[r] /\ p \in Role /\ seenRows[r][p] \in RoleRow
  BY <1>1 DEF StateSeen, NextOf, TypeOK
<1>3. /\ row \in RoleRow /\ row.terminate = (IF p = operator[r] THEN 1 ELSE 0)
      /\ row.confirmed = seenRows[r][p].confirmed /\ row.signature = seenRows[r][p].signature
  BY <1>2 DEF Asked, RoleRow
<1> HIDE DEF p, row
<1>4. RowsOK' /\ Members' = Members /\ (p \in Members => roleRow' = [roleRow EXCEPT ![p] = row])
  BY <1>1, <1>2, <1>3, RoleUpdated DEF RowsOK
<1>5. causes \subseteq causes'
  BY <1>1 DEF LoopStep, Writes
<1>6. ASSUME r \notin stale
      PROVE  /\ LoopsOn(r, p) => ContractKnown(r)' /\ RowsKnown(r)'
             /\ LoopsOn(r, p) \/ (todo[r] = {p} /\ Return(r)) => Promises'
  <2>1. /\ p \in Members /\ seenRows[r][p] = roleRow[p] /\ InState({Terminating})
        /\ operator[r] \in agreed
    BY <1>1, <1>2, <1>6 DEF RowsKnown, ContractKnown
  <2>2. \A q \in Role : roleRow'[q] = IF q = p THEN row ELSE roleRow[q]
    BY <1>4, <2>1 DEF RowsOK
  <2>3. \A q \in Role : roleRow'[q].confirmed = roleRow[q].confirmed
                        /\ roleRow'[q].signature = roleRow[q].signature
    BY <1>3, <2>1, <2>2
  <2>4. /\ Members' = Members /\ Alliances' = Alliances /\ Members \subseteq Role
        /\ \A a : RowsOf(a)' = RowsOf(a)
        /\ \A a : RowsOf(a) \subseteq Role
    BY <1>4 DEF Members, Alliances, RowsOf
  <2>5. ASSUME LoopsOn(r, p) PROVE ContractKnown(r)' /\ RowsKnown(r)'
    <3>1. at' = at /\ todo'[r] = todo[r] \ {p} /\ seenRows' = seenRows /\ operator' = operator
      BY <1>1, <2>5, LoopFacts
    <3>2. RowsKnown(r)'
      BY <1>1, <1>6, <2>2, <2>4, <3>1 DEF RowsKnown
    <3> QED
      BY <1>1, <2>1, <3>1, <3>2 DEF ContractKnown, Loaded, InState
  <2>6. ASSUME LoopsOn(r, p) \/ (todo[r] = {p} /\ Return(r)) PROVE Promises'
    <3>1. Confirmed'
      BY <1>1, <1>5, <2>3, <2>4 DEF IInv, Promises, Confirmed, InState
    <3>2. TextSigned'
      BY <1>1, <1>5, <2>3, <2>4 DEF IInv, Promises, TextSigned
    <3>3. AllSigned'
      BY <1>1, <1>5, <2>3, <2>4 DEF IInv, Promises, AllSigned, InState
    <3>4. AgreedCounts'
      <4> SUFFICES ASSUME causes' \cap {"overlap", "failure"} = {}, NEW q \in Members,
                          roleRow'[q].terminate = 1
                   PROVE  q \in agreed \/ Asking(q)'
        BY <1>1, <2>4 DEF AgreedCounts
      <4>1. CASE q = p
        BY <1>3, <2>1, <2>2, <2>4, <4>1
      <4>2. CASE q # p
        <5>1. q \in agreed \/ Asking(q)
          BY <1>5, <2>1, <2>2, <2>4, <4>2 DEF IInv, Promises, AgreedCounts
        <5>2. ASSUME NEW s \in Request, at[s] = "terminateRows", q \in todo[s] PROVE Asking(q)'
          <6>1. CASE LoopsOn(r, p)
            <7>1. at' = at /\ todo'[r] = todo[r] \ {p} /\ OthersSame(r)
              BY <1>1, <6>1, LoopFacts
            <7> QED
              BY <4>2, <5>2, <7>1 DEF Asking, OthersSame
          <6>2. CASE todo[r] = {p} /\ Return(r)
            <7>1. OthersSame(r) /\ s # r
              BY <1>1, <4>2, <5>2, <6>2, ReturnFacts
            <7> QED
              BY <5>2, <7>1 DEF Asking, OthersSame
          <6> QED
            BY <2>6, <6>1, <6>2
        <5> QED
          BY <5>1, <5>2 DEF Asking
      <4> QED
        BY <4>1, <4>2
    <3>5. AllAgreed'
      BY <1>1, <2>1 DEF AllAgreed, InState, Terminating, Invalid
    <3> QED
      BY <3>1, <3>2, <3>3, <3>4, <3>5 DEF Promises
  <2> QED
    BY <2>5, <2>6
<1> QED
  BY <1>1, <1>2, <1>4, <1>6, LoopKeeps

(* A call that updates the row of its operator.                            *)
LEMMA OwnKnown ==
  ASSUME IInv, NEW r \in Request,
         at[r] \in {"confirmRow", "signRow", "undoRow", "agreeRow", "refuseTerminateRow"},
         NEW row \in RoleRow, UpdateRole(operator[r], row),
         contract' = contract
  PROVE  /\ TypeOK /\ contract # NoRow /\ contract' \in ContractRow \cup {Deleted}
         /\ roleRow' \in [Role -> RoleRow \cup {NoRow}]
         /\ seen[r] \in ContractRow /\ operator[r] \in Role /\ OwnRow(r) \in RoleRow
         /\ at[r] \in Loaded
         /\ Members' = Members /\ Alliances' = Alliances /\ \A a : RowsOf(a)' = RowsOf(a)
         /\ Members \subseteq Role /\ \A a : RowsOf(a) \subseteq Role
         /\ r \notin stale =>
              /\ operator[r] \in Members /\ OwnRow(r) = roleRow[operator[r]]
              /\ \A q \in Role : roleRow'[q] = IF q = operator[r] THEN row ELSE roleRow[q]
              /\ contract \in ContractRow
              /\ contract.state = seen[r].state /\ contract.content = seen[r].content
<1>1. at[r] \in Loaded /\ StateSeen(r)
  BY DEF Loaded, IInv
<1>2. /\ TypeOK /\ contract # NoRow /\ RowsOK /\ seen[r] \in ContractRow /\ operator[r] \in Role
      /\ r \notin stale => contract \in ContractRow /\ contract.state = seen[r].state
                           /\ contract.content = seen[r].content
  BY <1>1, UpdaterKnows
<1>3. OwnRow(r) \in RoleRow
  BY <1>1 DEF StateSeen
<1>4. r \notin stale => operator[r] \in Members /\ OwnRow(r) = roleRow[operator[r]]
  BY DEF IInv, Fresh, RowsKnown
<1>5. /\ roleRow' \in [Role -> RoleRow \cup {NoRow}] /\ Members' = Members
      /\ operator[r] \in Members => roleRow' = [roleRow EXCEPT ![operator[r]] = row]
  BY <1>2, RoleUpdated
<1>6. /\ Alliances' = Alliances /\ Members \subseteq Role
      /\ \A a : RowsOf(a)' = RowsOf(a)
      /\ \A a : RowsOf(a) \subseteq Role
  BY <1>5 DEF Members, Alliances, RowsOf
<1>7. contract' \in ContractRow \cup {Deleted}
  BY <1>2 DEF RowsOK
<1>8. r \notin stale =>
         \A q \in Role : roleRow'[q] = IF q = operator[r] THEN row ELSE roleRow[q]
  BY <1>2, <1>4, <1>5 DEF TypeOK
<1> QED
  BY <1>1, <1>2, <1>3, <1>4, <1>5, <1>6, <1>7, <1>8

(* A confirmation; the last one has seen all the others.                   *)
LEMMA ConfirmRowKeeps ==
  ASSUME IInv, NEW r \in Request, ConfirmRow(r) PROVE IInv'
<1> DEFINE row == [OwnRow(r) EXCEPT !.confirmed = 1]
<1>1. /\ at[r] = "confirmRow" /\ StateSeen(r) /\ UpdateRole(operator[r], row)
      /\ contract' = contract /\ signed' = signed /\ agreed' = agreed
      /\ OwnRow(r) \in RoleRow /\ {} \in SUBSET Cause
  BY Known DEF ConfirmRow, marks, StateSeen
<1>2. row \in RoleRow /\ row.confirmed = 1 /\ row.signature = OwnRow(r).signature
      /\ row.terminate = OwnRow(r).terminate
  BY <1>1 DEF RoleRow
<1> HIDE DEF row
<1>3. /\ TypeOK /\ contract # NoRow /\ contract' \in ContractRow \cup {Deleted}
      /\ roleRow' \in [Role -> RoleRow \cup {NoRow}]
      /\ seen[r] \in ContractRow /\ operator[r] \in Role /\ at[r] \in Loaded
      /\ Members' = Members /\ Alliances' = Alliances /\ \A a : RowsOf(a)' = RowsOf(a)
      /\ Members \subseteq Role /\ \A a : RowsOf(a) \subseteq Role
      /\ r \notin stale =>
           /\ operator[r] \in Members /\ OwnRow(r) = roleRow[operator[r]]
           /\ \A q \in Role : roleRow'[q] = IF q = operator[r] THEN row ELSE roleRow[q]
           /\ contract \in ContractRow
           /\ contract.state = seen[r].state /\ contract.content = seen[r].content
  BY <1>1, <1>2, OwnKnown
<1>4. RowsOK'
  BY <1>1, <1>3 DEF RowsOK, TypeOK
<1>5. ASSUME r \notin stale, causes \subseteq causes', OthersSame(r) PROVE Promises'
  <2>1. /\ \A q \in Role : roleRow'[q].signature = roleRow[q].signature
                           /\ roleRow'[q].terminate = roleRow[q].terminate
        /\ \A q \in Role : roleRow[q].confirmed = 1 => roleRow'[q].confirmed = 1
    BY <1>2, <1>3, <1>5
  <2>2. Confirmed'
    BY <1>1, <1>3, <1>5, <2>1 DEF IInv, Promises, Confirmed, InState
  <2>3. TextSigned'
    BY <1>1, <1>3, <1>5, <2>1 DEF IInv, Promises, TextSigned
  <2>4. AllSigned'
    BY <1>1, <1>3, <1>5, <2>1 DEF IInv, Promises, AllSigned, InState
  <2>5. AgreedCounts'
    BY <1>1, <1>3, <1>5, <2>1, AskingStays DEF IInv, Promises, AgreedCounts, InState
  <2>6. AllAgreed'
    BY <1>1, <1>3, <1>5, <2>1 DEF IInv, Promises, AllAgreed, InState
  <2> QED
    BY <2>2, <2>3, <2>4, <2>5, <2>6 DEF Promises
<1>6. CASE IsStart(r)
  <2>1. Goto(r, "start") /\ Writes(r, {}, FALSE) /\ causes \subseteq causes'
        /\ "start" \in Place \ {"idle"}
    BY <1>6 DEF ConfirmRow, Writes, Place
  <2>2. OthersSame(r) /\ at'[r] = "start" /\ seen' = seen /\ operator' = operator
    BY <1>3, <2>1, GotoFacts
  <2>3. StateSeen(r)'
    BY <1>3, <2>2 DEF StateSeen
  <2>4. ASSUME r \notin stale PROVE Fresh(r)'
    <3>1. seenRows[r] = roleRow
      BY <1>1, <2>4, Known DEF RowsKnown
    <3>2. \A q \in Members : roleRow'[q].confirmed = 1
      <4> SUFFICES ASSUME NEW q \in Members PROVE roleRow'[q].confirmed = 1
        OBVIOUS
      <4>1. CASE q = operator[r]
        BY <1>2, <1>3, <2>4, <4>1
      <4>2. CASE q # operator[r]
        <5>1. roleRow[q].confirmed # 0 /\ roleRow[q] \in RoleRow
          BY <1>3, <1>6, <3>1, <4>2 DEF IsStart, Members, TypeOK
        <5> QED
          BY <1>3, <2>4, <4>2, <5>1 DEF RoleRow
      <4> QED
        BY <4>1, <4>2
    <3>3. SumsKnown(r)'
      BY <1>3, <2>2, <3>2 DEF SumsKnown
    <3>4. ContractKnown(r)'
      BY <1>1, <1>3, <2>2, <2>4 DEF ContractKnown
    <3>5. RowsKnown(r)'
      BY <2>2 DEF RowsKnown
    <3> QED
      BY <3>3, <3>4, <3>5 DEF Fresh
  <2> QED
    BY <1>1, <1>4, <1>5, <2>1, <2>2, <2>3, <2>4, OnKeeps
<1>7. CASE ~IsStart(r)
  <2>1. Return(r) /\ Writes(r, {}, TRUE) /\ causes \subseteq causes'
    BY <1>7 DEF ConfirmRow, Writes
  <2>2. OthersSame(r)
    BY <1>3, <2>1, ReturnFacts
  <2> QED
    BY <1>1, <1>4, <1>5, <2>1, <2>2, LastKeeps
<1> QED
  BY <1>6, <1>7

(* A signature under the present text.                                     *)
LEMMA SignRowKeeps ==
  ASSUME IInv, NEW r \in Request, SignRow(r) PROVE IInv'
<1> DEFINE row == [OwnRow(r) EXCEPT !.signature = 1]
<1>1. /\ at[r] = "signRow" /\ StateSeen(r) /\ UpdateRole(operator[r], row)
      /\ contract' = contract /\ agreed' = agreed
      /\ signed' = [signed EXCEPT ![operator[r]] = seen[r].content]
      /\ Goto(r, "block") /\ Writes(r, {}, FALSE) /\ causes \subseteq causes'
      /\ OwnRow(r) \in RoleRow /\ {} \in SUBSET Cause /\ "block" \in Place \ {"idle"}
  BY Known DEF SignRow, StateSeen, Place, Writes
<1>2. row \in RoleRow /\ row.signature = 1 /\ row.confirmed = OwnRow(r).confirmed
      /\ row.terminate = OwnRow(r).terminate
  BY <1>1 DEF RoleRow
<1> HIDE DEF row
<1>3. /\ TypeOK /\ contract # NoRow /\ contract' \in ContractRow \cup {Deleted}
      /\ roleRow' \in [Role -> RoleRow \cup {NoRow}]
      /\ seen[r] \in ContractRow /\ operator[r] \in Role /\ at[r] \in Loaded
      /\ Members' = Members /\ Alliances' = Alliances /\ \A a : RowsOf(a)' = RowsOf(a)
      /\ Members \subseteq Role /\ \A a : RowsOf(a) \subseteq Role
      /\ r \notin stale =>
           /\ operator[r] \in Members /\ OwnRow(r) = roleRow[operator[r]]
           /\ \A q \in Role : roleRow'[q] = IF q = operator[r] THEN row ELSE roleRow[q]
           /\ contract \in ContractRow
           /\ contract.state = seen[r].state /\ contract.content = seen[r].content
  BY <1>1, <1>2, OwnKnown
<1>4. RowsOK'
  <2>1. seen[r].content \in Content
    BY <1>3 DEF ContractRow
  <2> QED
    BY <1>1, <1>3, <2>1 DEF RowsOK, TypeOK
<1>5. OthersSame(r) /\ at'[r] = "block" /\ seen' = seen /\ operator' = operator
  BY <1>1, <1>3, GotoFacts
<1>6. StateSeen(r)'
  BY <1>1, <1>3, <1>5 DEF StateSeen
<1>7. ASSUME r \notin stale PROVE Fresh(r)' /\ Promises'
  <2>1. Fresh(r)'
    BY <1>1, <1>3, <1>5, <1>7 DEF Fresh, ContractKnown, RowsKnown, SumsKnown
  <2>2. /\ \A q \in Role : roleRow'[q].confirmed = roleRow[q].confirmed
                           /\ roleRow'[q].terminate = roleRow[q].terminate
        /\ \A q \in Role \ {operator[r]} : roleRow'[q] = roleRow[q] /\ signed'[q] = signed[q]
        /\ signed'[operator[r]] = contract.content
    BY <1>1, <1>2, <1>3, <1>7 DEF TypeOK
  <2>3. contract.state = NotConfirmed
    BY <1>1, <1>3, <1>7 DEF StateSeen
  <2>4. NotConfirmed \notin InForce \cup {Terminating, Invalid}
    BY DEF InForce, NotConfirmed, Valid, Terminating, Invalid
  <2>5. Confirmed'
    BY <1>1, <1>3, <2>2 DEF IInv, Promises, Confirmed, InState
  <2>6. TextSigned'
    BY <1>1, <1>3, <2>2 DEF IInv, Promises, TextSigned
  <2>7. AllSigned' /\ AgreedCounts' /\ AllAgreed'
    BY <1>1, <2>3, <2>4 DEF AllSigned, AgreedCounts, AllAgreed, InState
  <2> QED
    BY <2>1, <2>5, <2>6, <2>7 DEF Promises
<1> QED
  BY <1>1, <1>4, <1>6, <1>7, OnKeeps

(* A signature undone counts no more; in a termination the cause is noted. *)
LEMMA UndoRowKeeps ==
  ASSUME IInv, NEW r \in Request, UndoRow(r) PROVE IInv'
<1> DEFINE row == [OwnRow(r) EXCEPT !.signature = 0]
<1> DEFINE more == IF seen[r].state \in {Terminating, Invalid} THEN {"undone"} ELSE {}
<1>1. /\ at[r] = "undoRow" /\ StateSeen(r) /\ UpdateRole(operator[r], row)
      /\ contract' = contract /\ agreed' = agreed
      /\ signed' = [signed EXCEPT ![operator[r]] = NoRow]
      /\ Goto(r, "undoSum") /\ Writes(r, more, FALSE) /\ causes \cup more \subseteq causes'
      /\ OwnRow(r) \in RoleRow /\ more \in SUBSET Cause /\ "undoSum" \in Place \ {"idle"}
  BY Known DEF UndoRow, StateSeen, Place, Writes, Cause
<1>2. row \in RoleRow /\ row.signature = 0 /\ row.confirmed = OwnRow(r).confirmed
      /\ row.terminate = OwnRow(r).terminate
  BY <1>1 DEF RoleRow
<1> HIDE DEF row
<1>3. /\ TypeOK /\ contract # NoRow /\ contract' \in ContractRow \cup {Deleted}
      /\ roleRow' \in [Role -> RoleRow \cup {NoRow}]
      /\ seen[r] \in ContractRow /\ operator[r] \in Role /\ at[r] \in Loaded
      /\ Members' = Members /\ Alliances' = Alliances /\ \A a : RowsOf(a)' = RowsOf(a)
      /\ Members \subseteq Role /\ \A a : RowsOf(a) \subseteq Role
      /\ r \notin stale =>
           /\ operator[r] \in Members /\ OwnRow(r) = roleRow[operator[r]]
           /\ \A q \in Role : roleRow'[q] = IF q = operator[r] THEN row ELSE roleRow[q]
           /\ contract \in ContractRow
           /\ contract.state = seen[r].state /\ contract.content = seen[r].content
  BY <1>1, <1>2, OwnKnown
<1>4. RowsOK'
  BY <1>1, <1>3 DEF RowsOK, TypeOK
<1>5. OthersSame(r) /\ at'[r] = "undoSum" /\ seen' = seen /\ operator' = operator
  BY <1>1, <1>3, GotoFacts
<1>6. StateSeen(r)'
  BY <1>1, <1>3, <1>5 DEF StateSeen
<1>7. ASSUME r \notin stale PROVE Fresh(r)' /\ Promises'
  <2>1. Fresh(r)'
    BY <1>1, <1>3, <1>5, <1>7 DEF Fresh, ContractKnown, RowsKnown, SumsKnown
  <2>2. /\ \A q \in Role : roleRow'[q].confirmed = roleRow[q].confirmed
                           /\ roleRow'[q].terminate = roleRow[q].terminate
        /\ \A q \in Role \ {operator[r]} : roleRow'[q] = roleRow[q] /\ signed'[q] = signed[q]
        /\ roleRow'[operator[r]].signature = 0
    BY <1>1, <1>2, <1>3, <1>7 DEF TypeOK
  <2>3. contract.state # Valid /\ (contract.state \in {Terminating, Invalid} => "undone" \in causes')
    BY <1>1, <1>3, <1>7 DEF StateSeen
  <2> HIDE DEF more
  <2>4. Confirmed'
    BY <1>1, <1>3, <2>2 DEF IInv, Promises, Confirmed, InState
  <2>5. TextSigned'
    BY <1>1, <1>3, <2>2 DEF IInv, Promises, TextSigned
  <2>6. AllSigned'
    BY <1>1, <2>3 DEF AllSigned, InState, InForce
  <2>7. AgreedCounts'
    BY <1>1, <1>3, <1>5, <2>2, AskingStays DEF IInv, Promises, AgreedCounts, InState
  <2>8. AllAgreed'
    BY <1>1, <1>3, <2>2 DEF IInv, Promises, AllAgreed, InState
  <2> QED
    BY <2>1, <2>4, <2>5, <2>6, <2>7, <2>8 DEF Promises
<1> HIDE DEF more
<1> QED
  BY <1>1, <1>4, <1>6, <1>7, OnKeeps

(* The operator agrees to this termination.                                *)
LEMMA AgreeRowKeeps ==
  ASSUME IInv, NEW r \in Request, AgreeRow(r) PROVE IInv'
<1> DEFINE row == [OwnRow(r) EXCEPT !.terminate = 1]
<1>1. /\ at[r] = "agreeRow" /\ StateSeen(r) /\ UpdateRole(operator[r], row)
      /\ contract' = contract /\ signed' = signed /\ agreed' = agreed \cup {operator[r]}
      /\ Goto(r, "agreeSum") /\ Writes(r, {}, FALSE) /\ causes \subseteq causes'
      /\ OwnRow(r) \in RoleRow /\ {} \in SUBSET Cause /\ "agreeSum" \in Place \ {"idle"}
  BY Known DEF AgreeRow, StateSeen, Place, Writes
<1>2. row \in RoleRow /\ row.terminate = 1 /\ row.confirmed = OwnRow(r).confirmed
      /\ row.signature = OwnRow(r).signature
  BY <1>1 DEF RoleRow
<1> HIDE DEF row
<1>3. /\ TypeOK /\ contract # NoRow /\ contract' \in ContractRow \cup {Deleted}
      /\ roleRow' \in [Role -> RoleRow \cup {NoRow}]
      /\ seen[r] \in ContractRow /\ operator[r] \in Role /\ at[r] \in Loaded
      /\ Members' = Members /\ Alliances' = Alliances /\ \A a : RowsOf(a)' = RowsOf(a)
      /\ Members \subseteq Role /\ \A a : RowsOf(a) \subseteq Role
      /\ r \notin stale =>
           /\ operator[r] \in Members /\ OwnRow(r) = roleRow[operator[r]]
           /\ \A q \in Role : roleRow'[q] = IF q = operator[r] THEN row ELSE roleRow[q]
           /\ contract \in ContractRow
           /\ contract.state = seen[r].state /\ contract.content = seen[r].content
  BY <1>1, <1>2, OwnKnown
<1>4. RowsOK'
  BY <1>1, <1>3 DEF RowsOK, TypeOK
<1>5. OthersSame(r) /\ at'[r] = "agreeSum" /\ seen' = seen /\ operator' = operator
  BY <1>1, <1>3, GotoFacts
<1>6. StateSeen(r)'
  BY <1>1, <1>3, <1>5 DEF StateSeen
<1>7. ASSUME r \notin stale PROVE Fresh(r)' /\ Promises'
  <2>1. Fresh(r)'
    BY <1>1, <1>3, <1>5, <1>7 DEF Fresh, ContractKnown, RowsKnown, SumsKnown
  <2>2. /\ \A q \in Role : roleRow'[q].confirmed = roleRow[q].confirmed
                           /\ roleRow'[q].signature = roleRow[q].signature
        /\ \A q \in Role \ {operator[r]} : roleRow'[q] = roleRow[q]
    BY <1>2, <1>3, <1>7
  <2>3. contract.state = Terminating /\ Terminating # Invalid
    BY <1>1, <1>3, <1>7 DEF StateSeen, Terminating, Invalid
  <2>4. Confirmed'
    BY <1>1, <1>3, <2>2 DEF IInv, Promises, Confirmed, InState
  <2>5. TextSigned'
    BY <1>1, <1>3, <2>2 DEF IInv, Promises, TextSigned
  <2>6. AllSigned'
    BY <1>1, <1>3, <2>2 DEF IInv, Promises, AllSigned, InState
  <2>7. AgreedCounts'
    BY <1>1, <1>3, <1>5, <2>2, AskingStays DEF IInv, Promises, AgreedCounts, InState
  <2>8. AllAgreed'
    BY <1>1, <2>3 DEF AllAgreed, InState
  <2> QED
    BY <2>1, <2>4, <2>5, <2>6, <2>7, <2>8 DEF Promises
<1> QED
  BY <1>1, <1>4, <1>6, <1>7, OnKeeps

(* A refusal is no agreement.                                              *)
LEMMA RefuseTerminateRowKeeps ==
  ASSUME IInv, NEW r \in Request, RefuseTerminateRow(r) PROVE IInv'
<1> DEFINE row == [OwnRow(r) EXCEPT !.terminate = 2]
<1>1. /\ at[r] = "refuseTerminateRow" /\ StateSeen(r) /\ UpdateRole(operator[r], row)
      /\ contract' = contract /\ signed' = signed /\ agreed' = agreed
      /\ Goto(r, "resume") /\ Writes(r, {}, FALSE) /\ causes \subseteq causes'
      /\ OwnRow(r) \in RoleRow /\ {} \in SUBSET Cause /\ "resume" \in Place \ {"idle"}
  BY Known DEF RefuseTerminateRow, StateSeen, Place, Writes, marks
<1>2. row \in RoleRow /\ row.terminate = 2 /\ row.confirmed = OwnRow(r).confirmed
      /\ row.signature = OwnRow(r).signature
  BY <1>1 DEF RoleRow
<1> HIDE DEF row
<1>3. /\ TypeOK /\ contract # NoRow /\ contract' \in ContractRow \cup {Deleted}
      /\ roleRow' \in [Role -> RoleRow \cup {NoRow}]
      /\ seen[r] \in ContractRow /\ operator[r] \in Role /\ at[r] \in Loaded
      /\ Members' = Members /\ Alliances' = Alliances /\ \A a : RowsOf(a)' = RowsOf(a)
      /\ Members \subseteq Role /\ \A a : RowsOf(a) \subseteq Role
      /\ r \notin stale =>
           /\ operator[r] \in Members /\ OwnRow(r) = roleRow[operator[r]]
           /\ \A q \in Role : roleRow'[q] = IF q = operator[r] THEN row ELSE roleRow[q]
           /\ contract \in ContractRow
           /\ contract.state = seen[r].state /\ contract.content = seen[r].content
  BY <1>1, <1>2, OwnKnown
<1>4. RowsOK'
  BY <1>1, <1>3 DEF RowsOK, TypeOK
<1>5. OthersSame(r) /\ at'[r] = "resume" /\ seen' = seen /\ operator' = operator
  BY <1>1, <1>3, GotoFacts
<1>6. StateSeen(r)'
  BY <1>1, <1>3, <1>5 DEF StateSeen
<1>7. ASSUME r \notin stale PROVE Fresh(r)' /\ Promises'
  <2>1. Fresh(r)'
    BY <1>1, <1>3, <1>5, <1>7 DEF Fresh, ContractKnown, RowsKnown, SumsKnown
  <2>2. /\ \A q \in Role : roleRow'[q].confirmed = roleRow[q].confirmed
                           /\ roleRow'[q].signature = roleRow[q].signature
                           /\ (roleRow'[q].terminate = 1 => roleRow[q].terminate = 1)
    BY <1>2, <1>3, <1>7
  <2>3. contract.state = Terminating /\ Terminating # Invalid
    BY <1>1, <1>3, <1>7 DEF StateSeen, Terminating, Invalid
  <2>4. Confirmed'
    BY <1>1, <1>3, <2>2 DEF IInv, Promises, Confirmed, InState
  <2>5. TextSigned'
    BY <1>1, <1>3, <2>2 DEF IInv, Promises, TextSigned
  <2>6. AllSigned'
    BY <1>1, <1>3, <2>2 DEF IInv, Promises, AllSigned, InState
  <2>7. AgreedCounts'
    BY <1>1, <1>3, <1>5, <2>2, AskingStays DEF IInv, Promises, AgreedCounts, InState
  <2>8. AllAgreed'
    BY <1>1, <2>3 DEF AllAgreed, InState
  <2> QED
    BY <2>1, <2>4, <2>5, <2>6, <2>7, <2>8 DEF Promises
<1> QED
  BY <1>1, <1>4, <1>6, <1>7, OnKeeps

(* A role added after Starting has not confirmed: the cause is noted.  Its *)
(* alliance has a row already, that of the operator.                       *)
LEMMA AddRoleKeeps ==
  ASSUME IInv, NEW r \in Request, AddRole(r) PROVE IInv'
<1> DEFINE p == other[r]
<1> DEFINE more == IF contract \in ContractRow /\ contract.state = Starting THEN {} ELSE {"late role"}
<1>1. /\ at[r] = "insert" /\ p \notin Members /\ StateSeen(r) /\ TypeOK
      /\ roleRow' = [roleRow EXCEPT ![p] = NewRow(0)]
      /\ contract' = contract /\ agreed' = agreed /\ signed' = [signed EXCEPT ![p] = NoRow]
      /\ Return(r) /\ Writes(r, more, TRUE) /\ causes \cup more \subseteq causes'
      /\ more \in SUBSET Cause /\ contract # NoRow
      /\ r \notin stale => RowsKnown(r)
  BY Known DEF AddRole, Writes, Cause, IInv, Unborn
<1>2. p \in Role /\ OthersSame(r) /\ RowsOK
  BY <1>1, ReturnFacts, RowsType DEF StateSeen
<1>3. NewRow(0) \in RoleRow /\ NewRow(0).signature = 0 /\ NewRow(0).terminate = 0 /\ NewRow(0) # NoRow
  BY NoRowAssumption DEF NewRow, RoleRow
<1> HIDE DEF p
<1>4. RowsOK'
  BY <1>1, <1>2, <1>3 DEF RowsOK
<1>5. ASSUME r \notin stale PROVE Promises'
  <2>1. /\ \A q \in Role : roleRow'[q] = IF q = p THEN NewRow(0) ELSE roleRow[q]
        /\ \A q \in Role : signed'[q] = IF q = p THEN NoRow ELSE signed[q]
        /\ Members' = Members \cup {p} /\ Members \subseteq Role /\ p \notin Members
    BY <1>1, <1>2, <1>3 DEF Members, RowsOK
  <2>2. Alliances' = Alliances
    <3>1. operator[r] \in Members /\ AllianceOf[p] = AllianceOf[operator[r]]
      BY <1>1, <1>5 DEF RowsKnown, p
    <3> QED
      BY <2>1, <3>1 DEF Alliances
  <2>3. ASSUME NEW a PROVE RowsOf(a) \subseteq RowsOf(a)' /\ RowsOf(a) \subseteq Members
    <3>1. RowsOf(a) = {q \in Members : AllianceOf[q] = a}
          /\ RowsOf(a)' = {q \in Members' : AllianceOf[q] = a}
      BY DEF RowsOf
    <3> QED
      BY <2>1, <3>1
  <2>4. Confirmed'
    <3>1. "late role" \notin causes' /\ contract \in ContractRow => contract.state = Starting
      BY <1>1
    <3>2. Starting \notin Past
      BY DEF Past, Starting, NotConfirmed, Valid, Terminating, Invalid
    <3> HIDE DEF more
    <3>3. "late role" \notin causes' /\ contract' \in ContractRow => contract'.state \notin Past
      BY <1>1, <3>1, <3>2
    <3> QED
      BY <3>3 DEF Confirmed, InState
  <2> HIDE DEF more
  <2>5. TextSigned'
    <3>1. \A q \in Members' : roleRow'[q].signature = 1 =>
             q \in Members /\ roleRow[q].signature = 1 /\ signed'[q] = signed[q]
      BY <1>2, <1>3, <2>1
    <3> QED
      BY <1>1, <3>1 DEF IInv, Promises, TextSigned
  <2>6. AllSigned'
    <3> SUFFICES ASSUME causes' \cap {"overlap", "removed", "undone"} = {}, InState(InForce)',
                        NEW a \in Alliances
                 PROVE  \E q \in RowsOf(a)' : roleRow'[q].signature = 1
      BY <2>2 DEF AllSigned
    <3>1. PICK q \in RowsOf(a) : roleRow[q].signature = 1
      BY <1>1 DEF IInv, Promises, AllSigned, InState
    <3> QED
      BY <2>1, <2>3, <3>1
  <2>7. AgreedCounts'
    BY <1>1, <1>2, <1>3, <2>1, AskingStays DEF IInv, Promises, AgreedCounts, InState
  <2>8. AllAgreed'
    <3> SUFFICES ASSUME causes' \cap {"overlap", "failure", "removed"} = {}, InState({Invalid})',
                        NEW a \in Alliances
                 PROVE  \E q \in RowsOf(a)' : roleRow'[q].terminate = 1 /\ q \in agreed'
      BY <2>2 DEF AllAgreed
    <3>1. PICK q \in RowsOf(a) : roleRow[q].terminate = 1 /\ q \in agreed
      BY <1>1 DEF IInv, Promises, AllAgreed, InState
    <3> QED
      BY <1>1, <2>1, <2>3, <3>1
  <2> QED
    BY <2>4, <2>5, <2>6, <2>7, <2>8 DEF Promises
<1> HIDE DEF more
<1> QED
  BY <1>1, <1>4, <1>5, LastKeeps

(* A role removed that had signed or agreed is noted.                      *)
LEMMA RemoveRoleKeeps ==
  ASSUME IInv, NEW r \in Request, RemoveRole(r) PROVE IInv'
<1> DEFINE p == other[r]
<1> DEFINE more == IF /\ p \in Members
                      /\ \/ roleRow[p].confirmed = 0
                         \/ roleRow[p].signature = 1
                         \/ roleRow[p].terminate = 1
                   THEN {"removed"} ELSE {}
<1>1. /\ at[r] = "remove" /\ StateSeen(r) /\ TypeOK
      /\ roleRow' = [roleRow EXCEPT ![p] = NoRow]
      /\ contract' = contract /\ agreed' = agreed \ {p} /\ signed' = [signed EXCEPT ![p] = NoRow]
      /\ Return(r) /\ Writes(r, more, TRUE) /\ causes \cup more \subseteq causes'
      /\ more \in SUBSET Cause /\ contract # NoRow
  BY Known DEF RemoveRole, Writes, Cause, IInv, Unborn
<1>2. p \in Role /\ OthersSame(r) /\ RowsOK
  BY <1>1, ReturnFacts, RowsType DEF StateSeen
<1>3. RowsOK'
  BY <1>1, <1>2 DEF RowsOK
<1>4. "removed" \notin causes' /\ p \in Members => roleRow[p].signature # 1 /\ roleRow[p].terminate # 1
  BY <1>1
<1> HIDE DEF p, more
<1>5. Promises'
  <2>1. /\ \A q \in Role : roleRow'[q] = IF q = p THEN NoRow ELSE roleRow[q]
        /\ \A q \in Role : signed'[q] = IF q = p THEN NoRow ELSE signed[q]
        /\ Members' = Members \ {p} /\ Members \subseteq Role
    BY <1>1, <1>2 DEF Members, RowsOK
  <2>2. /\ Alliances' \subseteq Alliances
        /\ \A a : RowsOf(a)' = RowsOf(a) \ {p}
        /\ \A a : RowsOf(a) \subseteq Members
    BY <2>1 DEF Alliances, RowsOf
  <2>4. Confirmed'
    BY <1>1, <2>1 DEF IInv, Promises, Confirmed, InState
  <2>5. TextSigned'
    BY <1>1, <2>1 DEF IInv, Promises, TextSigned
  <2>6. AllSigned'
    <3> SUFFICES ASSUME causes' \cap {"overlap", "removed", "undone"} = {}, InState(InForce)',
                        NEW a \in Alliances
                 PROVE  \E q \in RowsOf(a)' : roleRow'[q].signature = 1
      BY <2>2 DEF AllSigned
    <3>1. PICK q \in RowsOf(a) : roleRow[q].signature = 1
      BY <1>1 DEF IInv, Promises, AllSigned, InState
    <3> QED
      BY <1>4, <2>1, <2>2, <3>1
  <2>7. AgreedCounts'
    BY <1>1, <1>2, <2>1, AskingStays DEF IInv, Promises, AgreedCounts, InState
  <2>8. AllAgreed'
    <3> SUFFICES ASSUME causes' \cap {"overlap", "failure", "removed"} = {}, InState({Invalid})',
                        NEW a \in Alliances
                 PROVE  \E q \in RowsOf(a)' : roleRow'[q].terminate = 1 /\ q \in agreed'
      BY <2>2 DEF AllAgreed
    <3>1. PICK q \in RowsOf(a) : roleRow[q].terminate = 1 /\ q \in agreed
      BY <1>1 DEF IInv, Promises, AllAgreed, InState
    <3> QED
      BY <1>1, <1>4, <2>1, <2>2, <3>1
  <2> QED
    BY <2>4, <2>5, <2>6, <2>7, <2>8 DEF Promises
<1> QED
  BY <1>1, <1>3, <1>5, LastKeeps

-----------------------------------------------------------------------------
(* The inductive invariant holds at first,                                 *)
LEMMA InitIInv == Init => IInv
<1> SUFFICES ASSUME Init PROVE IInv
  OBVIOUS
<1>1. TypeOK
  BY DEF Init, TypeOK, NoRows, Place, Cause
<1>2. Members = {} /\ Alliances = {} /\ contract \notin ContractRow
  BY NoRowAssumption DEF Init, Members, Alliances, NoRows
<1>3. Unborn /\ OneWriter
  BY <1>2 DEF Init, Unborn, OneWriter
<1>4. \A r \in Request : StateSeen(r) /\ Fresh(r)
  BY DEF Init, StateSeen, Fresh, ContractKnown, RowsKnown, SumsKnown, Loaded
<1>5. Promises
  BY <1>2 DEF Promises, Confirmed, TextSigned, AllSigned, AgreedCounts, AllAgreed, InState
<1> QED
  BY <1>1, <1>3, <1>4, <1>5 DEF IInv

(* when nothing happens,                                                   *)
LEMMA StutterIInv == IInv /\ UNCHANGED vars => IInv'
<1> SUFFICES ASSUME IInv, UNCHANGED vars PROVE IInv'
  OBVIOUS
<1>0. /\ contract' = contract /\ roleRow' = roleRow /\ signed' = signed /\ agreed' = agreed
      /\ at' = at /\ operator' = operator /\ other' = other /\ seen' = seen
      /\ seenRows' = seenRows /\ todo' = todo
      /\ stale' = stale /\ wrote' = wrote /\ causes' = causes
  BY DEF vars, rows, marks, locals, history
<1>1. TypeOK' /\ Unborn' /\ OneWriter'
  BY <1>0 DEF IInv, TypeOK, Unborn, OneWriter, Members
<1>2. Members' = Members /\ Alliances' = Alliances /\ \A a : RowsOf(a)' = RowsOf(a)
  BY <1>0 DEF Members, Alliances, RowsOf
<1>3. ASSUME NEW r \in Request PROVE StateSeen(r)' /\ Fresh(r)'
  <2>1. StateSeen(r) /\ Fresh(r)
    BY DEF IInv
  <2>2. StateSeen(r)'
    BY <1>0, <2>1 DEF StateSeen, OwnRow
  <2>3. ContractKnown(r)' <=> ContractKnown(r)
    BY <1>0 DEF ContractKnown, InState
  <2>4. RowsKnown(r)' <=> RowsKnown(r)
    BY <1>0, <1>2 DEF RowsKnown, OwnRow
  <2>5. SumsKnown(r)' <=> SumsKnown(r)
    BY <1>0, <1>2 DEF SumsKnown
  <2> QED
    BY <1>0, <2>1, <2>2, <2>3, <2>4, <2>5 DEF Fresh
<1>4. Promises'
  <2>1. Confirmed' /\ TextSigned' /\ AllSigned'
    BY <1>0, <1>2 DEF IInv, Promises, Confirmed, TextSigned, AllSigned, InState
  <2>2. AgreedCounts' /\ AllAgreed'
    BY <1>0, <1>2 DEF IInv, Promises, AgreedCounts, AllAgreed, InState, Asking
  <2> QED
    BY <2>1, <2>2 DEF Promises
<1> QED
  BY <1>1, <1>3, <1>4 DEF IInv

(* and after every step.                                                   *)
LEMMA NextIInv == IInv /\ [Next]_vars => IInv'
<1> SUFFICES ASSUME IInv, [Next]_vars PROVE IInv'
  OBVIOUS
<1>1. ASSUME NEW r \in Request, Joining(r) PROVE IInv'
  BY <1>1, AddContractKeeps, InsertCreatorKeeps, InsertMemberKeeps, BeginKeeps, ConfirmCheckKeeps,
     ConfirmRowKeeps, StartKeeps, RefuseCheckKeeps, DeleteContractKeeps, DeleteRowKeeps DEF Joining
<1>2. ASSUME NEW r \in Request, Signing(r) PROVE IInv'
  BY <1>2, BeginKeeps, SignCheckKeeps, SignRowKeeps, BlockKeeps, SignSumKeeps, ValidateKeeps,
     UndoRowKeeps, UndoSumKeeps, UnblockKeeps DEF Signing
<1>3. ASSUME NEW r \in Request, Ending(r) PROVE IInv'
  BY <1>3, BeginKeeps, TerminateCheckKeeps, TerminateContractKeeps, TerminateRowKeeps,
     AnswerCheckKeeps, AgreeRowKeeps, AgreeSumKeeps, EndKeeps, RefuseTerminateRowKeeps,
     ResumeKeeps DEF Ending
<1>4. ASSUME NEW r \in Request, Changing(r) PROVE IInv'
  BY <1>4, BeginKeeps, EditKeeps, BeginRoleKeeps, AddRoleKeeps, RemoveRoleKeeps,
     BeginAdditionKeeps, AdditionRowKeeps DEF Changing
<1>5. CASE UNCHANGED vars
  BY <1>5, StutterIInv
<1> QED
  BY <1>1, <1>2, <1>3, <1>4, <1>5, CallThrowsKeeps DEF Next

-----------------------------------------------------------------------------
(* What the contract row says of the role rows, kept beside IInv.          *)

Unexcused == causes \cap {"overlap", "failure", "removed"} = {}

Unconfirmed == \E p \in Members : roleRow[p].confirmed = 0
HasSigned   == \E p \in Members : roleRow[p].signature = 1

(* The places of a call that has written and has more to write.            *)
Midway == {"insertRole", "insertRoles", "start", "block", "signSum", "validate", "undoSum", "unblock"}

(* A call that has written and was not overwritten is the only writer.     *)
Marked ==
    /\ \A r \in Request : at[r] \in Midway => r \in wrote
    /\ "overlap" \notin causes => wrote \cap stale = {}

(* What a call knows of isBlock and of the signatures.                     *)
BlockKnown(r) ==
    /\ at[r] \in {"insertRole", "insertRoles"} => contract.isBlock = 0 /\ ~HasSigned
    /\ at[r] \in {"block", "signSum", "validate"} => HasSigned
    /\ at[r] \in Loaded \ {"signSum", "validate"} => contract.isBlock = seen[r].isBlock
    /\ at[r] = "undoRow" => OwnRow(r).signature = 1
    /\ at[r] = "undoSum" /\ Unexcused => contract.isBlock = 1 /\ Members # {}
    /\ at[r] = "unblock" => ~HasSigned

(* A contract at Starting waits for a role or for the call that goes on.   *)
Waiting ==
    Unexcused /\ InState({Starting}) =>
        Unconfirmed \/ \E r \in Request : at[r] \in {"insertRole", "insertRoles", "start"}

(* It is blocked when somebody has signed, or a call is to set or reset it. *)
Blocked ==
    Unexcused /\ contract \in ContractRow =>
        \/ contract.isBlock = 1 <=> HasSigned
        \/ \E r \in Request : at[r] \in {"block", "undoSum", "unblock"}

SInv ==
    /\ Marked /\ Waiting /\ Blocked
    /\ \A r \in Request \ stale : BlockKnown(r)

(* What the other calls know stays, or the write makes them stale.         *)
LEMMA OthersBlockKnown ==
  ASSUME IInv, SInv, NEW r \in Request, OthersSame(r), UNCHANGED <<contract, roleRow>>, causes \subseteq causes',
         NEW s \in Request \ {r}, s \notin stale
  PROVE  BlockKnown(s)'
<1>1. BlockKnown(s)
  BY DEF SInv
<1>2. Members' = Members /\ HasSigned' = HasSigned /\ (Unexcused' => Unexcused)
  BY DEF Members, HasSigned, Unexcused
<1> QED
  BY <1>1, <1>2 DEF BlockKnown, OthersSame, OwnRow

(* The tables and the calls to come, when the step says enough of them.    *)
LEMMA SumsStay ==
  ASSUME SInv, NEW r \in Request, OthersSame(r), causes \subseteq causes',
         at[r] \in Midway \ {"signSum", "validate"} => ~Unexcused',
         Unexcused' /\ contract' \in ContractRow =>
            /\ contract \in ContractRow /\ contract'.isBlock = contract.isBlock
            /\ contract'.state = Starting => contract.state = Starting
            /\ HasSigned' <=> HasSigned
            /\ contract'.state = Starting /\ Unconfirmed => Unconfirmed'
  PROVE  Waiting' /\ Blocked'
<1>1. Unexcused' => Unexcused
  BY DEF Unexcused
<1>2. Waiting'
  <2> SUFFICES ASSUME Unexcused', contract' \in ContractRow, contract'.state = Starting
               PROVE  Unconfirmed' \/ \E s \in Request : at'[s] \in {"insertRole", "insertRoles", "start"}
    BY DEF Waiting, InState
  <2>1. Unconfirmed \/ \E s \in Request : at[s] \in {"insertRole", "insertRoles", "start"}
    BY <1>1 DEF SInv, Waiting, InState
  <2>2. at[r] \notin {"insertRole", "insertRoles", "start"}
    BY DEF Midway
  <2> QED
    BY <2>1, <2>2 DEF OthersSame
<1>3. Blocked'
  <2> SUFFICES ASSUME Unexcused', contract' \in ContractRow
               PROVE  \/ contract'.isBlock = 1 <=> HasSigned'
                      \/ \E s \in Request : at'[s] \in {"block", "undoSum", "unblock"}
    BY DEF Blocked
  <2>1. \/ contract.isBlock = 1 <=> HasSigned
        \/ \E s \in Request : at[s] \in {"block", "undoSum", "unblock"}
    BY <1>1 DEF SInv, Blocked
  <2>2. at[r] \notin {"block", "undoSum", "unblock"}
    BY DEF Midway
  <2> QED
    BY <2>1, <2>2 DEF OthersSame
<1> QED
  BY <1>2, <1>3

(* A step that writes no table: it may end a call midway only if it fails, *)
(* or if the sums leave nothing to do.                                     *)
LEMMA ReadSums ==
  ASSUME IInv, SInv, NEW r \in Request, OthersSame(r), UNCHANGED <<contract, roleRow>>,
         causes \subseteq causes', wrote' \subseteq wrote, wrote \ {r} \subseteq wrote',
         stale \ {r} \subseteq stale', stale' \subseteq stale, at'[r] = "idle" \/ stale' = stale,
         at'[r] # "idle" => r \in wrote' \/ at'[r] \notin Midway,
         at'[r] # "idle" /\ r \notin stale => BlockKnown(r)',
         at[r] \in Midway \ {"signSum", "validate"} => ~Unexcused' \/ (Waiting' /\ Blocked')
  PROVE  SInv'
<1>1. Marked'
  BY DEF SInv, Marked, OthersSame, Midway
<1>2. Waiting' /\ Blocked'
  <2>1. CASE at[r] \notin Midway \ {"signSum", "validate"} \/ ~Unexcused'
    <3>1. HasSigned' = HasSigned /\ Unconfirmed' = Unconfirmed
      BY DEF HasSigned, Unconfirmed, Members
    <3> QED
      BY <2>1, <3>1, SumsStay
  <2> QED
    BY <2>1
<1>3. ASSUME NEW s \in Request, s \notin stale' PROVE BlockKnown(s)'
  <2>1. CASE s = r /\ at'[r] = "idle"
    BY <2>1 DEF BlockKnown, Loaded
  <2>2. CASE s = r /\ at'[r] # "idle"
    <3>1. CASE r \notin stale
      BY <2>2, <3>1
    <3>2. CASE r \in stale
      BY <1>3, <2>2, <3>2
    <3> QED
      BY <3>1, <3>2
  <2>3. CASE s # r
    BY <1>3, <2>3, OthersBlockKnown
  <2> QED
    BY <2>1, <2>2, <2>3
<1> QED
  BY <1>1, <1>2, <1>3 DEF SInv

(* A step that writes: the others become stale; it counts only if r is     *)
(* not stale itself.                                                       *)
LEMMA WriteSums ==
  ASSUME IInv, SInv, NEW r \in Request, OthersSame(r),
         NEW more, NEW last \in BOOLEAN, Writes(r, more, last),
         at[r] # "idle" \/ wrote = {}, last <=> at'[r] = "idle",
         r \notin stale => (~last => BlockKnown(r)') /\ Waiting' /\ Blocked'
  PROVE  SInv'
<1>0. /\ causes' = causes \cup more \cup (IF r \in stale THEN {"overlap"} ELSE {})
      /\ stale'  = (stale \cup {s \in Request \ {r} : at[s] # "idle"}) \ (IF last THEN {r} ELSE {})
      /\ wrote'  = IF last THEN wrote \ {r} ELSE wrote \cup {r}
  BY DEF Writes
<1>1. Marked'
  <2>1. \A s \in Request : at'[s] \in Midway => s \in wrote'
    BY <1>0 DEF SInv, Marked, OthersSame, Midway
  <2>2. ASSUME "overlap" \notin causes', NEW s \in wrote', s \in stale' PROVE FALSE
    <3>1. r \notin stale /\ "overlap" \notin causes
      BY <1>0, <2>2
    <3>2. s # r /\ s \in wrote
      BY <1>0, <2>2, <3>1
    <3>3. s \notin stale
      BY <3>1, <3>2 DEF SInv, Marked
    <3>4. at[r] # "idle"
      BY <3>2
    <3>5. r \in stale
      BY <3>1, <3>2, <3>4 DEF IInv, OneWriter
    <3> QED
      BY <3>1, <3>5
  <2> QED
    BY <2>1, <2>2 DEF Marked
<1>2. Waiting' /\ Blocked'
  <2>1. CASE r \in stale
    BY <1>0, <2>1 DEF Waiting, Blocked, Unexcused
  <2> QED
    BY <2>1
<1>3. ASSUME NEW s \in Request, s \notin stale' PROVE BlockKnown(s)'
  <2>1. CASE at'[s] = "idle"
    BY <2>1 DEF BlockKnown, Loaded
  <2>2. CASE at'[s] # "idle"
    <3>1. s = r /\ ~last
      BY <1>0, <1>3, <2>2 DEF OthersSame
    <3>2. r \notin stale
      BY <1>0, <1>3, <3>1
    <3> QED
      BY <3>1, <3>2
  <2> QED
    BY <2>1, <2>2
<1> QED
  BY <1>1, <1>2, <1>3 DEF SInv

(* The loads and checks.                                                   *)
LEMMA BeginSums ==
  ASSUME IInv, SInv, NEW r \in Request, NEW p \in Role,
         NEW place \in {"confirm", "refuse", "sign", "undo", "terminate", "agree",
                        "refuseTerminate", "edit"},
         Begin(r, p, place)
  PROVE  SInv'
<1>1. /\ at[r] = "idle" /\ at'[r] = place /\ seen'[r] = contract /\ contract' = contract /\ roleRow' = roleRow
      /\ OthersSame(r) /\ stale' = stale /\ wrote' = wrote /\ causes \subseteq causes'
  BY DEF Begin, Loads, IInv, TypeOK, OthersSame, rows
<1>2. BlockKnown(r)'
  BY <1>1 DEF BlockKnown
<1> QED
  BY <1>1, <1>2, ReadSums DEF Midway

LEMMA CheckSums ==
  ASSUME IInv, SInv, NEW r \in Request, NEW here, NEW needed \in BOOLEAN, NEW place, NEW loaded,
         Check(r, here, needed, loaded, place),
         here \in Loaded \ Midway, place \in Loaded \ Midway,
         needed /\ place = "undoRow" => operator[r] \in Role /\ loaded[operator[r]].signature = 1
  PROVE  SInv'
<1>1. at[r] = here /\ contract' = contract /\ roleRow' = roleRow /\ TypeOK
  BY DEF Check, rows, IInv
<1>2. CASE needed
  <2>1. /\ OthersSame(r) /\ at'[r] = place /\ seen' = seen /\ operator' = operator /\ seenRows'[r] = loaded
        /\ stale' = stale /\ wrote' = wrote /\ causes \subseteq causes'
    BY <1>1, <1>2 DEF Check, Loads, TypeOK, OthersSame
  <2>2. r \notin stale => contract.isBlock = seen[r].isBlock
    BY <1>1 DEF SInv, BlockKnown, Midway
  <2>3. r \notin stale => BlockKnown(r)'
    BY <1>1, <1>2, <2>1, <2>2 DEF BlockKnown, Midway, OwnRow
  <2> QED
    BY <1>1, <2>1, <2>3, ReadSums
<1>3. CASE ~needed
  <2>1. Return(r) /\ NoWrite(r, TRUE)
    BY <1>3 DEF Check
  <2>2. OthersSame(r) /\ at'[r] = "idle"
    BY <1>1, <2>1, ReturnFacts
  <2>3. stale' = stale \ {r} /\ wrote' = wrote \ {r} /\ causes' = causes
    BY <2>1 DEF NoWrite
  <2> QED
    BY <1>1, <2>2, <2>3, ReadSums
<1> QED
  BY <1>2, <1>3

LEMMA ChecksSums ==
  ASSUME IInv, SInv, NEW r \in Request,
         \/ ConfirmCheck(r) \/ RefuseCheck(r) \/ SignCheck(r) \/ UndoCheck(r) \/ TerminateCheck(r)
         \/ AnswerCheck(r, "agree", "agreeRow") \/ AnswerCheck(r, "refuseTerminate", "refuseTerminateRow")
  PROVE  SInv'
<1> USE DEF Loaded, Midway
<1>1. CASE ConfirmCheck(r)
  BY <1>1, CheckSums DEF ConfirmCheck
<1>2. CASE RefuseCheck(r)
  BY <1>2, CheckSums DEF RefuseCheck
<1>3. CASE SignCheck(r)
  BY <1>3, CheckSums DEF SignCheck
<1>4. CASE UndoCheck(r)
  <2> DEFINE needed == /\ seen[r].state # Valid
                       /\ operator[r] \in Members /\ roleRow[operator[r]].signature = 1
  <2>1. Check(r, "undo", needed, Own(r), "undoRow") /\ at[r] = "undo" /\ TypeOK /\ StateSeen(r)
    BY <1>4 DEF UndoCheck, Check, IInv
  <2>2. operator[r] \in Role
    BY <2>1 DEF StateSeen
  <2>3. needed => Own(r)[operator[r]].signature = 1
    BY <2>1, <2>2, OwnType
  <2> HIDE DEF needed
  <2>4. needed \in BOOLEAN
    BY DEF needed
  <2> QED
    BY <2>1, <2>2, <2>3, <2>4, CheckSums
<1>5. CASE TerminateCheck(r)
  BY <1>5, CheckSums DEF TerminateCheck
<1>6. CASE AnswerCheck(r, "agree", "agreeRow")
  BY <1>6, CheckSums DEF AnswerCheck
<1>7. CASE AnswerCheck(r, "refuseTerminate", "refuseTerminateRow")
  BY <1>7, CheckSums DEF AnswerCheck
<1> QED
  BY <1>1, <1>2, <1>3, <1>4, <1>5, <1>6, <1>7

LEMMA BeginRoleSums ==
  ASSUME IInv, SInv, NEW r \in Request,
         \/ \E p, new \in Role : BeginAddRole(r, p, new)
         \/ \E p, removed \in Role : BeginRemoveRole(r, p, removed)
         \/ BeginAddition(r)
  PROVE  SInv'
<1>1. /\ at[r] = "idle" /\ at'[r] \in {"insert", "remove", "addition"} /\ contract' = contract /\ roleRow' = roleRow
      /\ OthersSame(r) /\ stale' = stale /\ wrote' = wrote /\ causes \subseteq causes'
  <2>1. CASE \E p, new \in Role : BeginAddRole(r, p, new)
    BY <2>1 DEF BeginAddRole, Loads, IInv, TypeOK, OthersSame, rows
  <2>2. CASE \E p, removed \in Role : BeginRemoveRole(r, p, removed)
    BY <2>2 DEF BeginRemoveRole, Loads, IInv, TypeOK, OthersSame, rows
  <2>3. CASE BeginAddition(r)
    BY <2>3 DEF BeginAddition, Loads, IInv, TypeOK, OthersSame, rows
  <2> QED
    BY <2>1, <2>2, <2>3
<1>2. BlockKnown(r)'
  BY <1>1 DEF BlockKnown, Loaded
<1> QED
  BY <1>1, <1>2, ReadSums DEF Midway

(* A call that fails after a write is excused.                             *)
LEMMA CallThrowsSums ==
  ASSUME IInv, SInv, NEW r \in Request, CallThrows(r) PROVE SInv'
<1>1. /\ Return(r) /\ stale' = stale \ {r} /\ wrote' = wrote \ {r} /\ contract' = contract /\ roleRow' = roleRow
      /\ causes' = IF r \in wrote THEN causes \cup {"failure"} ELSE causes
  BY DEF CallThrows, rows
<1>2. OthersSame(r) /\ at'[r] = "idle"
  BY <1>1, ReturnFacts DEF IInv
<1>3. at[r] \in Midway => ~Unexcused'
  BY <1>1 DEF SInv, Marked, Unexcused
<1> QED
  BY <1>1, <1>2, <1>3, ReadSums

(* The sums: undoSign goes on when no signature is left, and otherwise     *)
(* leaves the contract blocked.                                            *)
LEMMA SumSums ==
  ASSUME IInv, SInv, NEW r \in Request, SignSum(r) \/ UndoSum(r) \/ AgreeSum(r) PROVE SInv'
<1>1. TypeOK /\ StateSeen(r) /\ contract' = contract /\ roleRow' = roleRow /\ causes' = causes
  BY DEF IInv, SignSum, UndoSum, AgreeSum, rows, NoWrite
<1>2. /\ at[r] \in Midway => r \in wrote
      /\ r \notin stale => BlockKnown(r) /\ ContractKnown(r)
  BY DEF SInv, Marked, IInv, Fresh
<1>3. /\ OthersSame(r) /\ wrote' \subseteq wrote /\ wrote \ {r} \subseteq wrote'
      /\ stale \ {r} \subseteq stale' /\ stale' \subseteq stale
      /\ \/ at'[r] = "idle"
         \/ at'[r] \in {"validate", "unblock", "end"} /\ stale' = stale /\ wrote' = wrote /\ seen' = seen
  <2>1. CASE Return(r) /\ NoWrite(r, TRUE)
    BY <1>1, <2>1, ReturnFacts DEF NoWrite
  <2>2. CASE NoWrite(r, FALSE) /\ (Goto(r, "validate") \/ Goto(r, "unblock") \/ Goto(r, "end"))
    BY <1>1, <2>2, GotoFacts DEF NoWrite, Place
  <2> QED
    BY <2>1, <2>2 DEF SignSum, UndoSum, AgreeSum
<1>4. HasSigned' = HasSigned /\ Unexcused' = Unexcused /\ Members' = Members
  BY <1>1 DEF HasSigned, Members, Unexcused
<1>5. CASE SignSum(r)
  <2>1. at[r] = "signSum" /\ at'[r] \in {"idle", "validate"}
    BY <1>1, <1>5, ReturnFacts, GotoFacts DEF SignSum, Place
  <2>2. at'[r] # "idle" /\ r \notin stale => BlockKnown(r)'
    BY <1>2, <1>4, <2>1 DEF BlockKnown, Loaded
  <2> QED
    BY <1>1, <1>2, <1>3, <2>1, <2>2, ReadSums DEF Midway
<1>6. CASE AgreeSum(r)
  <2>1. at[r] = "agreeSum" /\ at'[r] \in {"idle", "end"}
    BY <1>1, <1>6, ReturnFacts, GotoFacts DEF AgreeSum, Place
  <2>2. at'[r] # "idle" /\ r \notin stale => BlockKnown(r)'
    BY <1>1, <1>2, <1>3, <2>1 DEF BlockKnown, Loaded
  <2> QED
    BY <1>1, <1>2, <1>3, <2>1, <2>2, ReadSums DEF Midway
<1>7. CASE UndoSum(r)
  <2> DEFINE empty == Members # {} /\ \A p \in Members : roleRow[p].signature = 0
  <2>1. at[r] = "undoSum" /\ r \in wrote
    BY <1>2, <1>7 DEF UndoSum, Midway
  <2>2. CASE empty
    <3>1. at'[r] = "unblock"
      BY <1>1, <1>7, <2>2, GotoFacts DEF UndoSum, Place
    <3>2. ~HasSigned
      BY <2>2 DEF HasSigned
    <3>3. r \notin stale => BlockKnown(r)'
      BY <1>1, <1>2, <1>3, <1>4, <2>1, <3>1, <3>2 DEF BlockKnown, Loaded
    <3>4. Waiting' /\ Blocked'
      <4>1. Blocked'
        BY <3>1 DEF Blocked
      <4>2. Waiting'
        <5>1. Unconfirmed' = Unconfirmed /\ InState({Starting})' = InState({Starting})
          BY <1>1 DEF Unconfirmed, Members, InState
        <5> QED
          BY <1>3, <1>4, <2>1, <5>1 DEF SInv, Waiting, OthersSame
      <4> QED
        BY <4>1, <4>2
    <3> QED
      BY <1>1, <1>3, <2>1, <3>1, <3>3, <3>4, ReadSums
  <2>3. CASE ~empty
    <3>1. at'[r] = "idle"
      BY <1>1, <1>7, <2>3, ReturnFacts DEF UndoSum
    <3>2. ASSUME Unexcused' PROVE Waiting' /\ Blocked'
      <4>1. r \notin stale
        BY <1>4, <2>1, <3>2 DEF SInv, Marked, Unexcused
      <4>2. contract.isBlock = 1 /\ Members # {}
        BY <1>2, <1>4, <2>1, <3>2, <4>1 DEF BlockKnown
      <4>3. HasSigned
        <5>1. PICK p \in Members : roleRow[p].signature # 0
          BY <2>3, <4>2
        <5>2. roleRow[p] \in RoleRow
          BY <1>1 DEF TypeOK, Members
        <5>3. roleRow[p].signature = 1
          BY <5>1, <5>2 DEF RoleRow
        <5> QED
          BY <5>3 DEF HasSigned
      <4>4. Blocked'
        BY <1>1, <1>4, <4>2, <4>3 DEF Blocked
      <4>5. Waiting'
        <5>1. Unconfirmed' = Unconfirmed /\ InState({Starting})' = InState({Starting})
          BY <1>1 DEF Unconfirmed, Members, InState
        <5> QED
          BY <1>3, <1>4, <2>1, <5>1 DEF SInv, Waiting, OthersSame
      <4> QED
        BY <4>4, <4>5
    <3> QED
      BY <1>1, <1>3, <2>1, <3>1, <3>2, ReadSums
  <2> QED
    BY <2>2, <2>3
<1> QED
  BY <1>5, <1>6, <1>7

(* A write to the contract alone that keeps isBlock and leaves it past     *)
(* Starting.                                                               *)
LEMMA KeptSums ==
  ASSUME IInv, SInv, NEW r \in Request, at[r] \in Loaded \ Midway, OthersSame(r),
         NEW row \in ContractRow, UpdateContract(row), roleRow' = roleRow,
         row.isBlock = seen[r].isBlock, row.state # Starting,
         NEW more, NEW last \in BOOLEAN, Writes(r, more, last),
         last <=> at'[r] = "idle", at'[r] \in {"idle", "terminateRows"}
  PROVE  SInv'
<1>1. /\ RowsOK /\ at[r] # "idle"
      /\ r \notin stale => contract \in ContractRow
  BY UpdaterKnows
<1>2. causes \subseteq causes'
  BY DEF Writes
<1>3. ASSUME r \notin stale PROVE (~last => BlockKnown(r)') /\ Waiting' /\ Blocked'
  <2>1. contract \in ContractRow /\ contract' = row
    BY <1>1, <1>3, ContractUpdated
  <2>2. contract.isBlock = seen[r].isBlock
    BY <1>3 DEF SInv, BlockKnown, Midway
  <2>3. HasSigned' = HasSigned
    BY DEF HasSigned, Members
  <2>4. ~last => BlockKnown(r)'
    BY DEF BlockKnown, Loaded
  <2> QED
    BY <1>2, <2>1, <2>2, <2>3, <2>4, SumsStay
<1> QED
  BY <1>1, <1>3, WriteSums

(* A write to the role rows alone that keeps who has signed and leaves     *)
(* somebody to wait for.                                                   *)
LEMMA RowSums ==
  ASSUME IInv, SInv, NEW r \in Request, at[r] \notin Midway, at[r] # "idle", OthersSame(r),
         contract' = contract, NEW more, NEW last \in BOOLEAN, Writes(r, more, last),
         last <=> at'[r] = "idle",
         r \notin stale /\ ~last => BlockKnown(r)',
         r \notin stale /\ Unexcused' => (HasSigned' <=> HasSigned) /\ (Unconfirmed => Unconfirmed')
  PROVE  SInv'
<1>1. causes \subseteq causes'
  BY DEF Writes
<1>2. ASSUME r \notin stale PROVE Waiting' /\ Blocked'
  BY <1>1, <1>2, SumsStay
<1> QED
  BY <1>2, WriteSums

(* Row by row: what a row written says of the sums.                        *)
LEMMA RowWritten ==
  ASSUME roleRow' \in [Role -> RoleRow \cup {NoRow}], Members' = Members, NEW p \in Members, Members \subseteq Role,
         \A q \in Role \ {p} : roleRow'[q] = roleRow[q],
         roleRow'[p].signature = roleRow[p].signature, roleRow'[p].confirmed = roleRow[p].confirmed
  PROVE  (HasSigned' <=> HasSigned) /\ (Unconfirmed' <=> Unconfirmed)
  BY DEF HasSigned, Unconfirmed

(* terminate and the answer that ends it, refuses it; an edit.             *)
LEMMA StateSums ==
  ASSUME IInv, SInv, NEW r \in Request,
         \/ TerminateContract(r) \/ End(r) \/ Resume(r) \/ \E text \in Content : Edit(r, text)
  PROVE  SInv'
<1>1. at[r] \in {"terminateContract", "end", "resume", "edit"} /\ at[r] \in Loaded \ Midway
  BY DEF TerminateContract, End, Resume, Edit, Loaded, Midway
<1>2. TypeOK /\ seen[r] \in ContractRow
  BY <1>1, UpdaterKnows
<1>3. /\ seen[r].state \in 0..4 /\ seen[r].content \in Content /\ seen[r].isBlock \in 0..1
  BY <1>2 DEF ContractRow
<1>4. CASE TerminateContract(r)
  <2> DEFINE row == [seen[r] EXCEPT !.state = Terminating]
  <2>1. row \in ContractRow /\ row.isBlock = seen[r].isBlock /\ row.state # Starting
    BY <1>2 DEF ContractRow, Terminating, Starting
  <2>2. UpdateContract(row) /\ roleRow' = roleRow
    BY <1>4 DEF TerminateContract
  <2> HIDE DEF row
  <2>3. CASE todo[r] = {}
    <3>1. Return(r) /\ Writes(r, {}, TRUE)
      BY <1>4, <2>3 DEF TerminateContract
    <3>2. OthersSame(r) /\ at'[r] = "idle"
      BY <1>2, <3>1, ReturnFacts
    <3> QED
      BY <1>1, <2>1, <2>2, <3>1, <3>2, KeptSums
  <2>4. CASE todo[r] # {}
    <3>1. Goto(r, "terminateRows") /\ Writes(r, {}, FALSE) /\ "terminateRows" \in Place
      BY <1>4, <2>4 DEF TerminateContract, Place
    <3>2. OthersSame(r) /\ at'[r] = "terminateRows"
      BY <1>2, <3>1, GotoFacts
    <3> QED
      BY <1>1, <2>1, <2>2, <3>1, <3>2, KeptSums
  <2> QED
    BY <2>3, <2>4
<1>5. CASE End(r)
  <2> DEFINE row == [seen[r] EXCEPT !.state = Invalid]
  <2>1. row \in ContractRow /\ row.isBlock = seen[r].isBlock /\ row.state # Starting
    BY <1>2 DEF ContractRow, Invalid, Starting
  <2>2. UpdateContract(row) /\ roleRow' = roleRow /\ Return(r) /\ Writes(r, {}, TRUE)
    BY <1>5 DEF End
  <2> HIDE DEF row
  <2>3. OthersSame(r) /\ at'[r] = "idle"
    BY <1>2, <2>2, ReturnFacts
  <2> QED
    BY <1>1, <2>1, <2>2, <2>3, KeptSums
<1>6. CASE Resume(r)
  <2> DEFINE row == [seen[r] EXCEPT !.state = Valid]
  <2>1. row \in ContractRow /\ row.isBlock = seen[r].isBlock /\ row.state # Starting
    BY <1>2 DEF ContractRow, Valid, Starting
  <2>2. UpdateContract(row) /\ roleRow' = roleRow /\ Return(r) /\ Writes(r, {}, TRUE)
    BY <1>6 DEF Resume
  <2> HIDE DEF row
  <2>3. OthersSame(r) /\ at'[r] = "idle"
    BY <1>2, <2>2, ReturnFacts
  <2> QED
    BY <1>1, <2>1, <2>2, <2>3, KeptSums
<1>7. ASSUME NEW text \in Content, Edit(r, text) PROVE SInv'
  <2> DEFINE row == [seen[r] EXCEPT !.content = text, !.state = NotConfirmed]
  <2>1. row \in ContractRow /\ row.isBlock = seen[r].isBlock /\ row.state # Starting
    <3> DEFINE first == [seen[r] EXCEPT !.content = text]
    <3>1. first \in ContractRow /\ first.isBlock = seen[r].isBlock
      BY <1>2 DEF ContractRow
    <3>2. row = [first EXCEPT !.state = NotConfirmed]
      OBVIOUS
    <3> HIDE DEF first, row
    <3> QED
      BY <3>1, <3>2 DEF ContractRow, NotConfirmed, Starting
  <2> DEFINE more == IF \/ seen[r].state # NotConfirmed
                        \/ \E p \in Members : roleRow[p].signature = 1
                     THEN {"edited"} ELSE {}
  <2>2. UpdateContract(row) /\ roleRow' = roleRow /\ Return(r) /\ Writes(r, more, TRUE)
    BY <1>7 DEF Edit
  <2> HIDE DEF row, more
  <2>3. OthersSame(r) /\ at'[r] = "idle"
    BY <1>2, <2>2, ReturnFacts
  <2> QED
    BY <1>1, <2>1, <2>2, <2>3, KeptSums
<1> QED
  BY <1>4, <1>5, <1>6, <1>7

(* The own row of an answer to a termination.                              *)
LEMMA AnswerSums ==
  ASSUME IInv, SInv, NEW r \in Request, AgreeRow(r) \/ RefuseTerminateRow(r) PROVE SInv'
<1> DEFINE answer == IF at[r] = "agreeRow" THEN 1 ELSE 2
           row == [OwnRow(r) EXCEPT !.terminate = answer]
<1>1. /\ at[r] \in {"agreeRow", "refuseTerminateRow"} /\ StateSeen(r) /\ TypeOK
      /\ UpdateRole(operator[r], row) /\ contract' = contract /\ Writes(r, {}, FALSE)
      /\ Goto(r, "agreeSum") \/ Goto(r, "resume")
  BY DEF AgreeRow, RefuseTerminateRow, IInv
<1>2. OwnRow(r) \in RoleRow
  BY <1>1 DEF StateSeen
<1>3. row \in RoleRow /\ row.signature = OwnRow(r).signature /\ row.confirmed = OwnRow(r).confirmed
  BY <1>2 DEF RoleRow
<1> HIDE DEF row
<1>4. /\ OthersSame(r) /\ at'[r] \in {"agreeSum", "resume"} /\ seen' = seen
      /\ at[r] \notin Midway /\ at[r] \in Loaded
  BY <1>1, GotoFacts DEF Place, Midway, Loaded
<1>5. ASSUME r \notin stale PROVE BlockKnown(r)' /\ (HasSigned' <=> HasSigned) /\ (Unconfirmed => Unconfirmed')
  <2>1. /\ roleRow' \in [Role -> RoleRow \cup {NoRow}] /\ Members' = Members /\ Members \subseteq Role
        /\ operator[r] \in Members /\ OwnRow(r) = roleRow[operator[r]]
        /\ \A q \in Role : roleRow'[q] = IF q = operator[r] THEN row ELSE roleRow[q]
    BY <1>1, <1>3, <1>5, OwnKnown
  <2>2. (HasSigned' <=> HasSigned) /\ (Unconfirmed' <=> Unconfirmed)
    BY <1>3, <2>1, RowWritten
  <2>3. contract.isBlock = seen[r].isBlock
    BY <1>1, <1>4, <1>5 DEF SInv, BlockKnown
  <2>4. BlockKnown(r)'
    BY <1>1, <1>4, <2>3 DEF BlockKnown
  <2> QED
    BY <2>2, <2>4
<1> QED
  BY <1>1, <1>4, <1>5, RowSums

(* Rows written back, or asked anew, by a loop.                            *)
LEMMA LoopSums ==
  ASSUME IInv, SInv, NEW r \in Request, TerminateRow(r) \/ AdditionRow(r) PROVE SInv'
<1> DEFINE p == NextOf(r)
           row == IF at[r] = "addition" THEN seenRows[r][p] ELSE Asked(r, p)
<1>1. /\ at[r] \in {"terminateRows", "addition"} /\ at[r] \notin Midway \cup Loaded /\ StateSeen(r)
      /\ TypeOK /\ contract # NoRow /\ RowsOK
      /\ UpdateRole(p, row) /\ LoopStep(r, p) /\ contract' = contract
      /\ r \notin stale => RowsKnown(r)
  BY Known, RowsType DEF TerminateRow, AdditionRow, LoopStep, IInv, Unborn, Midway, Loaded, Fresh
<1>2. p \in todo[r] /\ p \in Role /\ seenRows[r][p] \in RoleRow
  BY <1>1 DEF StateSeen, NextOf, TypeOK
<1>3. row \in RoleRow /\ row.signature = seenRows[r][p].signature /\ row.confirmed = seenRows[r][p].confirmed
  BY <1>2 DEF RoleRow, Asked
<1> HIDE DEF p, row
<1>4. PICK last \in BOOLEAN : /\ Writes(r, {}, last) /\ OthersSame(r) /\ (last <=> at'[r] = "idle")
                              /\ ~last => at'[r] = at[r]
  <2>1. CASE todo[r] = {p}
    BY <1>1, <2>1, ReturnFacts DEF LoopStep
  <2>2. CASE todo[r] # {p}
    <3>1. LoopsOn(r, p) /\ Writes(r, {}, FALSE)
      BY <1>1, <2>2 DEF LoopStep, LoopsOn
    <3> QED
      BY <1>1, <3>1, LoopFacts
  <2> QED
    BY <2>1, <2>2
<1>5. ASSUME r \notin stale PROVE (HasSigned' <=> HasSigned) /\ (Unconfirmed => Unconfirmed')
  <2>1. p \in Members /\ seenRows[r][p] = roleRow[p]
    BY <1>1, <1>2, <1>5 DEF RowsKnown
  <2>2. /\ roleRow' \in [Role -> RoleRow \cup {NoRow}] /\ Members' = Members
        /\ roleRow' = [roleRow EXCEPT ![p] = row]
    BY <1>1, <1>2, <1>3, <2>1, RoleUpdated
  <2>3. Members \subseteq Role /\ \A q \in Role : roleRow'[q] = IF q = p THEN row ELSE roleRow[q]
    BY <1>1, <1>2, <2>2 DEF Members, RowsOK
  <2> QED
    BY <1>2, <1>3, <2>1, <2>2, <2>3, RowWritten
<1>6. at[r] # "idle" /\ (~last => BlockKnown(r)')
  BY <1>1, <1>4 DEF BlockKnown, Loaded
<1> QED
  BY <1>1, <1>4, <1>5, <1>6, RowSums

(* addRole and removeRole.                                                 *)
LEMMA RoleSums ==
  ASSUME IInv, SInv, NEW r \in Request, AddRole(r) \/ RemoveRole(r) PROVE SInv'
<1>1. /\ at[r] \in {"insert", "remove"} /\ at[r] \notin Midway /\ at[r] # "idle"
      /\ TypeOK /\ contract # NoRow /\ RowsOK /\ other[r] \in Role /\ contract' = contract /\ Return(r)
  BY RowsType DEF AddRole, RemoveRole, IInv, Unborn, Midway, StateSeen
<1>2. OthersSame(r) /\ at'[r] = "idle"
  BY <1>1, ReturnFacts
<1>3. CASE AddRole(r)
  <2> DEFINE more == IF contract \in ContractRow /\ contract.state = Starting THEN {} ELSE {"late role"}
  <2>1. other[r] \notin Members /\ roleRow' = [roleRow EXCEPT ![other[r]] = NewRow(0)] /\ Writes(r, more, TRUE)
    BY <1>3 DEF AddRole
  <2> HIDE DEF more
  <2>2. NewRow(0) # NoRow /\ NewRow(0).signature = 0 /\ NewRow(0).confirmed = 0
    BY NoRowAssumption DEF NewRow, RoleRow
  <2>3. Members' = Members \cup {other[r]}
    BY <1>1, <2>1, <2>2 DEF Members, RowsOK
  <2>4. \A q \in Members : roleRow'[q] = roleRow[q]
    BY <1>1, <2>1 DEF Members, RowsOK
  <2>5. roleRow'[other[r]].signature = 0 /\ roleRow'[other[r]].confirmed = 0
    BY <1>1, <2>1, <2>2 DEF RowsOK
  <2>6. HasSigned' <=> HasSigned
    BY <2>3, <2>4, <2>5 DEF HasSigned
  <2>7. Unconfirmed'
    BY <2>3, <2>5 DEF Unconfirmed
  <2> QED
    BY <1>1, <1>2, <2>1, <2>6, <2>7, RowSums
<1>4. CASE RemoveRole(r)
  <2> DEFINE counts == \/ roleRow[other[r]].confirmed = 0
                       \/ roleRow[other[r]].signature = 1
                       \/ roleRow[other[r]].terminate = 1
             more == IF other[r] \in Members /\ counts THEN {"removed"} ELSE {}
  <2>1. roleRow' = [roleRow EXCEPT ![other[r]] = NoRow] /\ Writes(r, more, TRUE)
    BY <1>4 DEF RemoveRole
  <2>2. Unexcused' => ~(other[r] \in Members /\ (roleRow[other[r]].confirmed = 0 \/ roleRow[other[r]].signature = 1))
    BY <2>1 DEF Writes, Unexcused
  <2> HIDE DEF more
  <2>3. Members' = Members \ {other[r]}
    BY <1>1, <2>1 DEF Members, RowsOK
  <2>4. \A q \in Members \ {other[r]} : roleRow'[q] = roleRow[q]
    BY <1>1, <2>1 DEF Members, RowsOK
  <2>5. Unexcused' => (HasSigned' <=> HasSigned) /\ (Unconfirmed => Unconfirmed')
    BY <2>2, <2>3, <2>4 DEF HasSigned, Unconfirmed
  <2> QED
    BY <1>1, <1>2, <2>1, <2>5, RowSums
<1> QED
  BY <1>3, <1>4

(* Of a contract that is deleted nothing is said.                          *)
LEMMA DeleteSums ==
  ASSUME IInv, SInv, NEW r \in Request, DeleteContract(r) \/ DeleteRow(r) PROVE SInv'
<1> DEFINE p == NextOf(r)
<1>1. /\ at[r] \in {"deleteContract", "deleteRows"} /\ TypeOK /\ contract # NoRow
      /\ r \notin stale => ContractKnown(r)
  BY Known DEF DeleteContract, DeleteRow, IInv, Unborn
<1>2. CASE DeleteContract(r)
  <2>1. Goto(r, "deleteRows") /\ Writes(r, {}, FALSE) /\ contract' = Deleted /\ "deleteRows" \in Place
    BY <1>2 DEF DeleteContract, Place
  <2>2. OthersSame(r) /\ at'[r] = "deleteRows"
    BY <1>1, <2>1, GotoFacts
  <2>3. BlockKnown(r)' /\ Waiting' /\ Blocked'
    BY <2>1, <2>2, NoRowAssumption DEF BlockKnown, Waiting, Blocked, InState, Loaded
  <2> QED
    BY <1>1, <2>1, <2>2, <2>3, WriteSums
<1>3. CASE DeleteRow(r)
  <2>1. LoopStep(r, p) /\ contract' = contract /\ at[r] = "deleteRows"
    BY <1>3 DEF DeleteRow, LoopStep
  <2> HIDE DEF p
  <2>2. PICK last \in BOOLEAN : /\ Writes(r, {}, last) /\ OthersSame(r) /\ (last <=> at'[r] = "idle")
                                /\ ~last => at'[r] = at[r]
    <3>1. CASE todo[r] = {p}
      BY <1>1, <2>1, <3>1, ReturnFacts DEF LoopStep
    <3>2. CASE todo[r] # {p}
      <4>1. LoopsOn(r, p) /\ Writes(r, {}, FALSE)
        BY <2>1, <3>2 DEF LoopStep, LoopsOn
      <4> QED
        BY <1>1, <2>1, <4>1, LoopFacts
    <3> QED
      BY <3>1, <3>2
  <2>3. ~last => BlockKnown(r)'
    BY <2>1, <2>2 DEF BlockKnown, Loaded
  <2>4. r \notin stale => Waiting' /\ Blocked'
    BY <1>1, <2>1, NoRowAssumption DEF ContractKnown, Waiting, Blocked, InState
  <2> QED
    BY <1>1, <2>2, <2>3, <2>4, WriteSums
<1> QED
  BY <1>2, <1>3

(* addContract: nobody has signed, and its last row has not confirmed.     *)
LEMMA AddContractSums ==
  ASSUME IInv, SInv, NEW r \in Request, NEW roles \in SUBSET Role, AddContract(r, roles) PROVE SInv'
<1>1. /\ at[r] = "idle" /\ wrote = {} /\ Members = {} /\ TypeOK
      /\ contract' = [state |-> Starting, content |-> Blank, isBlock |-> 0]
      /\ at' = [at EXCEPT ![r] = "insertRole"] /\ todo' = [todo EXCEPT ![r] = roles]
      /\ operator' = operator /\ other' = other /\ seen' = seen /\ seenRows' = seenRows
      /\ Writes(r, {}, FALSE) /\ roleRow' = roleRow
  BY DEF AddContract, IInv, Unborn
<1>2. at'[r] = "insertRole" /\ OthersSame(r) /\ contract'.isBlock = 0
  BY <1>1 DEF TypeOK, OthersSame
<1>3. ~HasSigned'
  BY <1>1 DEF HasSigned, Members
<1>4. BlockKnown(r)' /\ Waiting' /\ Blocked'
  BY <1>2, <1>3 DEF BlockKnown, Waiting, Blocked, Loaded
<1> QED
  BY <1>1, <1>2, <1>4, WriteSums

LEMMA InsertSums ==
  ASSUME IInv, SInv, NEW r \in Request, InsertCreator(r) \/ InsertMember(r) PROVE SInv'
<1> DEFINE p == IF at[r] = "insertRole" THEN Creator ELSE NextOf(r)
           row == NewRow(IF at[r] = "insertRole" THEN 1 ELSE 0)
<1>1. /\ at[r] \in {"insertRole", "insertRoles"} /\ StateSeen(r) /\ TypeOK /\ contract # NoRow /\ RowsOK
      /\ contract' = contract /\ roleRow' = [roleRow EXCEPT ![p] = row]
      /\ r \notin stale => contract.isBlock = 0 /\ ~HasSigned
  BY RowsType DEF InsertCreator, InsertMember, IInv, Unborn, SInv, BlockKnown
<1>2. p \in Role
  BY <1>1, RoleAssumption DEF StateSeen, NextOf, TypeOK
<1>3. /\ row # NoRow /\ row.signature = 0
      /\ at[r] = "insertRoles" => row.confirmed = 0
  BY NoRowAssumption DEF NewRow, RoleRow
<1>4. PICK last \in BOOLEAN : /\ Writes(r, {}, last) /\ OthersSame(r) /\ (last <=> at'[r] = "idle")
                              /\ ~last => at'[r] = "insertRoles"
                              /\ last => at[r] = "insertRoles"
  <2>1. CASE InsertCreator(r)
    <3>1. Goto(r, "insertRoles") /\ Writes(r, {}, FALSE) /\ "insertRoles" \in Place
      BY <2>1 DEF InsertCreator, Place
    <3> QED
      BY <1>1, <3>1, GotoFacts
  <2>2. CASE InsertMember(r)
    <3> DEFINE q == NextOf(r)
    <3>1. at[r] = "insertRoles" /\ LoopStep(r, q)
      BY <2>2 DEF InsertMember, LoopStep
    <3> HIDE DEF q
    <3>2. CASE todo[r] = {q}
      BY <1>1, <3>1, <3>2, ReturnFacts DEF LoopStep
    <3>3. CASE todo[r] # {q}
      <4>1. LoopsOn(r, q) /\ Writes(r, {}, FALSE)
        BY <3>1, <3>3 DEF LoopStep, LoopsOn
      <4> QED
        BY <1>1, <3>1, <4>1, LoopFacts
    <3> QED
      BY <3>2, <3>3
  <2> QED
    BY <1>1, <2>1, <2>2
<1> HIDE DEF p, row
<1>5. Members' = Members \cup {p} /\ roleRow'[p] = row /\ \A q \in Members \ {p} : roleRow'[q] = roleRow[q]
  BY <1>1, <1>2, <1>3 DEF Members, RowsOK
<1>6. ASSUME r \notin stale PROVE (~last => BlockKnown(r)') /\ Waiting' /\ Blocked'
  <2>1. ~HasSigned' /\ contract'.isBlock = 0
    BY <1>1, <1>3, <1>5, <1>6 DEF HasSigned
  <2>2. last => Unconfirmed'
    BY <1>3, <1>4, <1>5 DEF Unconfirmed
  <2>3. ~last => BlockKnown(r)'
    BY <1>4, <2>1 DEF BlockKnown, Loaded
  <2>4. Waiting'
    BY <1>4, <2>2 DEF Waiting
  <2>5. Blocked'
    BY <2>1 DEF Blocked
  <2> QED
    BY <2>3, <2>4, <2>5
<1> QED
  BY <1>1, <1>4, <1>6, WriteSums

(* A confirmation goes on, or somebody else has still to confirm.          *)
LEMMA ConfirmRowSums ==
  ASSUME IInv, SInv, NEW r \in Request, ConfirmRow(r) PROVE SInv'
<1> DEFINE row == [OwnRow(r) EXCEPT !.confirmed = 1]
<1>1. /\ at[r] = "confirmRow" /\ StateSeen(r) /\ TypeOK /\ UpdateRole(operator[r], row)
      /\ contract' = contract /\ OwnRow(r) \in RoleRow
  BY DEF ConfirmRow, IInv, StateSeen
<1>2. row \in RoleRow /\ row.signature = OwnRow(r).signature
  BY <1>1 DEF RoleRow
<1> HIDE DEF row
<1>3. PICK last \in BOOLEAN : /\ Writes(r, {}, last) /\ OthersSame(r) /\ (last <=> at'[r] = "idle")
                              /\ ~last => at'[r] = "start" /\ seen' = seen
                              /\ last => ~IsStart(r)
  <2>1. CASE IsStart(r)
    <3>1. Goto(r, "start") /\ Writes(r, {}, FALSE) /\ "start" \in Place
      BY <2>1 DEF ConfirmRow, Place
    <3> QED
      BY <1>1, <3>1, GotoFacts
  <2>2. CASE ~IsStart(r)
    <3>1. Return(r) /\ Writes(r, {}, TRUE)
      BY <2>2 DEF ConfirmRow
    <3> QED
      BY <1>1, <2>2, <3>1, ReturnFacts
  <2> QED
    BY <2>1, <2>2
<1>4. ASSUME r \notin stale PROVE (~last => BlockKnown(r)') /\ Waiting' /\ Blocked'
  <2>1. /\ roleRow' \in [Role -> RoleRow \cup {NoRow}] /\ Members' = Members /\ Members \subseteq Role
        /\ operator[r] \in Members /\ OwnRow(r) = roleRow[operator[r]]
        /\ \A q \in Role : roleRow'[q] = IF q = operator[r] THEN row ELSE roleRow[q]
    BY <1>1, <1>2, <1>4, OwnKnown
  <2>2. HasSigned' <=> HasSigned
    BY <1>2, <2>1 DEF HasSigned
  <2>3. contract.isBlock = seen[r].isBlock
    BY <1>1, <1>4 DEF SInv, BlockKnown, Loaded
  <2>4. ~last => BlockKnown(r)'
    BY <1>1, <1>3, <2>3 DEF BlockKnown
  <2>5. last => Unconfirmed'
    <3> SUFFICES ASSUME last PROVE Unconfirmed'
      OBVIOUS
    <3>1. seenRows[r] = roleRow
      BY <1>1, <1>4 DEF IInv, Fresh, RowsKnown
    <3>2. PICK q \in Role \ {operator[r]} : roleRow[q] # NoRow /\ roleRow[q].confirmed = 0
      BY <1>3, <3>1 DEF IsStart
    <3>3. q \in Members /\ roleRow'[q] = roleRow[q]
      BY <2>1, <3>2 DEF Members
    <3> QED
      BY <2>1, <3>2, <3>3 DEF Unconfirmed
  <2>6. Waiting'
    BY <1>3, <2>5 DEF Waiting
  <2>7. Blocked'
    <3>1. causes \subseteq causes' /\ at[r] \notin {"block", "undoSum", "unblock"}
      BY <1>1, <1>3 DEF Writes
    <3>2. Unexcused' => Unexcused
      BY <3>1 DEF Unexcused
    <3> QED
      BY <1>1, <1>3, <2>2, <3>1, <3>2 DEF SInv, Blocked, OthersSame
  <2> QED
    BY <2>4, <2>6, <2>7
<1> QED
  BY <1>1, <1>3, <1>4, WriteSums

(* The steps of confirm, sign and undoSign that write the contract midway. *)
LEMMA MidwaySums ==
  ASSUME IInv, SInv, NEW r \in Request, Start(r) \/ Block(r) \/ Validate(r) \/ Unblock(r) PROVE SInv'
<1>1. at[r] \in {"start", "block", "validate", "unblock"} /\ at[r] \in Loaded /\ roleRow' = roleRow
  BY DEF Start, Block, Validate, Unblock, Loaded
<1>2. /\ TypeOK /\ RowsOK /\ seen[r] \in ContractRow /\ at[r] # "idle" /\ StateSeen(r)
      /\ r \notin stale => contract \in ContractRow /\ contract.state = seen[r].state /\ BlockKnown(r)
  BY <1>1, UpdaterKnows DEF IInv, SInv
<1>3. HasSigned' = HasSigned /\ Unconfirmed' = Unconfirmed
  BY <1>1 DEF HasSigned, Unconfirmed, Members
<1>4. CASE Start(r)
  <2> DEFINE row == [seen[r] EXCEPT !.state = NotConfirmed]
  <2>1. row \in ContractRow /\ row.isBlock = seen[r].isBlock /\ row.state = NotConfirmed
    BY <1>2 DEF ContractRow, NotConfirmed
  <2>2. UpdateContract(row) /\ Return(r) /\ Writes(r, {}, TRUE) /\ at[r] = "start"
    BY <1>4 DEF Start
  <2> HIDE DEF row
  <2>3. OthersSame(r) /\ at'[r] = "idle"
    BY <1>2, <2>2, ReturnFacts
  <2>4. ASSUME r \notin stale PROVE Waiting' /\ Blocked'
    <3>1. contract' = row /\ contract.isBlock = row.isBlock
      BY <1>2, <2>1, <2>2, <2>4, ContractUpdated DEF BlockKnown, Loaded
    <3>2. Waiting'
      BY <2>1, <3>1 DEF Waiting, InState, Starting, NotConfirmed
    <3>3. Unexcused' => Unexcused
      BY <2>2 DEF Unexcused, Writes
    <3>4. Blocked'
      BY <1>2, <1>3, <2>2, <2>3, <2>4, <3>1, <3>3 DEF SInv, Blocked, OthersSame
    <3> QED
      BY <3>2, <3>4
  <2> QED
    BY <1>2, <2>2, <2>3, <2>4, WriteSums
<1>5. CASE Block(r)
  <2> DEFINE row == [seen[r] EXCEPT !.isBlock = 1]
  <2>1. row \in ContractRow /\ row.isBlock = 1 /\ row.state = seen[r].state
    BY <1>2 DEF ContractRow
  <2>2. UpdateContract(row) /\ Goto(r, "signSum") /\ Writes(r, {}, FALSE) /\ at[r] = "block"
        /\ "signSum" \in Place
    BY <1>5 DEF Block, Place
  <2> HIDE DEF row
  <2>3. OthersSame(r) /\ at'[r] = "signSum"
    BY <1>2, <2>2, GotoFacts
  <2>4. ASSUME r \notin stale PROVE BlockKnown(r)' /\ Waiting' /\ Blocked'
    <3>1. contract' = row /\ HasSigned' /\ row.state = NotConfirmed
      BY <1>2, <1>3, <2>1, <2>2, <2>4, ContractUpdated DEF BlockKnown, StateSeen
    <3>2. Waiting'
      BY <3>1 DEF Waiting, InState, Starting, NotConfirmed
    <3>3. Blocked'
      BY <2>1, <3>1 DEF Blocked
    <3>4. BlockKnown(r)'
      BY <2>3, <3>1 DEF BlockKnown
    <3> QED
      BY <3>2, <3>3, <3>4
  <2> QED
    BY <1>2, <2>2, <2>3, <2>4, WriteSums
<1>6. CASE Validate(r)
  <2> DEFINE row == [seen[r] EXCEPT !.isBlock = 1, !.state = Valid]
  <2>1. row \in ContractRow /\ row.isBlock = 1 /\ row.state = Valid
    <3> DEFINE first == [seen[r] EXCEPT !.isBlock = 1]
    <3>1. first \in ContractRow /\ first.isBlock = 1
      BY <1>2 DEF ContractRow
    <3>2. row = [first EXCEPT !.state = Valid]
      OBVIOUS
    <3> HIDE DEF first, row
    <3> QED
      BY <3>1, <3>2 DEF ContractRow, Valid
  <2>2. UpdateContract(row) /\ Return(r) /\ Writes(r, {}, TRUE) /\ at[r] = "validate"
    BY <1>6 DEF Validate
  <2> HIDE DEF row
  <2>3. OthersSame(r) /\ at'[r] = "idle"
    BY <1>2, <2>2, ReturnFacts
  <2>4. ASSUME r \notin stale PROVE Waiting' /\ Blocked'
    <3>1. contract' = row /\ HasSigned'
      BY <1>2, <1>3, <2>1, <2>2, <2>4, ContractUpdated DEF BlockKnown
    <3>2. Waiting'
      BY <2>1, <3>1 DEF Waiting, InState, Starting, Valid
    <3>3. Blocked'
      BY <2>1, <3>1 DEF Blocked
    <3> QED
      BY <3>2, <3>3
  <2> QED
    BY <1>2, <2>2, <2>3, <2>4, WriteSums
<1>7. CASE Unblock(r)
  <2> DEFINE row == [seen[r] EXCEPT !.isBlock = 0]
  <2>1. row \in ContractRow /\ row.isBlock = 0 /\ row.state = seen[r].state
    BY <1>2 DEF ContractRow
  <2>2. UpdateContract(row) /\ Return(r) /\ Writes(r, {}, TRUE) /\ at[r] = "unblock"
    BY <1>7 DEF Unblock
  <2> HIDE DEF row
  <2>3. OthersSame(r) /\ at'[r] = "idle"
    BY <1>2, <2>2, ReturnFacts
  <2>4. ASSUME r \notin stale PROVE Waiting' /\ Blocked'
    <3>1. contract' = row /\ ~HasSigned' /\ contract.state = row.state
      BY <1>2, <1>3, <2>1, <2>2, <2>4, ContractUpdated DEF BlockKnown
    <3>2. Unexcused' => Unexcused
      BY <2>2 DEF Unexcused, Writes
    <3>3. Waiting'
      BY <1>2, <1>3, <2>2, <2>3, <2>4, <3>1, <3>2 DEF SInv, Waiting, InState, OthersSame
    <3>4. Blocked'
      BY <2>1, <3>1 DEF Blocked
    <3> QED
      BY <3>3, <3>4
  <2> QED
    BY <1>2, <2>2, <2>3, <2>4, WriteSums
<1> QED
  BY <1>4, <1>5, <1>6, <1>7

(* A signature, and its undoing: of a contract that some call has signed,  *)
(* nobody else is midway.                                                  *)
LEMMA SignatureSums ==
  ASSUME IInv, SInv, NEW r \in Request, SignRow(r) \/ UndoRow(r) PROVE SInv'
<1> DEFINE row == [OwnRow(r) EXCEPT !.signature = IF at[r] = "signRow" THEN 1 ELSE 0]
<1>1. /\ at[r] \in {"signRow", "undoRow"} /\ at[r] \in Loaded /\ StateSeen(r) /\ TypeOK
      /\ UpdateRole(operator[r], row) /\ contract' = contract /\ OwnRow(r) \in RoleRow
  BY DEF SignRow, UndoRow, IInv, StateSeen, Loaded
<1>2. /\ row \in RoleRow /\ row.confirmed = OwnRow(r).confirmed
      /\ at[r] = "signRow" => row.signature = 1
  BY <1>1 DEF RoleRow
<1> HIDE DEF row
<1>3. PICK more : /\ Writes(r, more, FALSE) /\ OthersSame(r) /\ seen' = seen
                  /\ at'[r] = IF at[r] = "signRow" THEN "block" ELSE "undoSum"
  <2>1. CASE SignRow(r)
    <3>1. Goto(r, "block") /\ Writes(r, {}, FALSE) /\ "block" \in Place /\ at[r] = "signRow"
      BY <2>1 DEF SignRow, Place
    <3> QED
      BY <1>1, <3>1, GotoFacts
  <2>2. CASE UndoRow(r)
    <3> DEFINE undone == IF seen[r].state \in {Terminating, Invalid} THEN {"undone"} ELSE {}
    <3>1. Goto(r, "undoSum") /\ Writes(r, undone, FALSE) /\ "undoSum" \in Place /\ at[r] = "undoRow"
      BY <2>2 DEF UndoRow, Place
    <3> HIDE DEF undone
    <3> QED
      BY <1>1, <3>1, GotoFacts
  <2> QED
    BY <2>1, <2>2
<1>4. ASSUME r \notin stale PROVE BlockKnown(r)' /\ Waiting' /\ Blocked'
  <2>1. /\ roleRow' \in [Role -> RoleRow \cup {NoRow}] /\ Members' = Members /\ Members \subseteq Role
        /\ operator[r] \in Members /\ OwnRow(r) = roleRow[operator[r]] /\ contract \in ContractRow
        /\ contract.state = seen[r].state
        /\ \A q \in Role : roleRow'[q] = IF q = operator[r] THEN row ELSE roleRow[q]
    BY <1>1, <1>2, <1>4, OwnKnown
  <2>2. contract.isBlock = seen[r].isBlock /\ BlockKnown(r)
    BY <1>1, <1>4 DEF SInv, BlockKnown
  <2>3. Unexcused' => Unexcused
    BY <1>3 DEF Unexcused, Writes
  <2>4. Blocked'
    BY <1>3 DEF Blocked
  <2>5. Waiting'
    <3>1. Unconfirmed' <=> Unconfirmed
      BY <1>2, <2>1 DEF Unconfirmed
    <3> QED
      BY <1>1, <1>3, <2>3, <3>1 DEF SInv, Waiting, InState, OthersSame
  <2>6. CASE at[r] = "signRow"
    <3>1. HasSigned'
      BY <1>2, <2>1, <2>6 DEF HasSigned
    <3> QED
      BY <1>1, <1>3, <2>2, <2>4, <2>5, <2>6, <3>1 DEF BlockKnown
  <2>7. CASE at[r] = "undoRow"
    <3>1. HasSigned
      BY <2>1, <2>2, <2>7 DEF HasSigned, BlockKnown
    <3>2. Unexcused' => contract.isBlock = 1
      <4> SUFFICES ASSUME Unexcused' PROVE contract.isBlock = 1
        OBVIOUS
      <4>1. \A s \in Request : at[s] \in {"block", "undoSum", "unblock"} => s \in wrote /\ s # r
        BY <2>7 DEF SInv, Marked, Midway
      <4>2. "overlap" \notin causes
        BY <2>3 DEF Unexcused
      <4>3. \A s \in wrote : s # r => r \in stale
        BY <2>7, <4>2 DEF IInv, OneWriter
      <4> QED
        BY <1>4, <2>1, <2>3, <3>1, <4>1, <4>3 DEF SInv, Blocked
    <3>3. BlockKnown(r)'
      BY <1>1, <1>3, <2>1, <2>2, <2>7, <3>2 DEF BlockKnown
    <3> QED
      BY <2>4, <2>5, <3>3
  <2> QED
    BY <1>1, <2>6, <2>7
<1> QED
  BY <1>1, <1>3, <1>4, WriteSums DEF Loaded

(* SInv holds before addContract,                                          *)
LEMMA InitSInv == Init => SInv
<1> SUFFICES ASSUME Init PROVE SInv
  OBVIOUS
<1>1. contract = NoRow /\ NoRow \notin ContractRow /\ stale = {} /\ wrote = {} /\ \A r \in Request : at[r] = "idle"
  BY NoRowAssumption DEF Init
<1>2. Marked
  BY <1>1 DEF Marked, Midway
<1>3. Waiting /\ Blocked
  BY <1>1 DEF Waiting, Blocked, InState
<1>4. \A r \in Request : BlockKnown(r)
  BY <1>1 DEF BlockKnown, Loaded
<1> QED
  BY <1>2, <1>3, <1>4 DEF SInv

LEMMA StutterSInv == SInv /\ UNCHANGED vars => SInv'
<1> SUFFICES ASSUME SInv, UNCHANGED vars PROVE SInv'
  OBVIOUS
<1>0. /\ contract' = contract /\ roleRow' = roleRow /\ at' = at /\ operator' = operator /\ seen' = seen
      /\ seenRows' = seenRows /\ stale' = stale /\ wrote' = wrote /\ causes' = causes
  BY DEF vars, rows, locals, history
<1>1. Members' = Members /\ HasSigned' = HasSigned /\ Unconfirmed' = Unconfirmed /\ Unexcused' = Unexcused
  BY <1>0 DEF Members, HasSigned, Unconfirmed, Unexcused
<1>2. Marked' /\ Waiting' /\ Blocked'
  BY <1>0, <1>1 DEF SInv, Marked, Waiting, Blocked, InState
<1>3. \A r \in Request \ stale : BlockKnown(r)'
  BY <1>0, <1>1 DEF SInv, BlockKnown, OwnRow
<1> QED
  BY <1>0, <1>2, <1>3 DEF SInv

(* and after every step.                                                   *)
LEMMA NextSInv == IInv /\ SInv /\ [Next]_vars => SInv'
<1> SUFFICES ASSUME IInv, SInv, [Next]_vars PROVE SInv'
  OBVIOUS
<1>1. ASSUME NEW r \in Request, Joining(r) PROVE SInv'
  BY <1>1, AddContractSums, InsertSums, BeginSums, ChecksSums, ConfirmRowSums, MidwaySums, DeleteSums DEF Joining
<1>2. ASSUME NEW r \in Request, Signing(r) PROVE SInv'
  BY <1>2, BeginSums, ChecksSums, SignatureSums, MidwaySums, SumSums DEF Signing
<1>3. ASSUME NEW r \in Request, Ending(r) PROVE SInv'
  BY <1>3, BeginSums, ChecksSums, StateSums, LoopSums, AnswerSums, SumSums DEF Ending
<1>4. ASSUME NEW r \in Request, Changing(r) PROVE SInv'
  BY <1>4, BeginSums, StateSums, BeginRoleSums, RoleSums, LoopSums DEF Changing
<1>5. CASE UNCHANGED vars
  BY <1>5, StutterSInv
<1> QED
  BY <1>1, <1>2, <1>3, <1>4, <1>5, CallThrowsSums DEF Next

(* The inductive invariant, over every interleaving of any requests.       *)
THEOREM Invariance == Spec => []IInv
<1> QED
  BY InitIInv, NextIInv, PTL DEF Spec

(* Every variable keeps its type: no call writes back a row it never read. *)
THEOREM TypeCorrect == Spec => []TypeOK
<1>1. IInv => TypeOK
  BY DEF IInv
<1> QED
  BY <1>1, Invariance, PTL

(* sign, undoSign, terminate and their write-backs of whole rows: a        *)
(* contract in force carries a signature of every alliance under its text. *)
THEOREM ContractIsSigned == Spec => []ValidIsSigned
<1>1. IInv => ValidIsSigned
  <2> SUFFICES ASSUME IInv, causes \subseteq {"late role"}, InState({Valid, Terminating, Invalid}),
                      NEW a \in Alliances
               PROVE  \E p \in RowsOf(a) : roleRow[p].signature = 1 /\ signed[p] = contract.content
    BY DEF ValidIsSigned
  <2>1. PICK p \in RowsOf(a) : roleRow[p].signature = 1
    BY DEF IInv, Promises, AllSigned, InForce
  <2>2. p \in Members /\ contract \in ContractRow
    BY DEF RowsOf, InState
  <2>3. signed[p] = contract.content
    BY <2>1, <2>2 DEF IInv, Promises, TextSigned
  <2> QED
    BY <2>1, <2>3
<1> QED
  BY <1>1, Invariance, PTL

(* terminate, agreeTerminate and refuseTerminate: a contract that has      *)
(* ended was agreed to by every alliance, in the last termination.         *)
THEOREM ContractIsAgreed == Spec => []EndedIsAgreed
<1>1. IInv => EndedIsAgreed
  <2> SUFFICES ASSUME IInv, causes \subseteq {"late role", "edited", "undone"}, InState({Invalid}),
                      NEW a \in Alliances
               PROVE  RowsOf(a) \cap agreed # {}
    BY DEF EndedIsAgreed
  <2>1. \E p \in RowsOf(a) : roleRow[p].terminate = 1 /\ p \in agreed
    BY DEF IInv, Promises, AllAgreed
  <2> QED
    BY <2>1
<1> QED
  BY <1>1, Invariance, PTL

(* confirm: past Starting every role of the contract has confirmed.        *)
THEOREM ContractIsConfirmed == Spec => []StartedIsConfirmed
<1>1. IInv => StartedIsConfirmed
  BY DEF IInv, Promises, Confirmed, StartedIsConfirmed, Past
<1> QED
  BY <1>1, Invariance, PTL

(* confirm, sign, undoSign and removeRole with the isBlock they write      *)
(* back: between calls the contract row says what its role rows say.       *)
THEOREM ContractSums == Spec => []ContractSumsUp
<1>1. IInv /\ SInv => ContractSumsUp
  <2> SUFFICES ASSUME SInv, causes \subseteq {"late role", "edited", "undone"}, Quiet
               PROVE  /\ InState({Starting}) => \E p \in Members : roleRow[p].confirmed = 0
                      /\ contract \in ContractRow =>
                           (contract.isBlock = 1 <=> \E p \in Members : roleRow[p].signature = 1)
    BY DEF ContractSumsUp
  <2>1. Unexcused
    BY DEF Unexcused
  <2>2. \A r \in Request : at[r] \notin {"insertRole", "insertRoles", "start", "block", "undoSum", "unblock"}
    BY DEF Quiet
  <2>3. InState({Starting}) => \E p \in Members : roleRow[p].confirmed = 0
    BY <2>1, <2>2 DEF SInv, Waiting, Unconfirmed
  <2>4. contract \in ContractRow =>
           (contract.isBlock = 1 <=> \E p \in Members : roleRow[p].signature = 1)
    BY <2>1, <2>2 DEF SInv, Blocked, HasSigned
  <2> QED
    BY <2>3, <2>4
<1>2. Init => IInv /\ SInv
  BY InitIInv, InitSInv
<1>3. IInv /\ SInv /\ [Next]_vars => (IInv /\ SInv)'
  BY NextIInv, NextSInv
<1> QED
  BY <1>1, <1>2, <1>3, PTL DEF Spec

(* Only refuseConfirm deletes a contract.                                  *)
LEMMA OnlyRefused ==
  ASSUME IInv, NEW r \in Request,
         Joining(r) \/ Signing(r) \/ Ending(r) \/ Changing(r) \/ CallThrows(r),
         contract \in ContractRow, contract' = Deleted
  PROVE  DeleteContract(r)
<1>0. Deleted \notin ContractRow /\ contract' # contract
  BY NoRowAssumption
<1>1. ASSUME at[r] \in Loaded, NEW row \in ContractRow, UpdateContract(row) PROVE FALSE
  BY <1>0, <1>1, NoRowAssumption DEF UpdateContract
<1>2. at[r] \in Loaded => seen[r] \in ContractRow
  BY UpdaterKnows
<1>3. CASE Joining(r)
  <2>1. ~Start(r)
    <3> SUFFICES ASSUME Start(r) PROVE FALSE
      OBVIOUS
    <3>1. at[r] \in Loaded /\ UpdateContract([seen[r] EXCEPT !.state = NotConfirmed])
      BY DEF Start, Loaded
    <3>2. [seen[r] EXCEPT !.state = NotConfirmed] \in ContractRow
      BY <1>2, <3>1 DEF ContractRow, NotConfirmed
    <3> QED
      BY <1>1, <3>1, <3>2
  <2>2. \A roles \in SUBSET Role : ~AddContract(r, roles)
    BY NoRowAssumption DEF AddContract
  <2> QED
    BY <1>0, <1>3, <2>1, <2>2
       DEF Joining, InsertCreator, InsertMember, Begin, ConfirmCheck, ConfirmRow, RefuseCheck,
           DeleteRow, Check, rows
<1>4. CASE Signing(r)
  <2>1. ~Block(r) /\ ~Unblock(r)
    <3>1. at[r] \in Loaded =>
             [seen[r] EXCEPT !.isBlock = 0] \in ContractRow /\ [seen[r] EXCEPT !.isBlock = 1] \in ContractRow
      BY <1>2 DEF ContractRow
    <3>2. Block(r) => at[r] \in Loaded /\ UpdateContract([seen[r] EXCEPT !.isBlock = 1])
      BY DEF Block, Loaded
    <3>3. Unblock(r) => at[r] \in Loaded /\ UpdateContract([seen[r] EXCEPT !.isBlock = 0])
      BY DEF Unblock, Loaded
    <3> QED
      BY <1>1, <3>1, <3>2, <3>3
  <2>2. ~Validate(r)
    <3> SUFFICES ASSUME Validate(r) PROVE FALSE
      OBVIOUS
    <3>1. at[r] \in Loaded /\ UpdateContract([seen[r] EXCEPT !.isBlock = 1, !.state = Valid])
      BY DEF Validate, Loaded
    <3> DEFINE first == [seen[r] EXCEPT !.isBlock = 1]
    <3>2. first \in ContractRow
      BY <1>2, <3>1 DEF ContractRow
    <3>3. [first EXCEPT !.state = Valid] \in ContractRow
      <4> HIDE DEF first
      <4> QED
        BY <3>2 DEF ContractRow, Valid
    <3>4. [seen[r] EXCEPT !.isBlock = 1, !.state = Valid] = [first EXCEPT !.state = Valid]
      OBVIOUS
    <3> HIDE DEF first
    <3> QED
      BY <1>1, <3>1, <3>3, <3>4
  <2> QED
    BY <1>0, <1>4, <2>1, <2>2
       DEF Signing, Begin, SignCheck, SignRow, SignSum, UndoCheck, UndoRow, UndoSum, Check, rows
<1>5. CASE Ending(r)
  <2>1. ~TerminateContract(r) /\ ~End(r) /\ ~Resume(r)
    <3>1. at[r] \in Loaded =>
             /\ [seen[r] EXCEPT !.state = Terminating] \in ContractRow
             /\ [seen[r] EXCEPT !.state = Invalid] \in ContractRow
             /\ [seen[r] EXCEPT !.state = Valid] \in ContractRow
      BY <1>2 DEF ContractRow, Terminating, Invalid, Valid
    <3>2. TerminateContract(r) =>
             at[r] \in Loaded /\ UpdateContract([seen[r] EXCEPT !.state = Terminating])
      BY DEF TerminateContract, Loaded
    <3>3. End(r) => at[r] \in Loaded /\ UpdateContract([seen[r] EXCEPT !.state = Invalid])
      BY DEF End, Loaded
    <3>4. Resume(r) => at[r] \in Loaded /\ UpdateContract([seen[r] EXCEPT !.state = Valid])
      BY DEF Resume, Loaded
    <3> QED
      BY <1>1, <3>1, <3>2, <3>3, <3>4
  <2> QED
    BY <1>0, <1>5, <2>1
       DEF Ending, Begin, TerminateCheck, TerminateRow, AnswerCheck, AgreeRow, AgreeSum,
           RefuseTerminateRow, Check, rows
<1>6. CASE Changing(r)
  <2>1. ASSUME NEW text \in Content, Edit(r, text) PROVE FALSE
    <3> DEFINE first == [seen[r] EXCEPT !.content = text]
    <3>1. at[r] \in Loaded /\ UpdateContract([first EXCEPT !.state = NotConfirmed])
      BY <2>1 DEF Edit, Loaded
    <3>2. first \in ContractRow
      BY <1>2, <3>1 DEF ContractRow
    <3> HIDE DEF first
    <3>3. [first EXCEPT !.state = NotConfirmed] \in ContractRow
      BY <3>2 DEF ContractRow, NotConfirmed
    <3> QED
      BY <1>1, <3>1, <3>3
  <2> QED
    BY <1>0, <1>6, <2>1
       DEF Changing, Begin, BeginAddRole, AddRole, BeginRemoveRole, RemoveRole, BeginAddition,
           AdditionRow, rows
<1>7. CASE CallThrows(r)
  BY <1>0, <1>7 DEF CallThrows, rows
<1> QED
  BY <1>3, <1>4, <1>5, <1>6, <1>7

(* refuseConfirm deletes the contract: never one in force, whose roles     *)
(* have all confirmed, while the one that refuses has not.                 *)
THEOREM ContractIsKept == Spec => InForceIsKept
<1> DEFINE Kept == InState({Valid, Terminating, Invalid}) /\ contract' = Deleted
                      => causes' \cap {"overlap", "failure", "edited", "late role"} # {}
<1>1. IInv /\ [Next]_vars => [Kept]_vars
  <2> SUFFICES ASSUME IInv, Next, contract \in ContractRow, contract.state \in InForce,
                      contract' = Deleted
               PROVE  causes' \cap {"overlap", "failure", "edited", "late role"} # {}
    BY DEF InState, InForce
  <2>1. PICK r \in Request : Joining(r) \/ Signing(r) \/ Ending(r) \/ Changing(r) \/ CallThrows(r)
    BY DEF Next
  <2>2. DeleteContract(r)
    BY <2>1, OnlyRefused
  <2>3. CASE r \in stale
    BY <2>2, <2>3 DEF DeleteContract, Writes
  <2>4. CASE r \notin stale
    <3>1. operator[r] \in Members /\ roleRow[operator[r]].confirmed = 0
      BY <2>2, <2>4, Known DEF DeleteContract, RowsKnown
    <3>2. causes \cap {"overlap", "edited", "late role"} # {}
      <4>1. contract.state \in Past
        BY DEF Past, InForce
      <4>2. Confirmed /\ InState(Past)
        BY <4>1 DEF IInv, Promises, InState
      <4>3. roleRow[operator[r]].confirmed # 1
        BY <3>1
      <4> QED
        BY <3>1, <4>2, <4>3 DEF Confirmed
    <3>3. causes \subseteq causes'
      BY <2>2 DEF DeleteContract, Writes
    <3> QED
      BY <3>2, <3>3
  <2> QED
    BY <2>3, <2>4
<1> QED
  BY <1>1, Invariance, PTL DEF Spec, InForceIsKept
=============================================================================
