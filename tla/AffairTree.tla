----------------------------- MODULE AffairTree -----------------------------
(***************************************************************************)
(* The affairs of one alliance and their open tasks: AffairService.  The   *)
(* tree is stored twice, as the parent of each affair and as its path, and *)
(* a subtree is found by LIKE on the text of the path.  createAffair and   *)
(* disableAffair are transactions: they read, and what they write appears  *)
(* at their commit.  A move updates row by row without a transaction.      *)
(*                                                                         *)
(* The reads of a call are one step.  What this leaves out, a write of     *)
(* another call between two of them, is an overlap, and the properties     *)
(* excuse overlaps.                                                        *)
(***************************************************************************)
EXTENDS Integers, Sequences, FiniteSets

CONSTANTS
    Request,    \* the request threads
    MaxAffair,  \* bound: affairs are numbered 1..MaxAffair, the root is 1
    MaxTask,    \* bound: open tasks of one affair
    MaxIndex,   \* bound: index of a child
    Place,      \* the places of the digits of an index; 1, 10, 100, ... in the code
    NoRow

Affair == 1..MaxAffair

(* enums.state.ValidState *)
Valid == 0   Invalid == 1

VARIABLES
    affair,     \* the rows of the table affair
    tasks,      \* the number of tasks of each affair that are OnGoing
    at,         \* the next step of each request
    subject,    \* affairId of the call
    row,        \* the row the call is going to write, or has read
    todo,       \* new paths and levels its loop has still to write
    closing,    \* the affair whose task disableAffair closes, 0 when none
    stale,      \* history: requests whose rows another one has overwritten
    wrote,      \* history: requests in progress that have written
    causes      \* history: what has happened that a property may excuse

tables  == <<affair, tasks>>
locals  == <<at, subject, row, todo, closing>>
history == <<stale, wrote, causes>>
vars    == <<tables, locals, history>>

Cause == {"overlap", "failure", "moved", "outsider"}

Path == Seq(Nat \ {0}) \ {<<>>}

Row == [parent : 0..MaxAffair, path : Path, level : Int, state : {Valid, Invalid}]

ASSUME ConstantsAssumption ==
    /\ MaxAffair \in Nat \ {0} /\ MaxTask \in Nat /\ MaxIndex \in Nat \ {0}
    /\ 1 \in Place /\ Place \subseteq Nat \ {0}
    /\ NoRow \notin Row

TypeOK ==
    /\ affair  \in [Affair -> Row \cup {NoRow}]
    /\ tasks   \in [Affair -> 0..MaxTask]
    /\ at      \in [Request -> {"idle", "create", "move", "moveKids", "disable", "enable"}]
    /\ subject \in [Request -> 0..MaxAffair]
    /\ row     \in [Request -> Row \cup {NoRow}]
    /\ closing \in [Request -> 0..MaxAffair]
    /\ stale   \in SUBSET Request /\ wrote \in SUBSET Request
    /\ causes  \in SUBSET Cause

(* createRootAffair: path "/1", level 1.                                   *)
RootRow == [parent |-> 0, path |-> <<1>>, level |-> 1, state |-> Valid]

Init ==
    /\ affair  = [a \in Affair |-> IF a = 1 THEN RootRow ELSE NoRow]
    /\ tasks   = [a \in Affair |-> 0]
    /\ at      = [r \in Request |-> "idle"]
    /\ subject = [r \in Request |-> 0]
    /\ row     = [r \in Request |-> NoRow]
    /\ todo    = [r \in Request |-> {}]
    /\ closing = [r \in Request |-> 0]
    /\ stale   = {} /\ wrote = {} /\ causes = {}

-----------------------------------------------------------------------------
(* Paths as texts.  "/1-2-1" is <<1, 2, 1>>.                               *)

Rows == {a \in Affair : affair[a] # NoRow}
LastOf(path) == path[Len(path)]

(* The digits of i begin those of j; w is the place of the last of them.   *)
Shared(i, j) == {w \in Place : j \div w = i}

(* The text of p begins the text of q: the last index of p may be cut off  *)
(* in the middle of an index of q.                                         *)
TextPrefix(p, q) ==
    /\ Len(p) <= Len(q)
    /\ \A i \in 1..(Len(p) - 1) : p[i] = q[i]
    /\ Shared(LastOf(p), q[Len(p)]) # {}

(* Wrong variant of MovedPath: the old prefix stays.                       *)
MovedPathKeeps(old, new, q) == new \o SubSeq(q, Len(old), Len(q))

(* basePath + difference(oldPath, q): what follows the text of old in the  *)
(* text of q is put behind the text of new.                                *)
MovedPath(old, new, q) ==
    LET w    == CHOOSE w \in Shared(LastOf(old), q[Len(old)]) : TRUE
        tail == q[Len(old)] % w
    IN  SubSeq(new, 1, Len(new) - 1)
        \o <<LastOf(new) * w + tail>>
        \o SubSeq(q, Len(old) + 1, Len(q))

(* SELECT ... WHERE path LIKE path%                                        *)
Like(path) == {a \in Rows : TextPrefix(path, affair[a].path)}

-----------------------------------------------------------------------------
(* The tree of the parents.                                                *)

Children(a) == {b \in Rows : affair[b].parent = a}

(* a and what is below it: what every set has that has a and, with an      *)
(* affair, its children.                                                   *)
Closed(S) == \A c \in S : Children(c) \subseteq S

Subtree(a) == {b \in Rows : \A S \in SUBSET Rows : a \in S /\ Closed(S) => b \in S}

(* Wrong variant of NewIndex: children are numbered from 0.                *)
NewIndexFromZero(a) == Cardinality(Children(a))

(* Wrong variant of NewIndex: the second child gets the index of the first. *)
NewIndexFromCount(a) == IF Children(a) = {} THEN 1 ELSE Cardinality(Children(a))

(* count of the children, plus one                                         *)
NewIndex(a) == Cardinality(Children(a)) + 1

IsChildAffair(c, p) ==
    \/ affair[c].parent = p
    \/ /\ affair[c].level > affair[p].level
       /\ \A i \in 1..affair[p].level : affair[p].path[i] = affair[c].path[i]

-----------------------------------------------------------------------------
Call(r, place, a, newRow, newTodo, task) ==
    /\ at'      = [at EXCEPT ![r] = place]
    /\ subject' = [subject EXCEPT ![r] = a]
    /\ row'     = [row EXCEPT ![r] = newRow]
    /\ todo'    = [todo EXCEPT ![r] = newTodo]
    /\ closing' = [closing EXCEPT ![r] = task]

Return(r) == Call(r, "idle", 0, NoRow, {}, 0)

(* Reads of half a move are an overlap; a LIKE that catches affairs from   *)
(* outside the subtree of a is noted.                                      *)
Reads(r, caught, a) ==
    /\ causes' = causes
         \cup (IF wrote \ {r} # {} THEN {"overlap"} ELSE {})
         \cup (IF caught \subseteq Subtree(a) THEN {} ELSE {"outsider"})
    /\ UNCHANGED <<stale, wrote>>

Writes(r, more, last) ==
    /\ causes' = causes \cup more \cup (IF r \in stale THEN {"overlap"} ELSE {})
    /\ stale'  = (stale \cup {s \in Request \ {r} : at[s] # "idle"}) \ (IF last THEN {r} ELSE {})
    /\ wrote'  = IF last THEN wrote \ {r} ELSE wrote \cup {r}

-----------------------------------------------------------------------------
(* createAffair: the parent may be in any state.                           *)
CreateAffair(r, p) ==
    /\ at[r] = "idle" /\ p \in Rows /\ NewIndex(p) <= MaxIndex
    /\ Call(r, "create", p,
            [parent |-> p, path |-> Append(affair[p].path, NewIndex(p)),
             level |-> affair[p].level + 1, state |-> Valid], {}, 0)
    /\ Reads(r, {}, p)
    /\ UNCHANGED tables

SaveAffair(r) ==
    /\ at[r] = "create" /\ Rows # Affair
    /\ affair' = [affair EXCEPT ![Cardinality(Rows) + 1] = row[r]]
    /\ Return(r)
    /\ Writes(r, {}, TRUE)
    /\ UNCHANGED tasks

-----------------------------------------------------------------------------
(* moveAffair and handleMoveAffair, when the mover is allowed to: shiftAffair. *)

(* Wrong variant of MayMove: below itself is allowed.                      *)
MayMoveAnywhere(a, b) == a # b

(* An affair must not come below itself.                                   *)
MayMove(a, b) == ~TextPrefix(affair[a].path, affair[b].path)

ShiftAffair(r, a, b) ==
    LET source == affair[a]
        target == affair[b]
        path   == Append(target.path, NewIndex(b))
        kids   == Like(source.path)
    IN  /\ at[r] = "idle" /\ a \in Rows /\ b \in Rows
        /\ MayMove(a, b) /\ NewIndex(b) <= MaxIndex
        /\ Call(r, "move", a,
                [source EXCEPT !.parent = b, !.level = target.level + 1, !.path = path],
                {[id |-> k, path |-> MovedPath(source.path, path, affair[k].path),
                  level |-> affair[k].level + target.level - source.level + 1] : k \in kids},
                0)
        /\ Reads(r, kids, a)
        /\ UNCHANGED tables

(* sourceAffair.update() writes the whole row back.                        *)
MoveSource(r) ==
    /\ at[r] = "move"
    /\ affair' = [affair EXCEPT ![subject[r]] = row[r]]
    /\ at' = [at EXCEPT ![r] = "moveKids"]
    /\ LET old == affair[subject[r]]
       IN  Writes(r, IF old.parent # row[r].parent
                        /\ LastOf(old.path) = Cardinality(Children(old.parent))
                     THEN {} ELSE {"moved"}, FALSE)
    /\ UNCHANGED <<tasks, subject, row, todo, closing>>

MoveKid(r, k) ==
    /\ at[r] = "moveKids" /\ k \in todo[r]
    /\ affair' = [affair EXCEPT ![k.id].path = k.path, ![k.id].level = k.level]
    /\ IF todo[r] = {k}
       THEN Return(r) /\ Writes(r, {}, TRUE)
       ELSE /\ todo' = [todo EXCEPT ![r] = @ \ {k}]
            /\ Writes(r, {}, FALSE)
            /\ UNCHANGED <<at, subject, row, closing>>
    /\ UNCHANGED tasks

-----------------------------------------------------------------------------
(* disableAffair.  The loop over the tasks stores every id at index 0, so  *)
(* one task is closed, of whichever affair came last in the list.          *)
DisableAffair(r, a) ==
    /\ at[r] = "idle" /\ a \in Rows
    /\ LET listed == Like(affair[a].path)
           busy   == {k \in listed : tasks[k] > 0}
       IN  /\ \E task \in IF busy = {} THEN {0} ELSE busy :
                Call(r, "disable", a, NoRow,
                     {[id |-> k, path |-> <<>>, level |-> 0] : k \in listed}, task)
           /\ Reads(r, listed, a)
    /\ UNCHANGED tables

(* Wrong variant of DisableCommit: the affair alone is disabled.           *)
DisableOne(r) ==
    /\ at[r] = "disable"
    /\ affair' = [affair EXCEPT ![subject[r]].state = Invalid]
    /\ UNCHANGED tasks
    /\ Return(r)
    /\ Writes(r, {}, TRUE)

DisableCommit(r) ==
    /\ at[r] = "disable"
    /\ LET ids == {k.id : k \in todo[r]} \cup {subject[r]}
       IN  affair' = [a \in Affair |->
                        IF a \in ids THEN [affair[a] EXCEPT !.state = Invalid] ELSE affair[a]]
    /\ tasks' = [a \in Affair |->
                   IF a = closing[r] /\ tasks[a] > 0 THEN tasks[a] - 1 ELSE tasks[a]]
    /\ Return(r)
    /\ Writes(r, {}, TRUE)

(* enableAffair: the path is read, then every path LIKE it is enabled.     *)
EnableAffair(r, a) ==
    /\ at[r] = "idle" /\ a \in Rows
    /\ Call(r, "enable", a, affair[a], {}, 0)
    /\ Reads(r, {}, a)
    /\ UNCHANGED tables

EnableCommit(r) ==
    /\ at[r] = "enable"
    /\ affair' = [a \in Affair |->
                    IF a \in Like(row[r].path) THEN [affair[a] EXCEPT !.state = Valid]
                    ELSE affair[a]]
    /\ Return(r)
    /\ Writes(r, IF Like(row[r].path) \subseteq Subtree(subject[r]) THEN {}
                 ELSE {"outsider"}, TRUE)
    /\ UNCHANGED tasks

(* TaskService.addTask, as far as the affair is concerned.                 *)
AddTask(r, a) ==
    /\ at[r] = "idle" /\ a \in Rows /\ tasks[a] < MaxTask
    /\ tasks' = [tasks EXCEPT ![a] = @ + 1]
    /\ stale' = stale \cup {s \in Request \ {r} : at[s] = "disable"}
    /\ UNCHANGED <<affair, locals, wrote, causes>>

(* A statement throws: a transaction is rolled back, a move stays half done. *)
CallThrows(r) ==
    /\ at[r] # "idle"
    /\ Return(r)
    /\ causes' = IF r \in wrote THEN causes \cup {"failure"} ELSE causes
    /\ stale'  = stale \ {r}
    /\ wrote'  = wrote \ {r}
    /\ UNCHANGED tables

Next == \E r \in Request :
    \/ \E p \in Affair : CreateAffair(r, p)
    \/ SaveAffair(r)
    \/ \E a, b \in Affair : ShiftAffair(r, a, b)
    \/ MoveSource(r)
    \/ \E k \in todo[r] : MoveKid(r, k)
    \/ \E a \in Affair : DisableAffair(r, a)
    \/ DisableCommit(r)
    \/ \E a \in Affair : EnableAffair(r, a)
    \/ EnableCommit(r)
    \/ \E a \in Affair : AddTask(r, a)
    \/ CallThrows(r)

Spec == Init /\ [][Next]_vars

-----------------------------------------------------------------------------
(* Properties.  Each names the causes that may break it.                   *)

Unless(excuses) == causes \cap excuses = {}

(* No move is half done.                                                   *)
Settled == wrote = {}

(* The path of an affair is its parent's and one index, and its level is   *)
(* the length of the path: the two pictures of the tree agree.  Overlaps,  *)
(* half moves, and moves that took outsiders along, excepted.              *)
PathsFollowParents ==
    Unless({"overlap", "failure", "outsider"}) /\ Settled =>
        \A a \in Rows \ {1} :
            /\ Len(affair[a].path) = affair[a].level
            /\ affair[affair[a].parent].path = SubSeq(affair[a].path, 1, affair[a].level - 1)

(* The paths tell the affairs and their descent: no two affairs share one, *)
(* and isChildAffair answers whether one affair is below another; unless   *)
(* an affair that was not the last child has left its parent, so that the  *)
(* count gives its index again.                                            *)
PathsTellDescent ==
    Unless(Cause) /\ Settled =>
        \A a, b \in Rows : a # b =>
            /\ affair[a].path # affair[b].path
            /\ IsChildAffair(a, b) <=> a \in Subtree(b)

(* Every affair hangs under the root: no move closes a cycle.              *)
NoCycle == Unless({"overlap", "failure", "outsider"}) => Subtree(1) = Rows

(* disableAffair disables the affair and all that is below it, and nothing *)
(* else.                                                                   *)
DisableIsTheSubtree ==
    [][ \A r \in Request :
          DisableCommit(r) /\ causes' \cap {"overlap", "failure", "outsider"} = {} =>
            \A a \in Rows :
                IF a \in Subtree(subject[r]) THEN affair'[a].state = Invalid
                ELSE affair'[a].state = affair[a].state ]_vars
-----------------------------------------------------------------------------
(* What the proofs need beside the properties: an inductive invariant.     *)

Begins == {"create", "move", "disable", "enable"}
NewPaths == [id : Affair, path : Seq(Nat \ {0}), level : Int]

Types ==
    /\ TypeOK
    /\ \E n \in 1..MaxAffair : Rows = 1..n
    /\ todo \in [Request -> SUBSET NewPaths]
    /\ \A r \in Request :
        /\ at[r] \in {"create", "move", "moveKids", "enable"} => row[r] # NoRow
        /\ at[r] \in {"create", "move", "moveKids", "disable"} => subject[r] \in Rows
        /\ \A k \in todo[r] : k.id \in Rows
        /\ at[r] \in {"move", "moveKids"} => \A k \in todo[r] : k.path \in Path

Sound == Unless({"overlap", "failure", "outsider"})

(* One call at most is half done, and all that began before it wrote are   *)
(* stale.                                                                  *)
OneWriter ==
    \A r \in wrote :
        /\ at[r] = "moveKids" /\ r \notin stale
        /\ \A s \in Request \ {r} : at[s] = "idle" \/ s \in stale

(* What a move has still to write, and the path each affair has after it.  *)
Owed    == UNION {todo[r] : r \in wrote}
Owes(a) == {k \in Owed : k.id = a}
PathOf(a) == IF Owes(a) = {} THEN affair[a].path ELSE (CHOOSE k \in Owes(a) : TRUE).path

(* Each affair has the path of its parent and one index, as soon as a move *)
(* has written what it owes.                                               *)
Follows ==
    /\ affair[1].parent = 0 /\ PathOf(1) = <<1>>
    /\ \A a \in Rows \ {1} :
        /\ affair[a].parent \in Rows
        /\ PathOf(a) = Append(PathOf(affair[a].parent), LastOf(PathOf(a)))
    /\ \A j, k \in Owed : j.id = k.id => j = k
    /\ \A k \in Owed : k.level = Len(k.path)
    /\ \A a \in Rows : Owes(a) = {} => affair[a].level = Len(affair[a].path)

(* Without a move that left a gap the children of an affair have indices   *)
(* of their own, none above their number.                                  *)
Numbered ==
    \A a \in Rows : \A b, c \in Children(a) :
        /\ LastOf(PathOf(b)) <= Cardinality(Children(a))
        /\ LastOf(PathOf(b)) = LastOf(PathOf(c)) => b = c

(* The row of an affair whose parent becomes p.                            *)
Below(p) == [parent |-> p, path |-> Append(affair[p].path, NewIndex(p)),
             level |-> affair[p].level + 1]

Agrees(x, y) == x.parent = y.parent /\ x.path = y.path /\ x.level = y.level

(* What a call that is not stale knows of the tables: one that is at place *)
(* for affair a, with the row w and the new paths it has to write.         *)
Knows(place, a, w, paths) ==
    /\ place \in {"create", "move"} => w.parent \in Rows /\ Agrees(w, Below(w.parent))
    /\ place = "move" =>
         /\ w.parent \notin Subtree(a)
         /\ paths = {[id |-> k, path |-> MovedPath(affair[a].path, w.path, affair[k].path),
                      level |-> affair[k].level + affair[w.parent].level - affair[a].level + 1] :
                     k \in Subtree(a)}
    /\ place = "disable" => {k.id : k \in paths} = Subtree(a)

IInv ==
    /\ Types
    /\ \A r \in Request : at[r] = "moveKids" <=> r \in wrote
    /\ Sound =>
         /\ OneWriter /\ Follows
         /\ \A r \in Request : at[r] # "idle" /\ r \notin stale =>
              Knows(at[r], subject[r], row[r], todo[r])
         /\ causes = {} => Numbered
=============================================================================
