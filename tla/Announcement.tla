---------------------------- MODULE Announcement ----------------------------
(***************************************************************************)
(* The announcements of one alliance and their stored versions             *)
(* (AnnouncementService).  The row of an announcement holds the latest     *)
(* content; a history row per version holds the edits that lead up to the  *)
(* next version (increment) and back to the one before (decrement); every  *)
(* SNAPSHOT_INTERVAL versions the content is stored as a snapshot.  No     *)
(* method runs in a transaction: each database call is a step of its own,  *)
(* and update() writes back every column of the row loaded before.         *)
(***************************************************************************)
EXTENDS Naturals, Sequences, FiniteSets, BlockDiff

CONSTANTS Id,                \* announcements of the alliance
          Request,           \* requests served at a time
          Content,           \* papers a client sends
          Setting,           \* columns modifyPublicType and modifyStuck set
          SNAPSHOT_INTERVAL,
          MaxVersion         \* bound on the versions of an announcement

ASSUME ConstantsAssumption ==
  /\ Content \subseteq Seq(UNION {{c[i] : i \in DOMAIN c} : c \in Content})
  /\ SNAPSHOT_INTERVAL \in Nat \ {0} /\ MaxVersion \in Nat \ {0}

VARIABLES
  row,       \* announcement -> None or its row
  history,   \* history rows, in the order of their ids
  snapshot,  \* snapshot rows
  call,      \* request -> Idle or the call it serves
  causes     \* announcement -> what may have disturbed its rows

vars == <<row, history, snapshot, call, causes>>

None == [version |-> 0]   \* no such row: selectOne and findById return null
Idle == [step |-> "idle"]
Level == 0..1

Rows == [version : 1..MaxVersion, content : Content, set : [Setting -> Level],
         valid : BOOLEAN]
Busy == {"load", "increment", "update", "insert", "snapshot", "setAll",
         "findLast", "last"}

(***************************************************************************)
(* The history row of a new version.  "saved" is the content it stands     *)
(* for: the table has no such column, the properties compare with it.      *)
(***************************************************************************)
HistoryOf(a, r, decrement) ==
  [announcement |-> a, version |-> r.version, set |-> r.set, valid |-> r.valid,
   increment |-> NoEdits, decrement |-> decrement, saved |-> r.content]

Of(a) == {i \in DOMAIN history : history[i].announcement = a}
(* Wrong variant of OfVersion: every version of the announcement.          *)
OfAnyVersion(a, v) == Of(a)

OfVersion(a, v) == {i \in Of(a) : history[i].version = v}

(* UPDATE announcement_history SET ... WHERE: the rows that were found get  *)
(* their new columns.                                                      *)
SetColumns(new) ==
  history' = [i \in DOMAIN history |->
                IF i \in DOMAIN new THEN new[i] ELSE history[i]]

Running(a) == {r \in Request : call[r].step \in Busy /\ call[r].id = a}

(***************************************************************************)
(* A call begins with its row loaded; a row that is not there ends it.     *)
(* Calls that run at once on one announcement are noted: an "edit" where   *)
(* one of them saves a new version, else an "overlap".                     *)
(***************************************************************************)
Disturbance(a, op) ==
  IF Running(a) = {} THEN {}
  ELSE IF op = "save" \/ \E r \in Running(a) : call[r].op = "save"
       THEN {"edit"} ELSE {"overlap"}

Begin(r, a, next) ==
  /\ call[r] = Idle /\ row[a] # None
  /\ call' = [call EXCEPT ![r] = next]
  /\ causes' = [causes EXCEPT ![a] = @ \union Disturbance(a, next.op)]
  /\ UNCHANGED <<row, history, snapshot>>

End(r) == call' = [call EXCEPT ![r] = Idle]
Step(r, s) == call' = [call EXCEPT ![r].step = s]

Init ==
  /\ row = [a \in Id |-> None] /\ history = <<>> /\ snapshot = {}
  /\ call = [r \in Request |-> Idle] /\ causes = [a \in Id |-> {}]

(***************************************************************************)
(* createAnnouncement: the row with version 1, then its history.           *)
(***************************************************************************)
(* Wrong variant of Create: the row alone.                                 *)
CreateRowOnly(r, a, c, s) ==
  /\ call[r] = Idle /\ row[a] = None
  /\ row' = [row EXCEPT ![a] =
              [version |-> 1, content |-> c, set |-> s, valid |-> TRUE]]
  /\ UNCHANGED <<history, snapshot, call, causes>>

Create(r, a, c, s) ==
  /\ call[r] = Idle /\ row[a] = None
  /\ LET new == [version |-> 1, content |-> c, set |-> s, valid |-> TRUE]
     IN  /\ row' = [row EXCEPT ![a] = new]
         /\ call' = [call EXCEPT ![r] =
                       [step |-> "insert", op |-> "create", id |-> a, row |-> new,
                        decrement |-> Compare(c, <<>>)]]
  /\ UNCHANGED <<history, snapshot, causes>>

(***************************************************************************)
(* save: the increment of the latest history rows, the row, the history of *)
(* the new version, the snapshot.  An edit list that cannot be computed    *)
(* throws: the first before anything is written, the second after the      *)
(* increment.                                                              *)
(***************************************************************************)
Save(r, a, c) ==
  /\ row[a] # None /\ row[a].version < MaxVersion
  /\ ~ Compare(row[a].content, c).thrown
  /\ Begin(r, a, [step |-> "increment", op |-> "save", id |-> a, row |-> row[a],
                  content |-> c])

SetIncrement(r) ==
  /\ call[r].step = "increment"
  /\ LET old == call[r].row
         increment == Compare(old.content, call[r].content)
         decrement == Compare(call[r].content, old.content)
     IN  /\ SetColumns([i \in OfVersion(call[r].id, old.version) |->
                         [history[i] EXCEPT !.increment = increment]])
         /\ IF decrement.thrown THEN End(r)
            ELSE call' = [call EXCEPT ![r] =
                   [step |-> "update", op |-> "save", id |-> @.id,
                    row |-> [old EXCEPT !.version = @ + 1,
                                        !.content = call[r].content],
                    decrement |-> decrement]]
  /\ UNCHANGED <<row, snapshot, causes>>

UpdateRow(r) ==
  /\ call[r].step = "update"
  /\ row' = [row EXCEPT ![call[r].id] = call[r].row]
  /\ Step(r, [save |-> "insert", modify |-> "setAll",
              delete |-> "findLast"][call[r].op])
  /\ UNCHANGED <<history, snapshot, causes>>

(* Wrong variant of InsertHistory: the snapshot is due a version late.     *)
InsertSnapshotLate(r) ==
  /\ call[r].step = "insert"
  /\ history' = Append(history,
                  HistoryOf(call[r].id, call[r].row, call[r].decrement))
  /\ IF call[r].op = "save" /\ (call[r].row.version - 1) % SNAPSHOT_INTERVAL = 0
     THEN Step(r, "snapshot") ELSE End(r)
  /\ UNCHANGED <<row, snapshot, causes>>

InsertHistory(r) ==
  /\ call[r].step = "insert"
  /\ history' = Append(history,
                  HistoryOf(call[r].id, call[r].row, call[r].decrement))
  /\ IF call[r].op = "save" /\ call[r].row.version % SNAPSHOT_INTERVAL = 0
     THEN Step(r, "snapshot") ELSE End(r)
  /\ UNCHANGED <<row, snapshot, causes>>

generateSnapshot(r) ==
  /\ call[r].step = "snapshot"
  /\ snapshot' = snapshot \union
       {[announcement |-> call[r].id, version |-> call[r].row.version,
         content |-> call[r].row.content]}
  /\ End(r)
  /\ UNCHANGED <<row, history, causes>>

(***************************************************************************)
(* modifyPublicType and modifyStuck: the row, then the histories of its    *)
(* version: the statement names the alliance and the version, not the      *)
(* announcement, and so writes those of other announcements ("spill").     *)
(***************************************************************************)
Modify(r, a, k, v) ==
  /\ row[a] # None
  /\ Begin(r, a, [step |-> "update", op |-> "modify", id |-> a, set |-> k,
                  row |-> [row[a] EXCEPT !.set[k] = v]])

(* Wrong variant of SetAll: the histories before the latest.               *)
SetOlder(r) ==
  /\ call[r].step = "setAll"
  /\ LET at == {i \in DOMAIN history : history[i].version < call[r].row.version}
         k == call[r].set
     IN  SetColumns([i \in at |->
                       [history[i] EXCEPT !.set[k] = call[r].row.set[k]]])
  /\ End(r)
  /\ UNCHANGED <<row, snapshot, causes>>

SetAll(r) ==
  /\ call[r].step = "setAll"
  /\ LET at == {i \in DOMAIN history : history[i].version = call[r].row.version}
         k == call[r].set
     IN  /\ SetColumns([i \in at |->
                         [history[i] EXCEPT !.set[k] = call[r].row.set[k]]])
         /\ causes' = [a \in Id |->
              IF a # call[r].id /\ at \intersect Of(a) # {}
              THEN causes[a] \union {"spill"} ELSE causes[a]]
  /\ End(r)
  /\ UNCHANGED <<row, snapshot>>

(***************************************************************************)
(* deleteAnnouncement: the row becomes invalid, then the history of its    *)
(* version is loaded and written back.                                     *)
(***************************************************************************)
DeleteAnnouncement(r, a) ==
  /\ row[a] # None
  /\ Begin(r, a, [step |-> "update", op |-> "delete", id |-> a,
                  row |-> [row[a] EXCEPT !.valid = FALSE]])

FindLast(r) ==
  /\ call[r].step = "findLast"
  /\ LET found == OfVersion(call[r].id, call[r].row.version)
     IN  IF found = {} THEN End(r)
         ELSE \E i \in found :
                call' = [call EXCEPT ![r] =
                  [step |-> "last", op |-> "delete", id |-> @.id, at |-> i,
                   history |-> [history[i] EXCEPT !.valid = FALSE]]]
  /\ UNCHANGED <<row, history, snapshot, causes>>

UpdateLast(r) ==
  /\ call[r].step = "last"
  /\ history' = [history EXCEPT ![call[r].at] = call[r].history]
  /\ End(r)
  /\ UNCHANGED <<row, snapshot, causes>>

(* A statement throws or the server stops: what was written stays.         *)
CallThrows(r) ==
  /\ call[r] # Idle
  /\ End(r)
  /\ causes' = [causes EXCEPT ![call[r].id] = @ \union {"failure"}]
  /\ UNCHANGED <<row, history, snapshot>>

Next ==
  \E r \in Request :
    \/ \E a \in Id :
         \/ \E c \in Content, s \in [Setting -> Level] : Create(r, a, c, s)
         \/ \E c \in Content : Save(r, a, c)
         \/ \E k \in Setting, v \in Level : Modify(r, a, k, v)
         \/ DeleteAnnouncement(r, a)
    \/ SetIncrement(r) \/ UpdateRow(r) \/ InsertHistory(r)
    \/ generateSnapshot(r) \/ SetAll(r) \/ FindLast(r) \/ UpdateLast(r)
    \/ CallThrows(r)

Spec == Init /\ [][Next]_vars

(***************************************************************************)
(* getDetails: the content of version v, from the row down the decrements  *)
(* of the later versions, of which there is one history each.              *)
(***************************************************************************)
HistoryAt(a, v) == history[CHOOSE i \in OfVersion(a, v) : TRUE]

(* Wrong variant of Details: the decrement of v itself as well.            *)
DetailsBelow(a, v) ==
  LET total == row[a].version
      down[k \in v..total] ==
        IF k = total THEN row[a].content ELSE Apply(down[k+1], HistoryAt(a, k+1).decrement)
  IN  IF v = total THEN down[v] ELSE Apply(down[v], HistoryAt(a, v).decrement)

Details(a, v) ==
  LET total == row[a].version
      down[k \in v..total] ==
        IF k = total THEN row[a].content ELSE Apply(down[k+1], HistoryAt(a, k+1).decrement)
  IN  down[v]
-----------------------------------------------------------------------------
TypeOK ==
  /\ \A a \in Id : row[a] = None \/ row[a] \in Rows
  /\ \A i \in DOMAIN history :
       /\ history[i].announcement \in Id
       /\ history[i].version \in 1..MaxVersion
       /\ history[i].set \in [Setting -> Level]
  /\ \A s \in snapshot : s.content \in Content /\ s.version % SNAPSHOT_INTERVAL = 0
  /\ \A r \in Request : call[r] = Idle \/ call[r].step \in Busy
  /\ causes \in [Id -> SUBSET {"edit", "overlap", "spill", "failure"}]

Sound(a) == "edit" \notin causes[a]
Whole(a) == "failure" \notin causes[a]
Quiet(a) == Running(a) = {}

(* An announcement never has two histories of one version and, once its    *)
(* calls have ended, has one of every version up to its own, if none of    *)
(* them stopped midway: getDetails and the clients page through them by    *)
(* number.  Two saves at once store two histories of one version.          *)
VersionsComplete ==
  \A a \in Id : Sound(a) =>
    /\ \A i, j \in Of(a) : history[i].version = history[j].version => i = j
    /\ row[a] # None /\ Quiet(a) /\ Whole(a) =>
         {history[i].version : i \in Of(a)} = 1..row[a].version

(* The stored edits join the versions: the increment of a version leads to *)
(* the texts of the next, and the decrement of that leads back, also when  *)
(* a save stopped between its statements: the next one goes on from what   *)
(* the row says.                                                           *)
DeltasJoinVersions ==
  \A a \in Id : Sound(a) =>
    \A i, j \in Of(a) : history[j].version = history[i].version + 1 =>
      /\ Fits(history[i].saved, history[i].increment)
      /\ Texts(Apply(history[i].saved, history[i].increment)) = Texts(history[j].saved)
      /\ Fits(history[j].saved, history[j].decrement)
      /\ Texts(Apply(history[j].saved, history[j].decrement)) = Texts(history[i].saved)

(* The row is the latest version: when no call runs, its content is that   *)
(* of the history with its number.  So are its validity and settings       *)
(* unless calls overlapped or those of another announcement spilled over.  *)
(* A setting or deletion beside a save writes its older content back.      *)
RowIsLatest ==
  \A a \in Id : row[a] # None /\ Quiet(a) /\ Sound(a) =>
    \A i \in OfVersion(a, row[a].version) :
      /\ history[i].saved = row[a].content
      /\ \/ causes[a] # {}
         \/ history[i].valid = row[a].valid /\ history[i].set = row[a].set

(* A client that asks for an old version gets the texts that were saved,   *)
(* however many decrements the walk applies and although it may meet other *)
(* styles than those the decrements were computed from.  (The styles may   *)
(* differ: an edit that changes only the style of a block is lost.)        *)
DetailsAreSaved ==
  \A a \in Id : row[a] # None /\ Quiet(a) /\ Sound(a) /\ Whole(a) =>
    \A v \in 1..row[a].version : Texts(Details(a, v)) = Texts(HistoryAt(a, v).saved)

SnapshotsOf(a) == {s \in snapshot : s.announcement = a}
Taken(a, v) == \E s \in SnapshotsOf(a) : s.version = v

(* A snapshot is what was saved as its version, and every version that a   *)
(* save made due for one has it once calls have ended, if none stopped     *)
(* midway.                                                                 *)
SnapshotsComplete ==
  \A a \in Id : Sound(a) =>
    /\ \A s \in SnapshotsOf(a) : \A i \in OfVersion(a, s.version) : s.content = history[i].saved
    /\ row[a] # None /\ Quiet(a) /\ Whole(a) =>
         \A v \in 2..row[a].version : v % SNAPSHOT_INTERVAL = 0 => Taken(a, v)
-----------------------------------------------------------------------------
(* What the proofs need beside the properties: an inductive invariant.     *)
Blocks == UNION {{c[i] : i \in DOMAIN c} : c \in Content}
Papers == Content \union {<<>>}
Edit   == {Compare(p, q) : p \in Papers, q \in Papers} \union {NoEdits}
Versions == 1..MaxVersion

Histories ==
  [announcement : Id, version : Versions, set : [Setting -> Level], valid : BOOLEAN,
   increment : Edit, decrement : Edit, saved : Content]

Snapshots == [announcement : Id, version : Versions, content : Content]

Increments == [step : {"increment"}, op : {"save"}, id : Id, row : Rows, content : Content]
Saves      == [step : {"update", "insert", "snapshot"}, op : {"save"}, id : Id, row : Rows,
               decrement : Edit]
Creates    == [step : {"insert"}, op : {"create"}, id : Id, row : Rows, decrement : Edit]
Modifies   == [step : {"update", "setAll"}, op : {"modify"}, id : Id, set : Setting,
               row : Rows]
Deletes    == [step : {"update", "findLast"}, op : {"delete"}, id : Id, row : Rows]
Lasts      == [step : {"last"}, op : {"delete"}, id : Id, at : Nat, history : Histories]
Calls      == Increments \union Saves \union Creates \union Modifies \union Deletes
                \union Lasts

Types ==
  /\ row \in [Id -> Rows \union {None}]
  /\ history \in Seq(Histories)
  /\ snapshot \subseteq Snapshots
  /\ call \in [Request -> Calls \union {Idle}]
  /\ causes \in [Id -> SUBSET {"edit", "overlap", "spill", "failure"}]
  /\ \A s \in snapshot : s.version % SNAPSHOT_INTERVAL = 0
  /\ \A r \in Request :
       /\ call[r].step = "increment" => call[r].row.version < MaxVersion
       /\ call[r].step = "snapshot" => call[r].row.version % SNAPSHOT_INTERVAL = 0

(* Before its row an announcement has nothing.                             *)
Begun == \A a \in Id : row[a] = None => Running(a) = {} /\ Of(a) = {} /\ SnapshotsOf(a) = {}

(* A save runs alone, and so does a call on an undisturbed announcement.   *)
Alone(a) ==
  /\ \A r \in Running(a) : call[r].op = "save" \/ causes[a] = {} => Running(a) = {r}
  /\ \A r, s \in Running(a) : call[r].op = "create" /\ call[s].op = "create" => r = s

Joins(p, e, q) == Fits(p, e) /\ Texts(Apply(p, e)) = Texts(q)

(* What a call holds of the row it has loaded or written.                  *)
Knows(a, c) ==
  /\ c.step = "increment" =>
       /\ c.row = row[a]
       /\ ~ Compare(row[a].content, c.content).thrown
  /\ c.step = "update" /\ c.op = "save" =>
       /\ c.row.version = row[a].version + 1
       /\ c.row.set = row[a].set /\ c.row.valid = row[a].valid
       /\ Joins(c.row.content, c.decrement, row[a].content)
       /\ \A i \in OfVersion(a, row[a].version) :
            Joins(history[i].saved, history[i].increment, c.row.content)
  /\ c.step \in {"insert", "setAll", "findLast"} \/ (c.step = "update" /\ c.op # "save") =>
       c.row.version = row[a].version /\ c.row.content = row[a].content
  /\ c.step = "insert" =>
       \A i \in Of(a) :
         /\ history[i].version < row[a].version
         /\ history[i].version + 1 = row[a].version =>
              /\ Joins(history[i].saved, history[i].increment, c.row.content)
              /\ Joins(c.row.content, c.decrement, history[i].saved)
  /\ c.op = "create" => row[a].version = 1
  /\ c.step = "snapshot" \/ (c.step = "insert" /\ (c.op = "save" \/ causes[a] = {})) =>
       c.row = row[a]
  /\ c.step = "last" =>
       /\ c.at \in OfVersion(a, row[a].version)
       /\ LET h == history[c.at]
          IN  c.history = [h EXCEPT !.set = c.history.set, !.valid = c.history.valid]

(* The histories of an announcement without an "edit".                     *)
Inserting(a) == \E r \in Running(a) : call[r].step = "insert"

Numbered(a) ==
  /\ \A i, j \in Of(a) : history[i].version = history[j].version => i = j
  /\ \A i \in Of(a) : history[i].version <= row[a].version
  /\ Whole(a) =>
       \A v \in 1..row[a].version :
         (v = row[a].version /\ Inserting(a)) \/ OfVersion(a, v) # {}

Latest(a) == \A i \in OfVersion(a, row[a].version) : history[i].saved = row[a].content

Joined(a) ==
  \A i, j \in Of(a) : history[j].version = history[i].version + 1 =>
    /\ Joins(history[i].saved, history[i].increment, history[j].saved)
    /\ Joins(history[j].saved, history[j].decrement, history[i].saved)

(* The columns of an undisturbed announcement: what a call makes of the    *)
(* columns of its row w, and what it has still to write to the history of  *)
(* the latest version.                                                     *)
Intends(w, c) ==
  /\ c.step = "setAll" => c.row = w
  /\ c.step = "update" /\ c.op = "modify" =>
       c.row = [w EXCEPT !.set[c.set] = c.row.set[c.set]]
  /\ c.step = "update" /\ c.op = "delete" => c.row = [w EXCEPT !.valid = FALSE]
  /\ c.step = "findLast" => ~ w.valid
  /\ c.step = "last" => c.history.set = w.set /\ ~ w.valid /\ ~ c.history.valid

Columns(a) ==
  causes[a] = {} =>
    /\ \A i \in OfVersion(a, row[a].version) :
         /\ \/ history[i].valid = row[a].valid
            \/ \E r \in Running(a) : call[r].step \in {"findLast", "last"}
         /\ \A k \in Setting :
              \/ history[i].set[k] = row[a].set[k]
              \/ \E r \in Running(a) : call[r].step = "setAll" /\ call[r].set = k
    /\ \A r \in Running(a) : Intends(row[a], call[r])

Snapped(a) ==
  /\ \A s \in SnapshotsOf(a) :
       /\ s.version <= row[a].version
       /\ \A i \in OfVersion(a, s.version) : s.content = history[i].saved
  /\ \A r \in Running(a) :
       call[r].step = "insert" => \A s \in SnapshotsOf(a) : s.version < row[a].version
  /\ Whole(a) =>
       \A v \in 2..row[a].version :
         v % SNAPSHOT_INTERVAL = 0 =>
           \/ Taken(a, v)
           \/ /\ v = row[a].version
              /\ \E r \in Running(a) : call[r].op = "save" /\ call[r].step \in {"insert", "snapshot"}

Stored(a) ==
  /\ Alone(a) /\ \A r \in Running(a) : Knows(a, call[r])
  /\ Numbered(a) /\ Latest(a) /\ Joined(a) /\ Columns(a) /\ Snapped(a)

(* What deleteAnnouncement loaded is a history of its announcement.        *)
Owned ==
  \A r \in Request : call[r].step = "last" =>
    call[r].at \in Of(call[r].id) /\ call[r].history.announcement = call[r].id

IInv == Types /\ Begun /\ Owned /\ \A a \in Id : row[a] # None /\ Sound(a) => Stored(a)
=============================================================================
