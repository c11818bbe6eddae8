---------------------------- MODULE CacheableDao ----------------------------
(***************************************************************************)
(* One row of a @Cacheable model and its Redis hash: CacheableDao,         *)
(* ExecutableModel and RedisTemplate.  Rows do not share a hash, so one id *)
(* is enough.  A Redis command and an SQL statement are one step each; a   *)
(* call of several is split, and other requests run between the parts.     *)
(* The model starts anywhere the program can be before the first call on   *)
(* the row: cached or not, present or not.                                 *)
(***************************************************************************)
CONSTANTS
    Request,    \* the request threads
    Field,      \* the columns of the model other than its id
    Value,      \* the values of a column
    Missing,    \* a hash field that is not there, a parameter that is not set
    NoRow,      \* no row with this id
    Mark,       \* the content of the hash field hmFeature
    StateField, \* the column "state"
    Disabled    \* the value disable() gives it

Constants ==
    /\ Missing \notin Value /\ Mark \notin Value
    /\ NoRow \notin [Field -> Value]
    /\ StateField \in Field /\ Disabled \in Value

ASSUME ValueAssumption == Constants

VARIABLES
    row,        \* the row of the table
    hash,       \* the fields of the Redis hash
    hmFeature,  \* the hash was written as a whole, not field by field
    pc,         \* where each request is in its call
    params,     \* the column values of the call: to be written, or read for a fill
    sent,       \* the columns whose new value is in Redis already
    returned,   \* the object the last step gave its caller, NoRow when none
    overtaken,  \* history: the fills that were overtaken by a write
    causes      \* history: what may have driven row and hash apart

vars == <<row, hash, hmFeature, pc, params, sent, returned, overtaken, causes>>

Row   == [Field -> Value]
Hash  == [Field -> Value \cup {Missing}]
Place == {"idle", "miss", "fill", "set", "write", "disable", "delete", "cache",
          "commit"}
Cause == {"overtaken fill", "crossed writes", "failed write", "bypass", "absent row"}

Nothing == [f \in Field |-> Missing]

TypeOK ==
    /\ row       \in Row \cup {NoRow}
    /\ hash      \in Hash
    /\ hmFeature \in BOOLEAN
    /\ pc        \in [Request -> Place]
    /\ params    \in [Request -> Hash]
    /\ sent      \in [Request -> SUBSET Field]
    /\ returned  \in [Field -> Value \cup {Missing, Mark}] \cup {NoRow}
    /\ overtaken \in SUBSET Request
    /\ causes    \in SUBSET Cause

Init ==
    /\ row       \in Row \cup {NoRow}
    /\ \/ hash = Nothing /\ hmFeature = FALSE
       \/ row # NoRow /\ hash = row /\ hmFeature = TRUE
    /\ pc        = [r \in Request |-> "idle"]
    /\ params    = [r \in Request |-> Nothing]
    /\ sent      = [r \in Request |-> {}]
    /\ returned  = NoRow
    /\ overtaken = {}
    /\ causes    = {}

-----------------------------------------------------------------------------
(* Writers, and what they do to the history.                               *)

Writing(r) ==
    \/ pc[r] \in {"write", "disable", "delete", "commit"}
    \/ pc[r] = "set" /\ sent[r] # {}
Writer(r)  == Writing(r) \/ pc[r] = "cache"

(* A step of a write of r: fills that have read the table are overtaken,   *)
(* and a write in progress elsewhere is crossed.                           *)
WriteStep(r, more) ==
    /\ overtaken' = overtaken \cup {s \in Request \ {r} : pc[s] = "fill"}
    /\ causes' = causes \cup more \cup
         (IF \E s \in Request \ {r} : Writer(s) THEN {"crossed writes"} ELSE {})

Goto(r, place) == pc' = [pc EXCEPT ![r] = place]

(* The call of r ends and drops its local variables.                       *)
Finish(r) ==
    /\ Goto(r, "idle")
    /\ params' = [params EXCEPT ![r] = Nothing]
    /\ sent'   = [sent EXCEPT ![r] = {}]

(* RedisTemplate.save: HMSET of all fields and the feature field.          *)
Hmset(entity) == hash' = entity /\ hmFeature' = TRUE

(* HSET of one field, which creates the hash when there is none.           *)
Hset(f, v) == hash' = [hash EXCEPT ![f] = v] /\ hmFeature' = hmFeature

Del == hash' = Nothing /\ hmFeature' = FALSE

(* Wrong variant of IsPOJO: any field makes the hash an object.            *)
IsNotEmpty == \E f \in Field : hash[f] # Missing

IsPOJO == hmFeature

(* UPDATE of the columns set in values.                                    *)
Updated(values) ==
    IF row = NoRow THEN NoRow
    ELSE [f \in Field |-> IF values[f] = Missing THEN row[f] ELSE values[f]]

-----------------------------------------------------------------------------
(* Reads.                                                                  *)

(* findById: the hash, when it is whole; else the table is asked next.     *)
FindById(r) ==
    /\ pc[r] = "idle"
    /\ IF IsPOJO
       THEN returned' = hash /\ UNCHANGED pc
       ELSE Goto(r, "miss") /\ returned' = NoRow
    /\ UNCHANGED <<row, hash, hmFeature, params, sent, overtaken, causes>>

(* RedisTemplate.findByKey swallows an exception of Redis and returns null *)
(* instead of the hash, as if there were none.                             *)
CacheUnread(r) ==
    /\ pc[r] = "idle"
    /\ Goto(r, "miss") /\ returned' = NoRow
    /\ UNCHANGED <<row, hash, hmFeature, params, sent, overtaken, causes>>

FindInTable(r) ==
    /\ pc[r] = "miss"
    /\ IF row = NoRow
       THEN Goto(r, "idle") /\ UNCHANGED params
       ELSE Goto(r, "fill") /\ params' = [params EXCEPT ![r] = row]
    /\ returned' = NoRow
    /\ UNCHANGED <<row, hash, hmFeature, sent, overtaken, causes>>

(* The row read before is saved in the cache, whatever happened since.     *)
Fill(r) ==
    /\ pc[r] = "fill"
    /\ Hmset(params[r])
    /\ returned' = params[r]
    /\ causes' = IF r \in overtaken \/ \E s \in Request : Writing(s)
                 THEN causes \cup {"overtaken fill"} ELSE causes
    /\ overtaken' = overtaken \ {r}
    /\ Finish(r)
    /\ UNCHANGED row

(* findFieldByKey: the hash field, whole hash or not, else the table, also *)
(* when Redis throws.  The call changes nothing, so its two reads are one  *)
(* step.                                                                   *)
FindFieldByKey(r, f) ==
    /\ pc[r] = "idle"
    /\ \/ hash[f] # Missing /\ returned' = [Nothing EXCEPT ![f] = hash[f]]
       \/ returned' = IF row = NoRow THEN NoRow ELSE [Nothing EXCEPT ![f] = row[f]]
    /\ UNCHANGED <<row, hash, hmFeature, pc, params, sent, overtaken, causes>>

(* selectOne(f, g): HMGET asks for hmFeature and the two columns, and the  *)
(* loop over the columns starts at the first answer, not at the second.    *)
(* The table answers when the hash is not whole or Redis throws.           *)
SelectedFrom(f, g) == [Nothing EXCEPT ![f] = Mark, ![g] = hash[f]]

SelectOne(r, f, g) ==
    /\ pc[r] = "idle" /\ f # g
    /\ \/ IsPOJO /\ returned' = SelectedFrom(f, g)
       \/ returned' = IF row = NoRow THEN NoRow
                      ELSE [Nothing EXCEPT ![f] = row[f], ![g] = row[g]]
    /\ UNCHANGED <<row, hash, hmFeature, pc, params, sent, overtaken, causes>>

-----------------------------------------------------------------------------
(* Writes.                                                                 *)

(* set(column, value, ...) and setByObject: one HSET per column, through a *)
(* pipeline when there are several, then the UPDATE.                       *)
Set(r, values) ==
    /\ pc[r] = "idle" /\ values # Nothing
    /\ Goto(r, "set")
    /\ params' = [params EXCEPT ![r] = values]
    /\ returned' = NoRow
    /\ UNCHANGED <<row, hash, hmFeature, sent, overtaken, causes>>

(* Wrong variant of SetInCache: the hash field is not written.             *)
SetSkipsCache(r, f) ==
    /\ pc[r] = "set" /\ f \notin sent[r] /\ params[r][f] # Missing
    /\ sent' = [sent EXCEPT ![r] = @ \cup {f}]
    /\ Goto(r, IF \A g \in Field : params[r][g] # Missing => g \in sent[r] \cup {f}
               THEN "write" ELSE "set")
    /\ WriteStep(r, {})
    /\ returned' = NoRow
    /\ UNCHANGED <<row, hash, hmFeature, params>>

SetInCache(r, f) ==
    /\ pc[r] = "set" /\ f \notin sent[r] /\ params[r][f] # Missing
    /\ Hset(f, params[r][f])
    /\ sent' = [sent EXCEPT ![r] = @ \cup {f}]
    /\ Goto(r, IF \A g \in Field : params[r][g] # Missing => g \in sent[r] \cup {f}
               THEN "write" ELSE "set")
    /\ WriteStep(r, {})
    /\ returned' = NoRow
    /\ UNCHANGED <<row, params>>

(* disable() is set("state", 1), whose HSET this is.                       *)
Disable(r) ==
    /\ pc[r] = "idle"
    /\ Hset(StateField, Disabled)
    /\ Goto(r, "disable")
    /\ params' = [params EXCEPT ![r] = [Nothing EXCEPT ![StateField] = Disabled]]
    /\ sent'   = [sent EXCEPT ![r] = {StateField}]
    /\ WriteStep(r, {})
    /\ returned' = NoRow
    /\ UNCHANGED row

(* An INSERT that is not committed holds its key: other statements that    *)
(* name it wait.                                                           *)
Unlocked == \A r \in Request : pc[r] # "commit"

(* The UPDATE of set, setByObject, disable and update, or the end of its   *)
(* transaction.                                                            *)
WriteInTable(r) ==
    /\ pc[r] \in {"write", "disable"} /\ Unlocked
    /\ row' = Updated(params[r])
    /\ WriteStep(r, IF row = NoRow THEN {"absent row"} ELSE {})
    /\ Finish(r)
    /\ returned' = NoRow
    /\ UNCHANGED <<hash, hmFeature>>

(* ExecutableModel.update: the whole entity, the cache first.              *)
Update(r, entity) ==
    /\ pc[r] = "idle"
    /\ Hmset(entity)
    /\ Goto(r, "write")
    /\ params' = [params EXCEPT ![r] = entity]
    /\ sent'   = [sent EXCEPT ![r] = Field]
    /\ WriteStep(r, {})
    /\ returned' = NoRow
    /\ UNCHANGED row

(* ExecutableModel.save: INSERT, then the cache.                           *)
Save(r, entity) ==
    /\ pc[r] = "idle" /\ row = NoRow /\ Unlocked
    /\ row' = entity
    /\ Goto(r, "cache")
    /\ params' = [params EXCEPT ![r] = entity]
    /\ WriteStep(r, {})
    /\ returned' = NoRow
    /\ UNCHANGED <<hash, hmFeature, sent>>

SaveInCache(r) ==
    /\ pc[r] = "cache"
    /\ Hmset(params[r])
    /\ WriteStep(r, {})
    /\ Finish(r)
    /\ returned' = NoRow
    /\ UNCHANGED row

(* save() in a transaction: only the entry can be seen before it commits.  *)
SaveUncommitted(r, entity) ==
    /\ pc[r] = "idle" /\ row = NoRow /\ Unlocked
    /\ Hmset(entity)
    /\ Goto(r, "commit")
    /\ params' = [params EXCEPT ![r] = entity]
    /\ sent'   = [sent EXCEPT ![r] = Field]
    /\ WriteStep(r, {})
    /\ returned' = NoRow
    /\ UNCHANGED row

Commit(r) ==
    /\ pc[r] = "commit"
    /\ row' = params[r]
    /\ WriteStep(r, {})
    /\ Finish(r)
    /\ returned' = NoRow
    /\ UNCHANGED <<hash, hmFeature>>

(* delete() and remove(): DEL, then the DELETE.                            *)
Delete(r) ==
    /\ pc[r] = "idle"
    /\ Del
    /\ Goto(r, "delete")
    /\ WriteStep(r, {})
    /\ returned' = NoRow
    /\ UNCHANGED <<row, params, sent>>

DeleteInTable(r) ==
    /\ pc[r] = "delete" /\ Unlocked
    /\ row' = NoRow
    /\ WriteStep(r, {})
    /\ Finish(r)
    /\ returned' = NoRow
    /\ UNCHANGED <<hash, hmFeature>>

(* editBaseInfo and the other services that write the table of a cached    *)
(* view through an uncached entity.                                        *)
EditUncached(r, entity) ==
    /\ pc[r] = "idle" /\ row # NoRow
    /\ row' = entity
    /\ WriteStep(r, {"bypass"})
    /\ returned' = NoRow
    /\ UNCHANGED <<hash, hmFeature, pc, params, sent>>

(* Redis (in a write) or the database throws, or the transaction is rolled *)
(* back: the rest of the call is not done.  A write that is in the cache   *)
(* already stays there.                                                    *)
CallThrows(r) ==
    /\ pc[r] # "idle"
    /\ causes' = IF sent[r] # {} THEN causes \cup {"failed write"} ELSE causes
    /\ overtaken' = overtaken \ {r}
    /\ Finish(r)
    /\ returned' = NoRow
    /\ UNCHANGED <<row, hash, hmFeature>>

Read(r) ==
    \/ FindById(r)
    \/ CacheUnread(r)
    \/ FindInTable(r)
    \/ Fill(r)
    \/ \E f \in Field : FindFieldByKey(r, f)
    \/ \E f, g \in Field : SelectOne(r, f, g)

Write(r) ==
    \/ \E values \in Hash : Set(r, values)
    \/ \E f \in Field : SetInCache(r, f)
    \/ Disable(r)
    \/ WriteInTable(r)
    \/ \E entity \in Row : Update(r, entity)
    \/ \E entity \in Row : Save(r, entity)
    \/ SaveInCache(r)
    \/ \E entity \in Row : SaveUncommitted(r, entity)
    \/ Commit(r)
    \/ Delete(r)
    \/ DeleteInTable(r)

Next == \E r \in Request :
    \/ Read(r)
    \/ Write(r)
    \/ \E entity \in Row : EditUncached(r, entity)
    \/ CallThrows(r)

Spec == Init /\ [][Next]_vars

-----------------------------------------------------------------------------
(* Properties.                                                             *)

(* The value of f in the hash is that of the row, or one that a write in   *)
(* progress is about to give the row.                                      *)
FieldAgrees(f) ==
    \/ row # NoRow /\ hash[f] = row[f]
    \/ \E r \in Request : Writing(r) /\ f \in sent[r] /\ hash[f] = params[r][f]

Agree == \A f \in Field : hash[f] # Missing => FieldAgrees(f)

(* A hash with the feature field has every column: findById never builds   *)
(* an object out of the single fields that set() left in an empty cache.   *)
MarkedIsComplete == hmFeature => \A f \in Field : hash[f] # Missing

(* Cache and table agree unless one of the named things happened: a fill   *)
(* was overtaken by a write, two writes crossed, a call failed after its   *)
(* write of the cache, the table was written through an uncached entity,   *)
(* or a row was written that is not there.  Nothing else, and no order of  *)
(* the calls, drives them apart.                                           *)
CoherentUnless == causes = {} => Agree

(* What findById takes from the cache between two writes is the row.       *)
AnswerIsTheRow ==
    [][ \A r \in Request :
          (FindById(r) /\ IsPOJO /\ causes = {} /\ ~ \E s \in Request : Writing(s))
              => returned' = row ]_vars

(* A fill that is not overtaken holds the row.                             *)
FillHoldsRow ==
    \A r \in Request : pc[r] = "fill" /\ r \notin overtaken => row # NoRow /\ params[r] = row

(* At most one write is in progress as long as none has crossed another.   *)
OneWriter ==
    causes = {} => \A r, s \in Request : Writer(r) /\ Writer(s) => r = s

(* The local variables of a call in progress.                              *)
LocalOK(r) ==
    /\ sent[r] # {} => Writing(r)
    /\ \A f \in sent[r] : params[r][f] # Missing
    /\ pc[r] \in {"fill", "cache", "commit"} => params[r] \in Row
    /\ pc[r] = "cache" /\ causes = {} => row = params[r]
    /\ pc[r] = "commit" => sent[r] = Field
    /\ pc[r] \in {"write", "disable"} =>
         \A f \in Field : params[r][f] # Missing => f \in sent[r]

LocalsInv == \A r \in Request : LocalOK(r)

(* What a write in progress has done to the hash is still there.           *)
WriteInCache ==
    causes = {} => \A r \in Request :
        /\ \A f \in sent[r] : hash[f] = params[r][f]
        /\ pc[r] = "delete" => hash = Nothing

(* The inductive invariant.                                                *)
IInv ==
    /\ TypeOK /\ MarkedIsComplete /\ CoherentUnless
    /\ FillHoldsRow /\ OneWriter /\ LocalsInv /\ WriteInCache

=============================================================================
