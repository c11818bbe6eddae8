---------------------------- MODULE JdbcSession ----------------------------
(***************************************************************************)
(* The thread-scoped database session of superid-web-jpa (JdbcSession,     *)
(* AbstractSession, JdbcTransaction, SessionFactory) under the Spring      *)
(* TransactionManager of superid-web-db, over the pooled data source.      *)
(*                                                                         *)
(* A session lives in a ThreadLocal, so every field of JdbcSession is a    *)
(* function of the thread.  Threads meet only in the pool and the tables.  *)
(* A statement, and a begin, commit or rollback with the clean-up Spring   *)
(* runs after it, is one action: its calls touch the session of its own    *)
(* thread only.  A row change is a member of Write; one that was rolled     *)
(* back may be made again.                                                 *)
(***************************************************************************)
EXTENDS Naturals

CONSTANTS
    Thread,     \* the request threads
    Conn,       \* the physical connections the pool may open (maxActive)
    NoConn,     \* jdbcConnection = null
    Write,      \* the row changes the requests make
    MaxDepth,   \* bound: nested @Transactional methods of one request
    MaxLevel    \* bound: length of txStack

ASSUME NoConnAssumption == NoConn \notin Conn
ASSUME BoundAssumption  == MaxDepth \in Nat /\ MaxLevel \in Nat

VARIABLES
    txStack,        \* size of AbstractSession.txStack
    activeFlag,     \* the threads whose JdbcSession.activeFlag is set
    jdbcConnection, \* JdbcSession.jdbcConnection
    isInBatch,      \* the threads whose JdbcSession.isInBatch is set
    batchStatement, \* JdbcSession.batchStatement, and whether it is usable
    queued,         \* the changes added to batchStatement and not executed
    depth,          \* the @Transactional methods the thread is inside of
    raised,         \* the threads in which an exception is leaving a method
    idle,           \* the connections in the pool
    autoCommit,     \* the connections in auto-commit mode
    pending,        \* the uncommitted changes of each connection
    committed,      \* the changes every connection can see
    txWrites,       \* history: changes since the outermost method was entered
    outcome,        \* history: how the last outermost method ended
    starved         \* history: the threads a begin() of which found the pool empty

session  == <<txStack, activeFlag, jdbcConnection>>
batch    == <<isInBatch, batchStatement, queued>>
spring   == <<depth, raised>>
database == <<idle, autoCommit, pending, committed>>
history  == <<txWrites, outcome, starved>>
vars     == <<session, batch, spring, database, history>>

Statement == {"none", "open", "closed"}
Outcome   == {"none", "committed", "rolledback", "failed"}

TypeOK ==
    /\ txStack        \in [Thread -> Nat]
    /\ activeFlag     \in SUBSET Thread
    /\ jdbcConnection \in [Thread -> Conn \cup {NoConn}]
    /\ isInBatch      \in SUBSET Thread
    /\ batchStatement \in [Thread -> Statement]
    /\ queued         \in [Thread -> SUBSET Write]
    /\ depth          \in [Thread -> Nat]
    /\ raised         \in SUBSET Thread
    /\ idle           \in SUBSET Conn
    /\ autoCommit     \in SUBSET Conn
    /\ pending        \in [Conn -> SUBSET Write]
    /\ committed      \in SUBSET Write
    /\ txWrites       \in [Thread -> SUBSET Write]
    /\ outcome        \in [Thread -> Outcome]
    /\ starved        \in SUBSET Thread

Init ==
    /\ txStack        = [t \in Thread |-> 0]
    /\ activeFlag     = {}
    /\ jdbcConnection = [t \in Thread |-> NoConn]
    /\ isInBatch      = {}
    /\ batchStatement = [t \in Thread |-> "none"]
    /\ queued         = [t \in Thread |-> {}]
    /\ depth          = [t \in Thread |-> 0]
    /\ raised         = {}
    /\ idle           = Conn
    /\ autoCommit     = Conn
    /\ pending        = [c \in Conn |-> {}]
    /\ committed      = {}
    /\ txWrites       = [t \in Thread |-> {}]
    /\ outcome        = [t \in Thread |-> "none"]
    /\ starved        = {}

-----------------------------------------------------------------------------
(* The pool and the session's connection.                                  *)

(* The connections getJdbcConnection() can return: the one held, or any    *)
(* idle one.  None means that dataSource.getConnection() times out.        *)
GetJdbcConnection(t) ==
    IF jdbcConnection[t] # NoConn THEN {jdbcConnection[t]} ELSE idle

(* The session keeps c, with the uncommitted changes ws on it.             *)
Hold(t, c, ws) ==
    /\ jdbcConnection' = [jdbcConnection EXCEPT ![t] = c]
    /\ idle'           = idle \ {c}
    /\ pending'        = [pending EXCEPT ![c] = ws]

(* Wrong variant of Release: the connection is dropped, not returned.      *)
ReleaseDropped(t, c) ==
    /\ jdbcConnection' = [jdbcConnection EXCEPT ![t] = NoConn]
    /\ idle'           = idle
    /\ autoCommit'     = autoCommit \cup {c}
    /\ pending'        = [pending EXCEPT ![c] = {}]

(* Connection.close(): the pool rolls back what is uncommitted, restores   *)
(* auto-commit and takes the connection back; statements prepared on the   *)
(* handle become unusable.                                                 *)
Release(t, c) ==
    /\ jdbcConnection' = [jdbcConnection EXCEPT ![t] = NoConn]
    /\ idle'           = idle \cup {c}
    /\ autoCommit'     = autoCommit \cup {c}
    /\ pending'        = [pending EXCEPT ![c] = {}]

StatementAfterRelease(t) ==
    IF batchStatement[t] = "open" THEN "closed" ELSE batchStatement[t]

(* JdbcSession.close() at nesting level n, called when c is the connection *)
(* and ws are its uncommitted changes: nothing inside a transaction.       *)
Close(t, n, c, ws) ==
    IF n > 0
    THEN /\ Hold(t, c, ws)
         /\ UNCHANGED <<autoCommit, batchStatement>>
    ELSE /\ Release(t, c)
         /\ batchStatement' = [batchStatement EXCEPT ![t] = StatementAfterRelease(t)]

(* An exception leaves the statement: only a @Transactional method reacts. *)
Throw(t) == raised' = IF depth[t] > 0 THEN raised \cup {t} ELSE raised

Running(t) == t \notin raised

(* The changes made inside a @Transactional method.                        *)
Record(t, ws) ==
    txWrites' = IF depth[t] > 0 THEN [txWrites EXCEPT ![t] = @ \cup ws] ELSE txWrites

Fresh(w) ==
    /\ w \notin committed
    /\ \A c \in Conn : w \notin pending[c]
    /\ \A t \in Thread : w \notin txWrites[t] \cup queued[t]

-----------------------------------------------------------------------------
(* Statements that are executed at once.                                   *)

CommittedBy(c, ws) == IF c \in autoCommit THEN committed \cup ws ELSE committed
PendingBy(c, ws)   == IF c \in autoCommit THEN pending[c] ELSE pending[c] \cup ws

(* save, update, delete or execute outside a batch, and the update of      *)
(* named columns anywhere, since it never looks at isInBatch:              *)
(* executeUpdate(), then close().                                          *)
ExecuteUpdate(t, w) ==
    /\ Running(t) /\ Fresh(w)
    /\ \E c \in GetJdbcConnection(t) :
        /\ committed' = CommittedBy(c, {w})
        /\ Close(t, txStack[t], c, PendingBy(c, {w}))
    /\ Record(t, {w})
    /\ UNCHANGED <<txStack, activeFlag, isInBatch, queued, spring, outcome, starved>>

(* A query; a find that throws before its try block leaves the connection  *)
(* with the session, whatever the nesting level.                           *)
Query(t) ==
    /\ Running(t)
    /\ \E c \in GetJdbcConnection(t) : Close(t, txStack[t], c, pending[c])
    /\ UNCHANGED <<txStack, activeFlag, isInBatch, queued, spring, committed, history>>

FindThrows(t) ==
    /\ Running(t)
    /\ \E c \in GetJdbcConnection(t) : Hold(t, c, pending[c]) /\ UNCHANGED autoCommit
    /\ Throw(t)
    /\ UNCHANGED <<txStack, activeFlag, batch, depth, committed, history>>

(* The statement fails in the database and its finally clause closes, or   *)
(* there is no connection to prepare it on.                                *)
StatementThrows(t) ==
    /\ Running(t)
    /\ \/ \E c \in GetJdbcConnection(t) : Close(t, txStack[t], c, pending[c])
       \/ /\ GetJdbcConnection(t) = {}
          /\ UNCHANGED <<jdbcConnection, idle, autoCommit, pending, batchStatement>>
    /\ Throw(t)
    /\ UNCHANGED <<txStack, activeFlag, isInBatch, queued, depth, committed, history>>

-----------------------------------------------------------------------------
(* Batches.                                                                *)

StartBatch(t) ==
    /\ Running(t) /\ t \notin isInBatch
    /\ isInBatch' = isInBatch \cup {t}
    /\ UNCHANGED <<session, batchStatement, queued, spring, database, history>>

(* In a batch save, update, delete and execute only queue the change; the  *)
(* first one borrows the connection and prepares the statement.            *)
AddBatch(t, w) ==
    /\ Running(t) /\ t \in isInBatch /\ Fresh(w)
    /\ \/ /\ batchStatement[t] = "none"
          /\ \E c \in GetJdbcConnection(t) : Hold(t, c, pending[c]) /\ UNCHANGED autoCommit
       \/ /\ batchStatement[t] = "open"
          /\ UNCHANGED <<jdbcConnection, idle, autoCommit, pending>>
    /\ batchStatement' = [batchStatement EXCEPT ![t] = "open"]
    /\ queued' = [queued EXCEPT ![t] = @ \cup {w}]
    /\ UNCHANGED <<txStack, activeFlag, isInBatch, spring, committed, history>>

(* The statement was closed under the batch: binding a parameter throws.   *)
AddBatchThrows(t) ==
    /\ Running(t) /\ t \in isInBatch /\ batchStatement[t] = "closed"
    /\ Throw(t)
    /\ UNCHANGED <<session, batch, depth, database, history>>

(* The changes ws reach the database through the open batch statement.     *)
RunQueued(t, ws) ==
    LET c == jdbcConnection[t] IN
    /\ committed' = CommittedBy(c, ws)
    /\ pending' = [pending EXCEPT ![c] = PendingBy(c, ws)]
    /\ Record(t, ws)

ExecuteBatch(t) ==
    /\ Running(t) /\ t \in isInBatch /\ batchStatement[t] = "open"
    /\ RunQueued(t, queued[t])
    /\ queued' = [queued EXCEPT ![t] = {}]
    /\ UNCHANGED <<session, isInBatch, batchStatement, spring, idle, autoCommit, outcome, starved>>

(* Nothing was added, the statement was closed under the batch, or the     *)
(* database refuses a row after it has taken the ones before it.           *)
ExecuteBatchThrows(t) ==
    /\ Running(t) /\ t \in isInBatch
    /\ \/ /\ batchStatement[t] = "open"
          /\ \E ws \in SUBSET queued[t] : ws # queued[t] /\ RunQueued(t, ws)
       \/ /\ batchStatement[t] # "open"
          /\ UNCHANGED <<committed, pending, txWrites>>
    /\ Throw(t)
    /\ queued' = [queued EXCEPT ![t] = {}]
    /\ UNCHANGED <<session, isInBatch, batchStatement, depth, idle, autoCommit, outcome, starved>>

(* endBatch() runs in a finally clause, so an exception does not skip it.  *)
EndBatch(t) ==
    /\ t \in isInBatch
    /\ isInBatch' = isInBatch \ {t}
    /\ queued' = [queued EXCEPT ![t] = {}]
    /\ batchStatement' = [batchStatement EXCEPT ![t] = "none"]
    /\ IF batchStatement[t] # "none" /\ txStack[t] = 0 /\ jdbcConnection[t] # NoConn
       THEN Release(t, jdbcConnection[t])
       ELSE UNCHANGED <<jdbcConnection, idle, autoCommit, pending>>
    /\ UNCHANGED <<txStack, activeFlag, spring, committed, history>>

-----------------------------------------------------------------------------
(* Transactions: TransactionManager.doBegin, doCommit and doRollback.      *)

EnterMethod(t) ==
    /\ depth' = [depth EXCEPT ![t] = @ + 1]
    /\ IF depth[t] = 0
       THEN /\ txWrites' = [txWrites EXCEPT ![t] = {}]
            /\ outcome'  = [outcome EXCEPT ![t] = "none"]
       ELSE UNCHANGED <<txWrites, outcome>>

LeaveMethod(t, result) ==
    /\ depth' = [depth EXCEPT ![t] = @ - 1]
    /\ outcome' = IF depth[t] = 1 THEN [outcome EXCEPT ![t] = result] ELSE outcome

(* Wrong variant of Begin: auto-commit is not switched off.                *)
BeginInAutoCommit(t) ==
    /\ Running(t) /\ depth[t] < MaxDepth /\ txStack[t] < MaxLevel
    /\ txStack' = [txStack EXCEPT ![t] = @ + 1]
    /\ \/ /\ txStack[t] = 0
          /\ \E c \in GetJdbcConnection(t) : Hold(t, c, pending[c]) /\ UNCHANGED autoCommit
          /\ activeFlag' = activeFlag \cup {t}
       \/ /\ txStack[t] > 0
          /\ UNCHANGED <<jdbcConnection, idle, autoCommit, pending, activeFlag>>
    /\ EnterMethod(t)
    /\ UNCHANGED <<batch, raised, committed, starved>>

Begin(t) ==
    /\ Running(t) /\ depth[t] < MaxDepth /\ txStack[t] < MaxLevel
    /\ txStack' = [txStack EXCEPT ![t] = @ + 1]
    /\ \/ /\ txStack[t] = 0
          /\ \E c \in GetJdbcConnection(t) : Hold(t, c, pending[c]) /\ autoCommit' = autoCommit \ {c}
          /\ activeFlag' = activeFlag \cup {t}
       \/ /\ txStack[t] > 0
          /\ UNCHANGED <<jdbcConnection, idle, autoCommit, pending, activeFlag>>
    /\ EnterMethod(t)
    /\ UNCHANGED <<batch, raised, committed, starved>>

(* txStack.add(1) precedes the setAutoCommit() that cannot borrow; nobody  *)
(* undoes it, because the method whose begin() throws is never entered.    *)
BeginThrows(t) ==
    /\ Running(t) /\ txStack[t] = 0 /\ GetJdbcConnection(t) = {}
    /\ MaxLevel > 0
    /\ txStack' = [txStack EXCEPT ![t] = 1]
    /\ Throw(t)
    /\ starved' = starved \cup {t}
    /\ UNCHANGED <<activeFlag, jdbcConnection, batch, depth, database, txWrites, outcome>>

(* Wrong variant of CommitInner: the connection is committed at any level. *)
CommitAtAnyLevel(t) ==
    /\ Running(t) /\ depth[t] > 0 /\ txStack[t] > 1 /\ jdbcConnection[t] # NoConn
    /\ txStack' = [txStack EXCEPT ![t] = @ - 1]
    /\ committed' = committed \cup pending[jdbcConnection[t]]
    /\ pending' = [pending EXCEPT ![jdbcConnection[t]] = {}]
    /\ LeaveMethod(t, "committed")
    /\ UNCHANGED <<activeFlag, jdbcConnection, batch, raised, idle, autoCommit, txWrites, starved>>

(* commit() at an inner level only polls the stack.                        *)
CommitInner(t) ==
    /\ Running(t) /\ depth[t] > 0 /\ txStack[t] > 1
    /\ txStack' = [txStack EXCEPT ![t] = @ - 1]
    /\ LeaveMethod(t, "committed")
    /\ UNCHANGED <<activeFlag, jdbcConnection, batch, raised, database, txWrites, starved>>

CommitOuter(t) ==
    /\ Running(t) /\ depth[t] > 0 /\ txStack[t] = 1 /\ jdbcConnection[t] # NoConn
    /\ txStack' = [txStack EXCEPT ![t] = 0]
    /\ activeFlag' = activeFlag \ {t}
    /\ committed' = committed \cup pending[jdbcConnection[t]]
    /\ Release(t, jdbcConnection[t])
    /\ batchStatement' = [batchStatement EXCEPT ![t] = StatementAfterRelease(t)]
    /\ LeaveMethod(t, "committed")
    /\ UNCHANGED <<isInBatch, queued, raised, txWrites, starved>>

(* The database answers the commit with an error, having done it or not.   *)
CommitThrows(t) ==
    /\ Running(t) /\ depth[t] > 0 /\ txStack[t] = 1 /\ jdbcConnection[t] # NoConn
    /\ txStack' = [txStack EXCEPT ![t] = 0]
    /\ activeFlag' = activeFlag \cup {t}
    /\ \/ committed' = committed \cup pending[jdbcConnection[t]]
       \/ committed' = committed
    /\ Release(t, jdbcConnection[t])
    /\ batchStatement' = [batchStatement EXCEPT ![t] = StatementAfterRelease(t)]
    /\ LeaveMethod(t, "failed")
    /\ raised' = IF depth[t] > 1 THEN raised \cup {t} ELSE raised \ {t}
    /\ UNCHANGED <<isInBatch, queued, txWrites, starved>>

(* rollback(): at the outermost level JdbcTransaction.rollback() returns   *)
(* at once, because the flag is set, and the clean-up returns the          *)
(* connection, which the pool rolls back.  Without the flag nothing is     *)
(* polled.                                                                 *)
Rollback(t) ==
    /\ t \in raised /\ depth[t] > 0
    /\ LET n == IF t \in activeFlag /\ txStack[t] > 0 THEN txStack[t] - 1 ELSE txStack[t] IN
        /\ txStack' = [txStack EXCEPT ![t] = n]
        /\ IF n = 0 /\ jdbcConnection[t] # NoConn
           THEN Close(t, 0, jdbcConnection[t], {})
           ELSE UNCHANGED <<jdbcConnection, idle, autoCommit, pending, batchStatement>>
    /\ LeaveMethod(t, "rolledback")
    /\ raised' = IF depth[t] > 1 THEN raised \cup {t} ELSE raised \ {t}
    /\ UNCHANGED <<activeFlag, isInBatch, queued, committed, txWrites, starved>>

-----------------------------------------------------------------------------
(* The request: its code may throw inside a method, or catch what a        *)
(* statement or an inner method threw.  Rollback follows an unchecked      *)
(* exception.  A method that a checked one leaves is committed: that is    *)
(* CommitInner or CommitOuter, and UserThrows in the method around it.     *)

UserThrows(t) ==
    /\ Running(t) /\ depth[t] > 0
    /\ raised' = raised \cup {t}
    /\ UNCHANGED <<session, batch, depth, database, history>>

UserCatches(t) ==
    /\ t \in raised
    /\ raised' = raised \ {t}
    /\ UNCHANGED <<session, batch, depth, database, history>>

Step(t) ==
    \/ \E w \in Write : ExecuteUpdate(t, w) \/ AddBatch(t, w)
    \/ Query(t) \/ FindThrows(t) \/ StatementThrows(t)
    \/ StartBatch(t) \/ AddBatchThrows(t) \/ ExecuteBatch(t) \/ ExecuteBatchThrows(t)
    \/ EndBatch(t)
    \/ Begin(t) \/ BeginThrows(t)
    \/ CommitInner(t) \/ CommitOuter(t) \/ CommitThrows(t) \/ Rollback(t)
    \/ UserThrows(t) \/ UserCatches(t)

Next == \E t \in Thread : Step(t)

Spec == Init /\ [][Next]_vars

-----------------------------------------------------------------------------
(* Properties.                                                             *)

(* A method whose outermost @Transactional method returned has all of its  *)
(* changes committed, and one that was left by an exception has none; when *)
(* the database fails the commit itself it is one or the other.            *)
AllOrNothing(t) ==
    depth[t] = 0 =>
        /\ outcome[t] = "committed"  => txWrites[t] \subseteq committed
        /\ outcome[t] = "rolledback" => txWrites[t] \cap committed = {}
        /\ outcome[t] = "failed"     => \/ txWrites[t] \subseteq committed
                                        \/ txWrites[t] \cap committed = {}

(* What the code keeps: atomicity for the threads none of whose begins ever*)
(* found the pool empty, however the other threads fared.                  *)
AtomicUnlessStarved == \A t \in Thread : t \in starved \/ AllOrNothing(t)

(* Nothing of a running transaction can be seen by another connection,     *)
(* whatever inner methods of it have committed or rolled back.             *)
InvisibleUntilCommit ==
    \A t \in Thread : depth[t] > 0 /\ t \notin starved => txWrites[t] \cap committed = {}

(* Every connection is in the pool or with exactly one session: no path    *)
(* drops a borrowed connection or hands one to two threads.                *)
ConnectionsAccounted ==
    /\ \A c \in Conn : c \in idle <=> \A t \in Thread : jdbcConnection[t] # c
    /\ \A t, u \in Thread : t # u /\ jdbcConnection[t] = jdbcConnection[u]
                                => jdbcConnection[t] = NoConn

(* A connection is out of auto-commit mode exactly while its session runs  *)
(* a transaction: a connection that a failed find left with the thread     *)
(* never swallows later statements, and a transaction never autocommits.   *)
AutoCommitOffInTransaction ==
    \A t \in Thread : jdbcConnection[t] # NoConn =>
        (jdbcConnection[t] \in autoCommit <=> depth[t] = 0 \/ t \in starved)

(* A transaction keeps its connection until its outermost method ends, so  *)
(* that no statement of it runs on another connection.                     *)
ConnectionKept ==
    [][\A t \in Thread :
        depth[t] > 0 /\ depth'[t] > 0 /\ t \notin starved
            => jdbcConnection[t] # NoConn /\ jdbcConnection'[t] = jdbcConnection[t]]_vars

-----------------------------------------------------------------------------
(* The inductive invariant.                                                *)

InTransaction(t) == depth[t] > 0 /\ t \notin starved

(* The stack counts the methods entered, and a begin that found no         *)
(* connection stays counted.                                               *)
LevelInv ==
    \A t \in Thread :
        /\ t \notin starved => txStack[t] = depth[t]
        /\ t \in starved  => txStack[t] > depth[t]

(* A transaction has its connection, its flag, and exactly its changes on  *)
(* the connection; any other connection has none.                          *)
TransactionInv ==
    /\ \A t \in Thread : InTransaction(t) =>
        /\ jdbcConnection[t] # NoConn
        /\ t \in activeFlag
        /\ pending[jdbcConnection[t]] = txWrites[t]
    /\ idle \subseteq autoCommit
    /\ \A c \in autoCommit : pending[c] = {}

BatchInv == \A t \in Thread : batchStatement[t] = "open" => jdbcConnection[t] # NoConn

(* A change is in one place only.                                          *)
FreshInv ==
    /\ \A c \in Conn : pending[c] \cap committed = {}
    /\ \A t \in Thread, c \in Conn :
        /\ jdbcConnection[t] # c => txWrites[t] \cap pending[c] = {}
        /\ queued[t] \cap pending[c] = {}
    /\ \A t \in Thread : queued[t] \cap committed = {}
    /\ \A t, u \in Thread :
        /\ queued[t] \cap txWrites[u] = {}
        /\ t # u => queued[t] \cap queued[u] = {}

(* Why the properties hold: each is implied by this conjunction, and every *)
(* step of every thread preserves it.                                      *)
IInv ==
    /\ TypeOK
    /\ LevelInv
    /\ ConnectionsAccounted
    /\ AutoCommitOffInTransaction
    /\ TransactionInv
    /\ BatchInv
    /\ FreshInv
    /\ AtomicUnlessStarved

=============================================================================
