------------------------- MODULE JdbcSessionProofs -------------------------
(* Proofs about JdbcSession for every set of threads and connections, and  *)
(* then about CacheableDao.                                                *)
EXTENDS JdbcSession, TLAPS

(* The first states satisfy the invariant.                                 *)
LEMMA InitIInv == Init => IInv
BY NoConnAssumption DEF Init, IInv, TypeOK, LevelInv, ConnectionsAccounted,
   AutoCommitOffInTransaction, TransactionInv, InTransaction, BatchInv,
   FreshInv, AtomicUnlessStarved, AllOrNothing, Statement, Outcome

(* What the connection a session is given has in common with no other.     *)
LEMMA GivenConnection ==
    ASSUME IInv, NEW t \in Thread, NEW c \in GetJdbcConnection(t)
    PROVE  /\ c \in Conn /\ c # NoConn
           /\ \A u \in Thread : u # t => jdbcConnection[u] # c
           /\ jdbcConnection[t] # NoConn => c = jdbcConnection[t]
           /\ jdbcConnection[t] = NoConn =>
                /\ c \in idle /\ c \in autoCommit /\ pending[c] = {}
                /\ ~InTransaction(t)
BY NoConnAssumption DEF IInv, TypeOK, ConnectionsAccounted, TransactionInv, GetJdbcConnection

(* An update leaves its change with its transaction, or commits it.        *)
LEMMA ExecuteUpdateIInv ==
    ASSUME IInv, NEW t \in Thread, NEW w \in Write, ExecuteUpdate(t, w)
    PROVE  IInv'
<1> USE NoConnAssumption
<1> PICK c \in GetJdbcConnection(t) :
        /\ committed' = CommittedBy(c, {w})
        /\ Close(t, txStack[t], c, PendingBy(c, {w}))
  BY DEF ExecuteUpdate
<1>1. TypeOK'
  BY DEF ExecuteUpdate, IInv, TypeOK, Close, Hold, Release, Record, CommittedBy, PendingBy, GetJdbcConnection, StatementAfterRelease, Statement, spring
<1>2. LevelInv'
  BY DEF ExecuteUpdate, IInv, TypeOK, LevelInv, spring
<1>3. ConnectionsAccounted'
  BY DEF ExecuteUpdate, IInv, TypeOK, ConnectionsAccounted, Close, Hold, Release, GetJdbcConnection
<1>4. AutoCommitOffInTransaction'
  <2> SUFFICES ASSUME NEW u \in Thread, jdbcConnection'[u] # NoConn
               PROVE  (jdbcConnection'[u] \in autoCommit' <=> depth'[u] = 0 \/ u \in starved')
    BY DEF AutoCommitOffInTransaction
  <2>1. CASE u = t
    BY <2>1, GivenConnection DEF ExecuteUpdate, IInv, TypeOK, LevelInv, AutoCommitOffInTransaction, InTransaction, Close, Hold, Release, spring
  <2>2. CASE u # t
    BY <2>2, GivenConnection DEF ExecuteUpdate, IInv, TypeOK, AutoCommitOffInTransaction, Close, Hold, Release, spring
  <2>3. QED BY <2>1, <2>2
<1>5. TransactionInv'
  <2>1. ASSUME NEW u \in Thread, InTransaction(u)'
        PROVE  /\ jdbcConnection'[u] # NoConn
               /\ u \in activeFlag'
               /\ pending'[jdbcConnection'[u]] = txWrites'[u]
    <3>1. InTransaction(u)
      BY <2>1 DEF ExecuteUpdate, InTransaction, spring
    <3>2. CASE u = t
      BY <3>1, <3>2, GivenConnection DEF ExecuteUpdate, IInv, TypeOK, LevelInv, AutoCommitOffInTransaction, TransactionInv, InTransaction, Close, Hold, Release, Record, PendingBy
    <3>3. CASE u # t
      BY <3>1, <3>3, GivenConnection DEF ExecuteUpdate, IInv, TypeOK, TransactionInv, Close, Hold, Release, Record
    <3>4. QED BY <3>2, <3>3
  <2>2. idle' \subseteq autoCommit'
    BY GivenConnection DEF ExecuteUpdate, IInv, TransactionInv, Close, Hold, Release
  <2>3. \A d \in autoCommit' : pending'[d] = {}
    BY GivenConnection DEF ExecuteUpdate, IInv, TypeOK, TransactionInv, Close, Hold, Release, PendingBy
  <2>4. QED BY <2>1, <2>2, <2>3 DEF TransactionInv
<1>6. BatchInv'
  BY DEF ExecuteUpdate, IInv, TypeOK, BatchInv, Close, Hold, Release, GetJdbcConnection, StatementAfterRelease, Statement
<1>7. FreshInv'
  BY DEF ExecuteUpdate, IInv, TypeOK, LevelInv, ConnectionsAccounted, AutoCommitOffInTransaction, TransactionInv, InTransaction, FreshInv, Fresh, Close, Hold, Release, Record, GetJdbcConnection, CommittedBy, PendingBy, spring
<1>8. AtomicUnlessStarved'
  BY DEF ExecuteUpdate, IInv, TypeOK, LevelInv, ConnectionsAccounted, AutoCommitOffInTransaction, TransactionInv, InTransaction, FreshInv, Fresh, AtomicUnlessStarved, AllOrNothing, Close, Hold, Release, Record, GetJdbcConnection, CommittedBy, PendingBy, spring
<1>9. QED
  BY <1>1, <1>2, <1>3, <1>4, <1>5, <1>6, <1>7, <1>8 DEF IInv

(* Steps that change nothing but isInBatch and raised.                     *)
LEMMA FlagsIInv ==
    ASSUME IInv,
           UNCHANGED <<txStack, activeFlag, jdbcConnection, batchStatement, queued, depth,
                       idle, autoCommit, pending, committed, txWrites, outcome, starved>>,
           isInBatch' \subseteq Thread, raised' \subseteq Thread
    PROVE  IInv'
<1>1. TypeOK'
  BY DEF IInv, TypeOK
<1>2. /\ LevelInv' /\ ConnectionsAccounted' /\ AutoCommitOffInTransaction'
      /\ TransactionInv' /\ BatchInv'
  BY DEF IInv, LevelInv, ConnectionsAccounted, AutoCommitOffInTransaction,
         TransactionInv, InTransaction, BatchInv
<1>3. FreshInv' /\ AtomicUnlessStarved'
  BY DEF IInv, FreshInv, AtomicUnlessStarved, AllOrNothing
<1>4. QED BY <1>1, <1>2, <1>3 DEF IInv

(* Steps that only borrow, keep or return the connection.                  *)
LEMMA ConnectionIInv ==
    ASSUME IInv, NEW t \in Thread, NEW c \in GetJdbcConnection(t),
           \/ Close(t, txStack[t], c, pending[c])
           \/ Hold(t, c, pending[c]) /\ UNCHANGED <<autoCommit, batchStatement>>,
           UNCHANGED <<txStack, activeFlag, queued, depth, committed, txWrites, outcome, starved>>,
           isInBatch' \subseteq Thread, raised' \subseteq Thread
    PROVE  IInv'
<1> USE NoConnAssumption, GivenConnection
<1>1. TypeOK'
  BY DEF IInv, TypeOK, Close, Hold, Release, StatementAfterRelease, Statement
<1>2. LevelInv'
  BY DEF IInv, LevelInv
<1>3. ConnectionsAccounted'
  BY DEF IInv, TypeOK, ConnectionsAccounted, Close, Hold, Release
<1>4. AutoCommitOffInTransaction'
  <2> SUFFICES ASSUME NEW u \in Thread, jdbcConnection'[u] # NoConn
               PROVE  (jdbcConnection'[u] \in autoCommit' <=> depth'[u] = 0 \/ u \in starved')
    BY DEF AutoCommitOffInTransaction
  <2>1. CASE u = t
    BY <2>1 DEF IInv, TypeOK, LevelInv, AutoCommitOffInTransaction, InTransaction, Close, Hold, Release
  <2>2. CASE u # t
    BY <2>2 DEF IInv, TypeOK, AutoCommitOffInTransaction, Close, Hold, Release
  <2>3. QED BY <2>1, <2>2
<1>5. TransactionInv'
  <2>1. ASSUME NEW u \in Thread, InTransaction(u)'
        PROVE  /\ jdbcConnection'[u] # NoConn
               /\ u \in activeFlag'
               /\ pending'[jdbcConnection'[u]] = txWrites'[u]
    <3>1. InTransaction(u)
      BY <2>1 DEF InTransaction
    <3>2. CASE u = t
      BY <3>1, <3>2 DEF IInv, TypeOK, LevelInv, TransactionInv, InTransaction, Close, Hold, Release
    <3>3. CASE u # t
      BY <3>1, <3>3 DEF IInv, TypeOK, TransactionInv, Close, Hold, Release
    <3>4. QED BY <3>2, <3>3
  <2>2. idle' \subseteq autoCommit'
    BY DEF IInv, TransactionInv, Close, Hold, Release
  <2>3. \A d \in autoCommit' : pending'[d] = {}
    BY DEF IInv, TypeOK, TransactionInv, Close, Hold, Release
  <2>4. QED BY <2>1, <2>2, <2>3 DEF TransactionInv
<1>6. BatchInv'
  BY DEF IInv, TypeOK, BatchInv, Close, Hold, Release, StatementAfterRelease, Statement
<1>7. FreshInv'
  BY DEF IInv, TypeOK, TransactionInv, FreshInv, Close, Hold, Release
<1>8. AtomicUnlessStarved'
  BY DEF IInv, AtomicUnlessStarved, AllOrNothing
<1>9. QED
  BY <1>1, <1>2, <1>3, <1>4, <1>5, <1>6, <1>7, <1>8 DEF IInv

(* A query only borrows a connection, or gives it back.                    *)
LEMMA QueryIInv == ASSUME IInv, NEW t \in Thread, Query(t) PROVE IInv'
<1>1. PICK c \in GetJdbcConnection(t) : Close(t, txStack[t], c, pending[c])
  BY DEF Query
<1>2. QED
  BY <1>1, ConnectionIInv DEF Query, IInv, TypeOK, spring, history

(* A find that throws keeps its connection.                                *)
LEMMA FindThrowsIInv == ASSUME IInv, NEW t \in Thread, FindThrows(t) PROVE IInv'
<1>1. PICK c \in GetJdbcConnection(t) : Hold(t, c, pending[c]) /\ UNCHANGED autoCommit
  BY DEF FindThrows
<1>2. QED
  BY <1>1, ConnectionIInv DEF FindThrows, Throw, IInv, TypeOK, batch, history

(* A statement that throws adds no change.                                 *)
LEMMA StatementThrowsIInv == ASSUME IInv, NEW t \in Thread, StatementThrows(t) PROVE IInv'
<1>1. ASSUME NEW c \in GetJdbcConnection(t), Close(t, txStack[t], c, pending[c])
      PROVE  IInv'
  BY <1>1, ConnectionIInv DEF StatementThrows, Throw, IInv, TypeOK, history
<1>2. CASE UNCHANGED <<jdbcConnection, idle, autoCommit, pending, batchStatement>>
  BY <1>2, FlagsIInv DEF StatementThrows, Throw, IInv, TypeOK, history
<1>3. QED BY <1>1, <1>2 DEF StatementThrows

(* A batch holds its statement on its connection.                          *)
LEMMA AddBatchIInv ==
    ASSUME IInv, NEW t \in Thread, NEW w \in Write, AddBatch(t, w)
    PROVE  IInv'
<1> USE NoConnAssumption, GivenConnection
<1>1. TypeOK'
  BY DEF AddBatch, IInv, TypeOK, Hold, Statement, spring, history
<1>2. LevelInv'
  BY DEF AddBatch, IInv, LevelInv, spring, history
<1>3. ConnectionsAccounted'
  BY DEF AddBatch, IInv, TypeOK, ConnectionsAccounted, Hold
<1>4. AutoCommitOffInTransaction'
  <2> SUFFICES ASSUME NEW u \in Thread, jdbcConnection'[u] # NoConn
               PROVE  (jdbcConnection'[u] \in autoCommit' <=> depth'[u] = 0 \/ u \in starved')
    BY DEF AutoCommitOffInTransaction
  <2>1. CASE u = t
    BY <2>1 DEF AddBatch, IInv, TypeOK, AutoCommitOffInTransaction, InTransaction, Hold, spring, history
  <2>2. CASE u # t
    BY <2>2 DEF AddBatch, IInv, TypeOK, AutoCommitOffInTransaction, Hold, spring, history
  <2>3. QED BY <2>1, <2>2
<1>5. TransactionInv'
  <2>1. ASSUME NEW u \in Thread, InTransaction(u)'
        PROVE  /\ jdbcConnection'[u] # NoConn
               /\ u \in activeFlag'
               /\ pending'[jdbcConnection'[u]] = txWrites'[u]
    <3>1. InTransaction(u)
      BY <2>1 DEF AddBatch, InTransaction, spring, history
    <3>2. QED
      BY <3>1 DEF AddBatch, IInv, TypeOK, TransactionInv, InTransaction, Hold, history
  <2>2. idle' \subseteq autoCommit' /\ \A d \in autoCommit' : pending'[d] = {}
    BY DEF AddBatch, IInv, TypeOK, TransactionInv, Hold
  <2>3. QED BY <2>1, <2>2 DEF TransactionInv
<1>6. BatchInv'
  BY DEF AddBatch, IInv, TypeOK, BatchInv, Hold
<1>7. FreshInv'
  BY DEF AddBatch, IInv, TypeOK, TransactionInv, FreshInv, Fresh, Hold, history
<1>8. AtomicUnlessStarved'
  BY DEF AddBatch, IInv, AtomicUnlessStarved, AllOrNothing, spring, history
<1>9. QED
  BY <1>1, <1>2, <1>3, <1>4, <1>5, <1>6, <1>7, <1>8 DEF IInv

(* A batch that reaches the database, whole or in part.                    *)
LEMMA RunQueuedIInv ==
    ASSUME IInv, NEW t \in Thread, NEW ws \in SUBSET queued[t],
           batchStatement[t] = "open", RunQueued(t, ws),
           queued' = [queued EXCEPT ![t] = {}],
           UNCHANGED <<session, batchStatement, depth, idle, autoCommit, outcome, starved>>,
           isInBatch' \subseteq Thread, raised' \subseteq Thread
    PROVE  IInv'
<1> USE NoConnAssumption
<1> DEFINE c == jdbcConnection[t]
<1>a. c \in Conn /\ ws \subseteq Write /\ \A u \in Thread : u # t => jdbcConnection[u] # c
  BY DEF IInv, TypeOK, BatchInv, ConnectionsAccounted
<1>1. TypeOK'
  BY <1>a DEF IInv, TypeOK, RunQueued, CommittedBy, PendingBy, Record, session
<1>2. LevelInv' /\ ConnectionsAccounted' /\ AutoCommitOffInTransaction' /\ BatchInv'
  BY DEF IInv, LevelInv, ConnectionsAccounted, AutoCommitOffInTransaction, BatchInv, session
<1>3. TransactionInv'
  <2>1. ASSUME NEW u \in Thread, InTransaction(u)'
        PROVE  /\ jdbcConnection'[u] # NoConn
               /\ u \in activeFlag'
               /\ pending'[jdbcConnection'[u]] = txWrites'[u]
    <3>1. InTransaction(u)
      BY <2>1 DEF InTransaction
    <3>2. CASE u = t
      BY <1>a, <3>1, <3>2 DEF IInv, TypeOK, AutoCommitOffInTransaction, TransactionInv, InTransaction, RunQueued, PendingBy, Record, session
    <3>3. CASE u # t
      BY <1>a, <3>1, <3>3 DEF IInv, TypeOK, TransactionInv, RunQueued, Record, session
    <3>4. QED BY <3>2, <3>3
  <2>2. idle' \subseteq autoCommit' /\ \A d \in autoCommit' : pending'[d] = {}
    BY <1>a DEF IInv, TypeOK, TransactionInv, RunQueued, PendingBy
  <2>3. QED BY <2>1, <2>2 DEF TransactionInv
<1>4. FreshInv'
  BY <1>a DEF IInv, TypeOK, BatchInv, FreshInv, RunQueued, CommittedBy, PendingBy, Record, session
<1>5. AtomicUnlessStarved'
  BY <1>a DEF IInv, TypeOK, FreshInv, AtomicUnlessStarved, AllOrNothing, RunQueued, CommittedBy, Record
<1>6. QED BY <1>1, <1>2, <1>3, <1>4, <1>5 DEF IInv

(* Running a batch leaves its changes like single updates.                 *)
LEMMA ExecuteBatchIInv == ASSUME IInv, NEW t \in Thread, ExecuteBatch(t) PROVE IInv'
BY RunQueuedIInv DEF ExecuteBatch, IInv, TypeOK, spring

(* A batch that throws leaves the part that ran.                           *)
LEMMA ExecuteBatchThrowsIInv ==
    ASSUME IInv, NEW t \in Thread, ExecuteBatchThrows(t)
    PROVE  IInv'
<1>1. CASE batchStatement[t] = "open"
  <2>1. PICK ws \in SUBSET queued[t] : RunQueued(t, ws)
    BY <1>1 DEF ExecuteBatchThrows
  <2>2. QED
    BY <1>1, <2>1, RunQueuedIInv DEF ExecuteBatchThrows, Throw, IInv, TypeOK
<1>2. CASE batchStatement[t] # "open"
  <2>1. TypeOK'
    BY <1>2 DEF ExecuteBatchThrows, Throw, IInv, TypeOK, session
  <2>2. LevelInv' /\ ConnectionsAccounted' /\ AutoCommitOffInTransaction' /\ TransactionInv' /\ BatchInv'
    BY <1>2 DEF ExecuteBatchThrows, IInv, LevelInv, ConnectionsAccounted, AutoCommitOffInTransaction, TransactionInv, InTransaction, BatchInv, session
  <2>3. FreshInv' /\ AtomicUnlessStarved'
    BY <1>2 DEF ExecuteBatchThrows, IInv, TypeOK, FreshInv, AtomicUnlessStarved, AllOrNothing, session
  <2>4. QED BY <2>1, <2>2, <2>3 DEF IInv
<1>3. QED BY <1>1, <1>2

(* The end of a batch drops what is queued, and may return the connection.*)
LEMMA EndBatchIInv == ASSUME IInv, NEW t \in Thread, EndBatch(t) PROVE IInv'
<1> USE NoConnAssumption DEF EndBatch
<1>1. TypeOK'
  BY DEF IInv, TypeOK, Release, Statement, spring, history
<1>2. LevelInv'
  BY DEF IInv, LevelInv, spring, history
<1>3. ConnectionsAccounted'
  BY DEF IInv, TypeOK, ConnectionsAccounted, Release
<1>4. AutoCommitOffInTransaction'
  BY DEF IInv, TypeOK, ConnectionsAccounted, AutoCommitOffInTransaction, Release, spring, history
<1>5. TransactionInv'
  <2>1. ASSUME NEW u \in Thread, InTransaction(u)'
        PROVE  /\ jdbcConnection'[u] # NoConn
               /\ u \in activeFlag'
               /\ pending'[jdbcConnection'[u]] = txWrites'[u]
    <3>1. InTransaction(u)
      BY <2>1 DEF InTransaction, spring, history
    <3>2. QED
      BY <3>1 DEF IInv, TypeOK, LevelInv, ConnectionsAccounted, TransactionInv, InTransaction, Release, history
  <2>2. idle' \subseteq autoCommit' /\ \A d \in autoCommit' : pending'[d] = {}
    BY DEF IInv, TypeOK, TransactionInv, Release
  <2>3. QED BY <2>1, <2>2 DEF TransactionInv
<1>6. BatchInv'
  BY DEF IInv, TypeOK, BatchInv, ConnectionsAccounted, Release
<1>7. FreshInv'
  BY DEF IInv, TypeOK, FreshInv, LevelInv, AutoCommitOffInTransaction, TransactionInv, InTransaction, Release, history
<1>8. AtomicUnlessStarved'
  BY DEF IInv, AtomicUnlessStarved, AllOrNothing, spring, history
<1>9. QED
  BY <1>1, <1>2, <1>3, <1>4, <1>5, <1>6, <1>7, <1>8 DEF IInv

(* A begin adds its level and takes a connection out of auto-commit.       *)
LEMMA BeginIInv == ASSUME IInv, NEW t \in Thread, Begin(t) PROVE IInv'
<1> USE NoConnAssumption, GivenConnection
<1>1. CASE txStack[t] = 0
  <2>1. depth[t] = 0 /\ t \notin starved
    BY <1>1 DEF IInv, TypeOK, LevelInv
  <2>2. PICK c \in GetJdbcConnection(t) :
            Hold(t, c, pending[c]) /\ autoCommit' = autoCommit \ {c}
    BY <1>1 DEF Begin
  <2>3. pending[c] = {}
    BY <2>1 DEF IInv, TypeOK, AutoCommitOffInTransaction, TransactionInv
  <2>4. TypeOK'
    BY <1>1, <2>1, <2>2 DEF Begin, EnterMethod, IInv, TypeOK, Hold, Outcome, batch
  <2>5. LevelInv'
    BY <1>1, <2>1 DEF Begin, EnterMethod, IInv, TypeOK, LevelInv
  <2>6. ConnectionsAccounted'
    BY <2>2 DEF IInv, TypeOK, ConnectionsAccounted, Hold
  <2>7. AutoCommitOffInTransaction'
    BY <2>1, <2>2 DEF Begin, EnterMethod, IInv, TypeOK, AutoCommitOffInTransaction, Hold
  <2>8. TransactionInv'
    <3>1. ASSUME NEW u \in Thread, InTransaction(u)'
          PROVE  /\ jdbcConnection'[u] # NoConn
                 /\ u \in activeFlag'
                 /\ pending'[jdbcConnection'[u]] = txWrites'[u]
      <4>1. CASE u = t
        BY <1>1, <2>1, <2>2, <2>3, <4>1 DEF Begin, EnterMethod, IInv, TypeOK, Hold
      <4>2. CASE u # t
        BY <1>1, <2>1, <2>2, <3>1, <4>2 DEF Begin, EnterMethod, IInv, TypeOK, TransactionInv, InTransaction, Hold
      <4>3. QED BY <4>1, <4>2
    <3>2. idle' \subseteq autoCommit' /\ \A d \in autoCommit' : pending'[d] = {}
      BY <2>2 DEF IInv, TypeOK, TransactionInv, Hold
    <3>3. QED BY <3>1, <3>2 DEF TransactionInv
  <2>9. BatchInv'
    BY <2>2 DEF Begin, IInv, TypeOK, BatchInv, Hold, batch
  <2>10. FreshInv'
    BY SMTT(60), <2>1, <2>2, <2>3 DEF Begin, EnterMethod, IInv, TypeOK, FreshInv, Hold, batch
  <2>11. AtomicUnlessStarved'
    BY <2>1 DEF Begin, EnterMethod, IInv, TypeOK, AtomicUnlessStarved, AllOrNothing
  <2>12. QED
    BY <2>4, <2>5, <2>6, <2>7, <2>8, <2>9, <2>10, <2>11 DEF IInv
<1>2. CASE txStack[t] > 0
  <2>1. TypeOK'
    BY <1>2 DEF Begin, EnterMethod, IInv, TypeOK, Outcome, batch
  <2>2. depth[t] > 0 \/ t \in starved
    BY <1>2 DEF IInv, TypeOK, LevelInv
  <2>3. /\ UNCHANGED <<jdbcConnection, idle, autoCommit, pending, activeFlag, batch, committed, starved>>
        /\ depth' = [depth EXCEPT ![t] = @ + 1]
    BY <1>2 DEF Begin, EnterMethod, IInv, TypeOK
  <2>4. LevelInv'
    BY <2>3 DEF Begin, IInv, TypeOK, LevelInv
  <2>5. ConnectionsAccounted' /\ AutoCommitOffInTransaction' /\ BatchInv'
    BY <2>2, <2>3 DEF IInv, TypeOK, ConnectionsAccounted, AutoCommitOffInTransaction, BatchInv, batch
  <2>6. TransactionInv'
    BY <2>2, <2>3 DEF Begin, EnterMethod, IInv, TypeOK, TransactionInv, InTransaction
  <2>7. FreshInv'
    BY <2>3 DEF Begin, EnterMethod, IInv, TypeOK, FreshInv, batch
  <2>8. AtomicUnlessStarved'
    BY <2>2, <2>3 DEF Begin, EnterMethod, IInv, TypeOK, AtomicUnlessStarved, AllOrNothing
  <2>9. QED
    BY <2>1, <2>4, <2>5, <2>6, <2>7, <2>8 DEF IInv
<1>3. QED BY <1>1, <1>2 DEF Begin

(* A begin that finds the pool empty leaves its level behind.              *)
LEMMA BeginThrowsIInv == ASSUME IInv, NEW t \in Thread, BeginThrows(t) PROVE IInv'
<1>1. TypeOK'
  BY DEF BeginThrows, Throw, IInv, TypeOK, batch, database
<1>2. LevelInv'
  BY DEF BeginThrows, IInv, TypeOK, LevelInv
<1>3. jdbcConnection[t] = NoConn
  BY DEF BeginThrows, GetJdbcConnection
<1>4. ConnectionsAccounted' /\ AutoCommitOffInTransaction' /\ TransactionInv' /\ BatchInv'
  BY <1>3 DEF BeginThrows, IInv, TypeOK, ConnectionsAccounted, AutoCommitOffInTransaction, TransactionInv, InTransaction, BatchInv, batch, database
<1>5. FreshInv' /\ AtomicUnlessStarved'
  BY DEF BeginThrows, IInv, FreshInv, AtomicUnlessStarved, AllOrNothing, batch, database
<1>6. QED BY <1>1, <1>2, <1>4, <1>5 DEF IInv

(* An inner commit publishes nothing.                                      *)
LEMMA CommitInnerIInv == ASSUME IInv, NEW t \in Thread, CommitInner(t) PROVE IInv'
<1> USE DEF CommitInner, LeaveMethod
<1>1. TypeOK'
  BY DEF IInv, TypeOK, Outcome, batch, database
<1>2. LevelInv'
  BY DEF IInv, TypeOK, LevelInv
<1>3. depth[t] > 1 \/ t \in starved
  BY DEF IInv, TypeOK, LevelInv
<1>4. ConnectionsAccounted' /\ AutoCommitOffInTransaction' /\ TransactionInv' /\ BatchInv'
  BY <1>3 DEF IInv, TypeOK, ConnectionsAccounted, AutoCommitOffInTransaction, TransactionInv, InTransaction, BatchInv, batch, database
<1>5. FreshInv'
  BY DEF IInv, FreshInv, batch, database
<1>6. AtomicUnlessStarved'
  BY <1>3 DEF IInv, TypeOK, AtomicUnlessStarved, AllOrNothing, batch, database
<1>7. QED BY <1>1, <1>2, <1>4, <1>5, <1>6 DEF IInv

(* The end of an outermost transaction, whatever becomes of its changes:   *)
(* they are all committed or all dropped, and the connection goes back.    *)
LEMMA EndOfTransactionIInv ==
    ASSUME IInv, NEW t \in Thread, depth[t] > 0, txStack[t] = 1,
           jdbcConnection[t] # NoConn,
           NEW result \in Outcome \ {"none"}, LeaveMethod(t, result),
           \/ committed' = committed \cup pending[jdbcConnection[t]] /\ result # "rolledback"
           \/ committed' = committed /\ result # "committed",
           Release(t, jdbcConnection[t]),
           batchStatement' = [batchStatement EXCEPT ![t] = StatementAfterRelease(t)],
           txStack' = [txStack EXCEPT ![t] = 0],
           UNCHANGED <<isInBatch, queued, txWrites, starved>>,
           activeFlag' \in {activeFlag, activeFlag \cup {t}, activeFlag \ {t}},
           raised' \subseteq Thread
    PROVE  IInv'
<1> USE NoConnAssumption
<1> DEFINE c == jdbcConnection[t]
<1>a. /\ c \in Conn /\ \A u \in Thread : u # t => jdbcConnection[u] # c
      /\ depth[t] = 1 /\ t \notin starved /\ pending[c] = txWrites[t]
  BY DEF IInv, TypeOK, LevelInv, ConnectionsAccounted, TransactionInv, InTransaction
<1>b. /\ depth' = [depth EXCEPT ![t] = 0]
      /\ outcome' = [outcome EXCEPT ![t] = result]
  BY <1>a DEF LeaveMethod, IInv, TypeOK
<1>1. TypeOK'
  BY <1>a, <1>b DEF IInv, TypeOK, Release, StatementAfterRelease, Statement
<1>2. LevelInv'
  BY <1>a, <1>b DEF IInv, TypeOK, LevelInv
<1>3. ConnectionsAccounted'
  BY <1>a DEF IInv, TypeOK, ConnectionsAccounted, Release
<1>4. AutoCommitOffInTransaction'
  BY <1>a, <1>b DEF IInv, TypeOK, AutoCommitOffInTransaction, Release
<1>5. TransactionInv'
  <2>1. ASSUME NEW u \in Thread, InTransaction(u)'
        PROVE  /\ jdbcConnection'[u] # NoConn
               /\ u \in activeFlag'
               /\ pending'[jdbcConnection'[u]] = txWrites'[u]
    <3>1. u # t /\ InTransaction(u)
      BY <1>b, <2>1 DEF InTransaction, IInv, TypeOK
    <3>2. QED
      BY <1>a, <3>1 DEF IInv, TypeOK, TransactionInv, Release
  <2>2. idle' \subseteq autoCommit' /\ \A d \in autoCommit' : pending'[d] = {}
    BY <1>a DEF IInv, TypeOK, TransactionInv, Release
  <2>3. QED BY <2>1, <2>2 DEF TransactionInv
<1>6. BatchInv'
  BY <1>a DEF IInv, TypeOK, BatchInv, Release, StatementAfterRelease
<1>7. FreshInv'
  <2>1. \A d \in Conn : d # c => pending[d] \cap pending[c] = {}
    BY <1>a DEF IInv, TypeOK, FreshInv
  <2>2. QED
    BY <1>a, <2>1 DEF IInv, TypeOK, FreshInv, Release
<1>8. AtomicUnlessStarved'
  BY <1>a, <1>b DEF IInv, TypeOK, FreshInv, AtomicUnlessStarved, AllOrNothing
<1>9. QED
  BY <1>1, <1>2, <1>3, <1>4, <1>5, <1>6, <1>7, <1>8 DEF IInv

(* The outermost commit publishes all of the transaction.                  *)
LEMMA CommitOuterIInv == ASSUME IInv, NEW t \in Thread, CommitOuter(t) PROVE IInv'
BY EndOfTransactionIInv DEF CommitOuter, IInv, TypeOK, Outcome

(* A commit that throws has published all of the transaction or nothing.   *)
LEMMA CommitThrowsIInv == ASSUME IInv, NEW t \in Thread, CommitThrows(t) PROVE IInv'
BY EndOfTransactionIInv DEF CommitThrows, IInv, TypeOK, Outcome

(* A roll-back drops the transaction at the outermost level only.          *)
LEMMA RollbackIInv == ASSUME IInv, NEW t \in Thread, Rollback(t) PROVE IInv'
<1> USE NoConnAssumption
<1>1. CASE t \notin starved /\ txStack[t] = 1
  <2>1. jdbcConnection[t] # NoConn /\ t \in activeFlag
    BY <1>1 DEF Rollback, IInv, TransactionInv, InTransaction
  <2>2. /\ txStack' = [txStack EXCEPT ![t] = 0]
        /\ Release(t, jdbcConnection[t])
        /\ batchStatement' = [batchStatement EXCEPT ![t] = StatementAfterRelease(t)]
    BY <1>1, <2>1 DEF Rollback, Close
  <2>3. raised' \subseteq Thread
    BY DEF Rollback, IInv, TypeOK
  <2>4. QED
    BY <1>1, <2>1, <2>2, <2>3, EndOfTransactionIInv DEF Rollback, Outcome
<1>2. CASE t \in starved \/ txStack[t] # 1
  <2>1. /\ depth[t] > 1 \/ t \in starved
        /\ txStack[t] > 1
    BY <1>2 DEF Rollback, IInv, TypeOK, LevelInv
  <2>2. /\ UNCHANGED <<jdbcConnection, idle, autoCommit, pending, batchStatement>>
        /\ txStack' \in [Thread -> Nat]
        /\ \A u \in Thread : u # t => txStack'[u] = txStack[u]
        /\ t \in activeFlag => txStack'[t] = txStack[t] - 1
        /\ t \notin activeFlag => txStack'[t] = txStack[t]
    BY <2>1 DEF Rollback, IInv, TypeOK
  <2>3. TypeOK'
    BY <2>2 DEF Rollback, LeaveMethod, IInv, TypeOK, Outcome
  <2>4. LevelInv'
    <3>1. depth' = [depth EXCEPT ![t] = @ - 1] /\ starved' = starved
      BY DEF Rollback, LeaveMethod
    <3>2. t \notin starved => t \in activeFlag
      BY DEF Rollback, IInv, TransactionInv, InTransaction
    <3>3. ASSUME NEW u \in Thread
          PROVE  /\ u \notin starved' => txStack'[u] = depth'[u]
                 /\ u \in starved'    => txStack'[u] > depth'[u]
      <4>1. CASE u = t
        BY <2>2, <3>1, <3>2, <4>1 DEF Rollback, IInv, TypeOK, LevelInv
      <4>2. CASE u # t
        BY <2>2, <3>1, <4>2 DEF IInv, TypeOK, LevelInv
      <4>3. QED BY <4>1, <4>2
    <3>4. QED BY <3>3 DEF LevelInv
  <2>5. ConnectionsAccounted' /\ AutoCommitOffInTransaction' /\ TransactionInv' /\ BatchInv'
    BY <2>1, <2>2 DEF Rollback, LeaveMethod, IInv, TypeOK, ConnectionsAccounted, AutoCommitOffInTransaction, TransactionInv, InTransaction, BatchInv
  <2>6. FreshInv'
    BY <2>2 DEF Rollback, IInv, FreshInv
  <2>7. AtomicUnlessStarved'
    BY <2>1 DEF Rollback, LeaveMethod, IInv, TypeOK, AtomicUnlessStarved, AllOrNothing
  <2>8. QED BY <2>3, <2>4, <2>5, <2>6, <2>7 DEF IInv
<1>3. QED BY <1>1, <1>2

-----------------------------------------------------------------------------
(* The theorems.                                                           *)

(* Every step of every thread preserves the inductive invariant.           *)
LEMMA NextIInv == IInv /\ [Next]_vars => IInv'
<1> SUFFICES ASSUME IInv, [Next]_vars PROVE IInv'
  OBVIOUS
<1>1. ASSUME NEW t \in Thread, Step(t) PROVE IInv'
  <2>1. CASE \E w \in Write : ExecuteUpdate(t, w) \/ AddBatch(t, w)
    BY <2>1, ExecuteUpdateIInv, AddBatchIInv
  <2>2. CASE Query(t)
    BY <2>2, QueryIInv
  <2>3. CASE FindThrows(t)
    BY <2>3, FindThrowsIInv
  <2>4. CASE StatementThrows(t)
    BY <2>4, StatementThrowsIInv
  <2>5. CASE StartBatch(t)
    BY <2>5, FlagsIInv DEF StartBatch, IInv, TypeOK, session, spring, database, history
  <2>6. CASE AddBatchThrows(t)
    BY <2>6, FlagsIInv DEF AddBatchThrows, Throw, IInv, TypeOK, session, batch, database, history
  <2>7. CASE ExecuteBatch(t)
    BY <2>7, ExecuteBatchIInv
  <2>8. CASE ExecuteBatchThrows(t)
    BY <2>8, ExecuteBatchThrowsIInv
  <2>9. CASE EndBatch(t)
    BY <2>9, EndBatchIInv
  <2>10. CASE Begin(t)
    BY <2>10, BeginIInv
  <2>11. CASE BeginThrows(t)
    BY <2>11, BeginThrowsIInv
  <2>12. CASE CommitInner(t)
    BY <2>12, CommitInnerIInv
  <2>13. CASE CommitOuter(t)
    BY <2>13, CommitOuterIInv
  <2>14. CASE CommitThrows(t)
    BY <2>14, CommitThrowsIInv
  <2>15. CASE Rollback(t)
    BY <2>15, RollbackIInv
  <2>16. CASE UserThrows(t)
    BY <2>16, FlagsIInv DEF UserThrows, IInv, TypeOK, session, batch, database, history
  <2>17. CASE UserCatches(t)
    BY <2>17, FlagsIInv DEF UserCatches, IInv, TypeOK, session, batch, database, history
  <2>18. QED
    BY <1>1, <2>1, <2>2, <2>3, <2>4, <2>5, <2>6, <2>7, <2>8, <2>9, <2>10, <2>11,
       <2>12, <2>13, <2>14, <2>15, <2>16, <2>17 DEF Step
<1>2. CASE UNCHANGED vars
  BY <1>2, FlagsIInv DEF vars, session, batch, spring, database, history, IInv, TypeOK
<1>3. QED BY <1>1, <1>2 DEF Next

(* IInv holds in every reachable state, for every set of threads and every *)
(* pool.                                                                   *)
THEOREM Invariance == Spec => []IInv
BY InitIInv, NextIInv, PTL DEF Spec

(* The values of the session, the pool and the tables keep their types.    *)
THEOREM TypeCorrect == Spec => []TypeOK
<1>1. IInv => TypeOK
  BY DEF IInv
<1>2. QED BY <1>1, Invariance, PTL

(* A request whose thread never found the pool empty at a begin() leaves   *)
(* all or nothing of its outermost @Transactional method, although         *)
(* JdbcTransaction.rollback() never rolls back: closing does.              *)
THEOREM Atomicity == Spec => []AtomicUnlessStarved
<1>1. IInv => AtomicUnlessStarved
  BY DEF IInv
<1>2. QED BY <1>1, Invariance, PTL

(* Inner commits publish nothing before the outermost one.                 *)
THEOREM Isolation == Spec => []InvisibleUntilCommit
<1>1. IInv => InvisibleUntilCommit
  BY DEF IInv, TypeOK, TransactionInv, InTransaction, FreshInv, InvisibleUntilCommit
<1>2. QED BY <1>1, Invariance, PTL

(* No path loses a connection or shares one.                               *)
THEOREM NoConnectionLost == Spec => []ConnectionsAccounted
<1>1. IInv => ConnectionsAccounted
  BY DEF IInv
<1>2. QED BY <1>1, Invariance, PTL

(* Auto-commit is off exactly during transactions.                         *)
THEOREM AutoCommitDiscipline == Spec => []AutoCommitOffInTransaction
<1>1. IInv => AutoCommitOffInTransaction
  BY DEF IInv
<1>2. QED BY <1>1, Invariance, PTL

(* A step of t leaves the connection of any other session alone, and takes *)
(* that of t away only outside a transaction or with its outermost method. *)
LEMMA StepKeepsConnection ==
    ASSUME IInv, NEW t \in Thread, Step(t), NEW u \in Thread,
           depth[u] > 0, depth'[u] > 0, u \notin starved
    PROVE  jdbcConnection'[u] = jdbcConnection[u]
<1> USE GivenConnection
<1>1. jdbcConnection[u] # NoConn /\ txStack[u] = depth[u]
  BY DEF IInv, LevelInv, TransactionInv, InTransaction
<1>2. CASE \E w \in Write : ExecuteUpdate(t, w) \/ AddBatch(t, w)
  BY <1>1, <1>2 DEF ExecuteUpdate, AddBatch, Close, Hold, Release, IInv, TypeOK
<1>3. CASE Query(t) \/ FindThrows(t) \/ StatementThrows(t)
  BY <1>1, <1>3 DEF Query, FindThrows, StatementThrows, Close, Hold, Release, IInv, TypeOK
<1>4. CASE StartBatch(t) \/ AddBatchThrows(t) \/ ExecuteBatch(t) \/ ExecuteBatchThrows(t)
  BY <1>4 DEF StartBatch, AddBatchThrows, ExecuteBatch, ExecuteBatchThrows, session
<1>5. CASE EndBatch(t)
  BY <1>1, <1>5 DEF EndBatch, Release, IInv, TypeOK
<1>6. CASE Begin(t) \/ BeginThrows(t)
  BY <1>1, <1>6 DEF Begin, BeginThrows, Hold, IInv, TypeOK
<1>7. CASE CommitInner(t) \/ UserThrows(t) \/ UserCatches(t)
  BY <1>7 DEF CommitInner, UserThrows, UserCatches, session
<1>8. CASE CommitOuter(t) \/ CommitThrows(t)
  BY <1>1, <1>8 DEF CommitOuter, CommitThrows, LeaveMethod, Release, IInv, TypeOK
<1>9. CASE Rollback(t)
  <2>1. CASE u = t
    <3>1. depth'[u] = depth[u] - 1
      BY <1>9, <2>1 DEF Rollback, LeaveMethod, IInv, TypeOK
    <3>2. txStack[t] > 1
      BY <1>1, <2>1, <3>1 DEF IInv, TypeOK
    <3>3. QED
      BY <1>9, <3>2 DEF Rollback, IInv, TypeOK
  <2>2. CASE u # t
    BY <1>9, <2>2 DEF Rollback, Close, Release, IInv, TypeOK
  <2>3. QED BY <2>1, <2>2
<1>10. QED
  BY <1>2, <1>3, <1>4, <1>5, <1>6, <1>7, <1>8, <1>9 DEF Step

(* All statements of a transaction run on one connection.                  *)
THEOREM OneConnectionPerTransaction == Spec => ConnectionKept
<1>1. IInv /\ [Next]_vars =>
        [\A t \in Thread :
            depth[t] > 0 /\ depth'[t] > 0 /\ t \notin starved
                => jdbcConnection[t] # NoConn /\ jdbcConnection'[t] = jdbcConnection[t]]_vars
  <2>1. ASSUME IInv, Next, NEW u \in Thread, depth[u] > 0, depth'[u] > 0, u \notin starved
        PROVE  jdbcConnection[u] # NoConn /\ jdbcConnection'[u] = jdbcConnection[u]
    BY <2>1, StepKeepsConnection DEF Next, IInv, TransactionInv, InTransaction
  <2>2. QED BY <2>1
<1>2. QED BY <1>1, Invariance, PTL DEF Spec, ConnectionKept

-----------------------------------------------------------------------------
(***************************************************************************)
(* The cached rows above the session (CacheableDao), which shares no state *)
(* with it: for any number of requests, columns and values.                *)
(***************************************************************************)
CONSTANTS Request, Field, Value, Missing, NoRow, Mark, StateField, Disabled
VARIABLES row, hash, hmFeature, pc, params, sent, returned, overtaken, causes

CD == INSTANCE CacheableDao

USE DEF CD!Row, CD!Hash, CD!Place, CD!Cause, CD!Nothing

(* A row sets every column.                                                *)
LEMMA RowIsComplete ==
  ASSUME CD!Constants, NEW entity \in CD!Row
  PROVE  entity \in CD!Hash /\ \A f \in Field : entity[f] \in Value /\ entity[f] # Missing
  BY DEF CD!Constants

(* The first states satisfy the invariant of the cache.                    *)
LEMMA InitCache ==
  ASSUME CD!Constants, CD!Init
  PROVE  CD!IInv
<1> USE DEF CD!Constants, CD!Init
<1>1. CD!TypeOK
  BY DEF CD!TypeOK
<1>2. CD!MarkedIsComplete /\ CD!CoherentUnless
  BY DEF CD!MarkedIsComplete, CD!CoherentUnless, CD!Agree, CD!FieldAgrees
<1>3. CD!FillHoldsRow /\ CD!OneWriter /\ CD!LocalsInv
  BY DEF CD!FillHoldsRow, CD!OneWriter, CD!LocalsInv, CD!LocalOK, CD!Writer, CD!Writing
<1>4. CD!WriteInCache
  BY DEF CD!WriteInCache
<1> QED
  BY <1>1, <1>2, <1>3, <1>4 DEF CD!IInv

(* Every step keeps the types.                                             *)
LEMMA CacheTypeStep ==
  ASSUME CD!Constants, CD!TypeOK, CD!LocalsInv, [CD!Next]_(CD!vars)
  PROVE  CD!TypeOK'
<1> USE DEF CD!Constants
<1>1. ASSUME NEW r \in Request, CD!Read(r) PROVE CD!TypeOK'
  <2>1. CASE CD!FindById(r)
    <3>1. hash \in [Field -> Value \cup {Missing, Mark}]
      BY DEF CD!TypeOK
    <3> QED
      BY <2>1, <3>1 DEF CD!FindById, CD!IsPOJO, CD!Goto, CD!TypeOK
  <2>1a. CASE CD!CacheUnread(r)
    BY <2>1a DEF CD!CacheUnread, CD!Goto, CD!TypeOK
  <2>2. CASE CD!FindInTable(r)
    <3>1. row # NoRow => row \in CD!Hash
      BY DEF CD!TypeOK
    <3>2. params' \in [Request -> CD!Hash]
      BY <2>2, <3>1 DEF CD!FindInTable, CD!TypeOK
    <3> QED
      BY <2>2, <3>2 DEF CD!FindInTable, CD!Goto, CD!TypeOK
  <2>3. CASE CD!Fill(r)
    BY <2>3 DEF CD!Fill, CD!Finish, CD!Goto, CD!Hmset, CD!TypeOK, CD!LocalsInv, CD!LocalOK
  <2>4. ASSUME NEW f \in Field, CD!FindFieldByKey(r, f) PROVE CD!TypeOK'
    BY <2>4 DEF CD!FindFieldByKey, CD!TypeOK
  <2>5. ASSUME NEW f \in Field, NEW g \in Field, CD!SelectOne(r, f, g) PROVE CD!TypeOK'
    <3>1. returned' \in [Field -> Value \cup {Missing, Mark}] \cup {NoRow}
      <4>1. CASE returned' = CD!SelectedFrom(f, g)
        BY <4>1 DEF CD!SelectedFrom, CD!TypeOK
      <4>2. CASE returned' = IF row = NoRow THEN NoRow
                             ELSE [CD!Nothing EXCEPT ![f] = row[f], ![g] = row[g]]
        BY <4>2 DEF CD!TypeOK
      <4> QED
        BY <2>5, <4>1, <4>2 DEF CD!SelectOne
    <3> QED
      BY <2>5, <3>1 DEF CD!SelectOne, CD!TypeOK
  <2> QED
    BY <1>1, <2>1, <2>1a, <2>2, <2>3, <2>4, <2>5 DEF CD!Read
<1>2. ASSUME NEW r \in Request, CD!Write(r) PROVE CD!TypeOK'
  <2>1. ASSUME NEW values \in CD!Hash, CD!Set(r, values) PROVE CD!TypeOK'
    BY <2>1 DEF CD!Set, CD!Goto, CD!TypeOK
  <2>2. ASSUME NEW f \in Field, CD!SetInCache(r, f) PROVE CD!TypeOK'
    BY ZenonT(60), <2>2 DEF CD!SetInCache, CD!Hset, CD!Goto, CD!WriteStep, CD!TypeOK
  <2>3. CASE CD!Disable(r)
    <3>1. [CD!Nothing EXCEPT ![StateField] = Disabled] \in CD!Hash
      OBVIOUS
    <3>2. hash' \in CD!Hash /\ params' \in [Request -> CD!Hash] /\ sent' \in [Request -> SUBSET Field]
      BY <2>3, <3>1 DEF CD!Disable, CD!Hset, CD!TypeOK
    <3> QED
      BY <2>3, <3>2 DEF CD!Disable, CD!Hset, CD!Goto, CD!WriteStep, CD!TypeOK
  <2>4. CASE CD!WriteInTable(r)
    <3>1. row' \in CD!Row \cup {NoRow}
      <4>1. params[r] \in CD!Hash /\ row' = CD!Updated(params[r])
        BY <2>4 DEF CD!WriteInTable, CD!TypeOK
      <4>2. ASSUME row # NoRow
            PROVE  [f \in Field |-> IF params[r][f] = Missing THEN row[f] ELSE params[r][f]] \in CD!Row
        BY <4>1, <4>2 DEF CD!TypeOK
      <4> QED
        BY <4>1, <4>2 DEF CD!Updated
    <3> QED
      BY <2>4, <3>1 DEF CD!WriteInTable, CD!Finish, CD!Goto, CD!WriteStep, CD!TypeOK
  <2>5. ASSUME NEW entity \in CD!Row, CD!Update(r, entity) PROVE CD!TypeOK'
    BY <2>5 DEF CD!Update, CD!Hmset, CD!Goto, CD!WriteStep, CD!TypeOK
  <2>6. ASSUME NEW entity \in CD!Row, CD!Save(r, entity) PROVE CD!TypeOK'
    BY <2>6 DEF CD!Save, CD!Goto, CD!WriteStep, CD!TypeOK
  <2>7. CASE CD!SaveInCache(r)
    BY <2>7 DEF CD!SaveInCache, CD!Hmset, CD!Finish, CD!Goto, CD!WriteStep, CD!TypeOK
  <2>8. CASE CD!Delete(r)
    BY <2>8 DEF CD!Delete, CD!Del, CD!Goto, CD!WriteStep, CD!TypeOK
  <2>9. CASE CD!DeleteInTable(r)
    BY <2>9 DEF CD!DeleteInTable, CD!Finish, CD!Goto, CD!WriteStep, CD!TypeOK
  <2>10. ASSUME NEW entity \in CD!Row, CD!SaveUncommitted(r, entity) PROVE CD!TypeOK'
    BY <2>10 DEF CD!SaveUncommitted, CD!Hmset, CD!Goto, CD!WriteStep, CD!TypeOK
  <2>11. CASE CD!Commit(r)
    <3>1. params[r] \in CD!Row
      BY <2>11 DEF CD!Commit, CD!LocalsInv, CD!LocalOK
    <3> QED
      BY <2>11, <3>1 DEF CD!Commit, CD!Finish, CD!Goto, CD!WriteStep, CD!TypeOK
  <2> QED
    BY <1>2, <2>1, <2>2, <2>3, <2>4, <2>5, <2>6, <2>7, <2>8, <2>9, <2>10, <2>11 DEF CD!Write
<1>3. ASSUME NEW r \in Request, NEW entity \in CD!Row, CD!EditUncached(r, entity) PROVE CD!TypeOK'
  BY <1>3 DEF CD!EditUncached, CD!WriteStep, CD!TypeOK
<1>4. ASSUME NEW r \in Request, CD!CallThrows(r) PROVE CD!TypeOK'
  BY <1>4 DEF CD!CallThrows, CD!Finish, CD!Goto, CD!TypeOK
<1>5. CASE UNCHANGED CD!vars
  BY <1>5 DEF CD!vars, CD!TypeOK
<1> QED
  BY <1>1, <1>2, <1>3, <1>4, <1>5 DEF CD!Next

(* A step of r leaves the locals of the other requests alone, and the row  *)
(* too when one of them has just inserted it and no write has crossed.     *)
Frame(r) ==
    /\ \A s \in Request \ {r} : pc'[s] = pc[s] /\ params'[s] = params[s] /\ sent'[s] = sent[s]
    /\ causes \subseteq causes'
    /\ row' = row \/ (causes' = {} => \A s \in Request \ {r} : ~ CD!Writer(s))

(* The locals of the other requests fit their steps as before.             *)
LEMMA LocalFrame ==
  ASSUME CD!Constants, CD!LocalsInv, NEW r \in Request, Frame(r), CD!LocalOK(r)'
  PROVE  CD!LocalsInv'
<1> SUFFICES ASSUME NEW s \in Request, s # r PROVE CD!LocalOK(s)'
  BY DEF CD!LocalsInv
<1>1. CD!LocalOK(s)
  BY DEF CD!LocalsInv
<1>2. pc'[s] = pc[s] /\ params'[s] = params[s] /\ sent'[s] = sent[s]
  BY DEF Frame
<1>3. pc'[s] = "cache" /\ causes' = {} => row' = row /\ causes = {}
  BY <1>2 DEF Frame, CD!Writer
<1> QED
  BY <1>1, <1>2, <1>3 DEF CD!LocalOK, CD!Writing

(* The frame of every action.                                              *)
LEMMA StepFrame ==
  ASSUME CD!Constants, CD!TypeOK, NEW r \in Request,
         CD!Read(r) \/ CD!Write(r) \/ (\E entity \in CD!Row : CD!EditUncached(r,
         entity)) \/ CD!CallThrows(r)
  PROVE  Frame(r)
<1> USE DEF CD!TypeOK, Frame, CD!Goto, CD!Finish
<1>1. CASE CD!Read(r)
  BY <1>1 DEF CD!Read, CD!FindById, CD!CacheUnread, CD!FindInTable, CD!Fill, CD!FindFieldByKey, CD!SelectOne
<1>2. CASE CD!Write(r)
  <2>1. \A s \in Request \ {r} : pc'[s] = pc[s] /\ params'[s] = params[s] /\ sent'[s] = sent[s]
    BY <1>2 DEF CD!Write, CD!Set, CD!SetInCache, CD!Disable, CD!WriteInTable, CD!Update,
       CD!Save, CD!SaveInCache, CD!SaveUncommitted, CD!Commit,
       CD!Delete, CD!DeleteInTable
  <2>2. (\E more : CD!WriteStep(r, more)) \/ (row' = row /\ causes' = causes)
    BY <1>2 DEF CD!Write, CD!Set, CD!SetInCache, CD!Disable, CD!WriteInTable, CD!Update,
       CD!Save, CD!SaveInCache, CD!SaveUncommitted, CD!Commit,
       CD!Delete, CD!DeleteInTable
  <2> QED
    BY <2>1, <2>2 DEF CD!WriteStep
<1>3. CASE \E entity \in CD!Row : CD!EditUncached(r, entity)
  BY <1>3 DEF CD!EditUncached, CD!WriteStep
<1>4. CASE CD!CallThrows(r)
  BY <1>4 DEF CD!CallThrows
<1> QED
  BY <1>1, <1>2, <1>3, <1>4

(* Every step keeps what is said of the local variables.                   *)
LEMMA LocalsStep ==
  ASSUME CD!Constants, CD!TypeOK, CD!LocalsInv, [CD!Next]_(CD!vars)
  PROVE  CD!LocalsInv'
<1> USE DEF CD!Constants, CD!Goto
<1> HIDE DEF CD!Row, CD!Hash, CD!Place, CD!Cause, CD!Nothing
<1>0. \A r \in Request : CD!LocalOK(r)
  BY DEF CD!LocalsInv
<1>1. ASSUME NEW r \in Request, CD!Read(r) PROVE CD!LocalOK(r)'
  <2>1. CASE CD!FindById(r)
    BY <1>0, <2>1 DEF CD!FindById, CD!LocalOK, CD!Writing, CD!TypeOK
  <2>1a. CASE CD!CacheUnread(r)
    BY <1>0, <2>1a DEF CD!CacheUnread, CD!LocalOK, CD!Writing, CD!TypeOK
  <2>2. CASE CD!FindInTable(r)
    <3>1. CASE row = NoRow
      BY <1>0, <2>2, <3>1 DEF CD!FindInTable, CD!LocalOK, CD!Writing, CD!TypeOK
    <3>2. CASE row # NoRow
      <4>1. row \in CD!Row
        BY <3>2 DEF CD!TypeOK
      <4>2. pc'[r] = "fill" /\ params'[r] = row /\ sent'[r] = sent[r] /\ pc[r] = "miss"
        BY <2>2, <3>2 DEF CD!FindInTable, CD!TypeOK
      <4> QED
        BY <1>0, <4>1, <4>2 DEF CD!LocalOK, CD!Writing
    <3> QED
      BY <3>1, <3>2
  <2>3. CASE CD!Fill(r)
    BY <2>3 DEF CD!Fill, CD!Finish, CD!LocalOK, CD!TypeOK
  <2>4. ASSUME NEW f \in Field, CD!FindFieldByKey(r, f) PROVE CD!LocalOK(r)'
    BY <1>0, <2>4 DEF CD!FindFieldByKey, CD!LocalOK, CD!Writing, CD!TypeOK
  <2>5. ASSUME NEW f \in Field, NEW g \in Field, CD!SelectOne(r, f, g) PROVE CD!LocalOK(r)'
    BY <1>0, <2>5 DEF CD!SelectOne, CD!LocalOK, CD!Writing, CD!TypeOK
  <2> QED
    BY <1>1, <2>1, <2>1a, <2>2, <2>3, <2>4, <2>5 DEF CD!Read
<1>2. ASSUME NEW r \in Request, CD!Write(r) PROVE CD!LocalOK(r)'
  <2>1. ASSUME NEW values \in CD!Hash, CD!Set(r, values) PROVE CD!LocalOK(r)'
    BY <1>0, <2>1 DEF CD!Set, CD!LocalOK, CD!Writing, CD!TypeOK
  <2>2. ASSUME NEW f \in Field, CD!SetInCache(r, f) PROVE CD!LocalOK(r)'
    <3>1. /\ sent'[r] = sent[r] \cup {f} /\ params'[r] = params[r] /\ params[r][f] # Missing
          /\ pc'[r] = IF \A g \in Field : params[r][g] # Missing => g \in sent[r] \cup {f}
                      THEN "write" ELSE "set"
      BY <2>2 DEF CD!SetInCache, CD!TypeOK
    <3>2. sent[r] \subseteq Field
      BY DEF CD!TypeOK
    <3> QED
      BY <1>0, <3>1, <3>2 DEF CD!LocalOK, CD!Writing
  <2>3. CASE CD!Disable(r)
    <3>1. /\ pc'[r] = "disable" /\ sent'[r] = {StateField}
          /\ params'[r] = [CD!Nothing EXCEPT ![StateField] = Disabled]
      BY <2>3 DEF CD!Disable, CD!TypeOK
    <3>2. /\ params'[r][StateField] = Disabled
          /\ \A f \in Field : params'[r][f] # Missing => f = StateField
      BY <3>1 DEF CD!Nothing
    <3> QED
      BY <3>1, <3>2 DEF CD!LocalOK, CD!Writing
  <2>4. CASE CD!WriteInTable(r)
    BY ZenonT(60), <1>0, <2>4 DEF CD!WriteInTable, CD!Finish, CD!LocalOK, CD!Writing, CD!TypeOK
  <2>5. ASSUME NEW entity \in CD!Row, CD!Update(r, entity) PROVE CD!LocalOK(r)'
    <3>1. pc'[r] = "write" /\ params'[r] = entity /\ sent'[r] = Field
      BY <2>5 DEF CD!Update, CD!TypeOK
    <3> QED
      BY <3>1, RowIsComplete DEF CD!LocalOK, CD!Writing
  <2>6. ASSUME NEW entity \in CD!Row, CD!Save(r, entity) PROVE CD!LocalOK(r)'
    <3>1. pc[r] = "idle" /\ pc'[r] = "cache" /\ params'[r] = entity /\ sent'[r] = sent[r] /\ row' = entity
      BY <2>6 DEF CD!Save, CD!TypeOK
    <3> QED
      BY <1>0, <3>1 DEF CD!LocalOK, CD!Writing
  <2>7. CASE CD!SaveInCache(r)
    BY <1>0, <2>7 DEF CD!SaveInCache, CD!Finish, CD!LocalOK, CD!Writing, CD!TypeOK
  <2>8. CASE CD!Delete(r)
    BY <1>0, <2>8 DEF CD!Delete, CD!LocalOK, CD!Writing, CD!TypeOK
  <2>9. CASE CD!DeleteInTable(r)
    BY <1>0, <2>9 DEF CD!DeleteInTable, CD!Finish, CD!LocalOK, CD!Writing, CD!TypeOK
  <2>10. ASSUME NEW entity \in CD!Row, CD!SaveUncommitted(r, entity) PROVE CD!LocalOK(r)'
    <3>1. pc'[r] = "commit" /\ params'[r] = entity /\ sent'[r] = Field
      BY <2>10 DEF CD!SaveUncommitted, CD!TypeOK
    <3> QED
      BY <3>1, RowIsComplete DEF CD!LocalOK, CD!Writing
  <2>11. CASE CD!Commit(r)
    BY <2>11 DEF CD!Commit, CD!Finish, CD!LocalOK, CD!TypeOK
  <2> QED
    BY <1>2, <2>1, <2>2, <2>3, <2>4, <2>5, <2>6, <2>7, <2>8, <2>9, <2>10, <2>11 DEF CD!Write
<1>3. ASSUME NEW r \in Request, NEW entity \in CD!Row, CD!EditUncached(r, entity) PROVE CD!LocalOK(r)'
  BY <1>0, <1>3 DEF CD!EditUncached, CD!WriteStep, CD!LocalOK, CD!Writing
<1>4. ASSUME NEW r \in Request, CD!CallThrows(r) PROVE CD!LocalOK(r)'
  BY <1>4 DEF CD!CallThrows, CD!Finish, CD!LocalOK, CD!TypeOK
<1>5. CASE UNCHANGED CD!vars
  BY <1>0, <1>5 DEF CD!vars, CD!LocalsInv, CD!LocalOK, CD!Writing
<1>6. CASE CD!Next
  BY <1>1, <1>2, <1>3, <1>4, <1>6, StepFrame, LocalFrame DEF CD!Next
<1> QED
  BY <1>5, <1>6

(* A hash with the feature field stays complete.                           *)
LEMMA MarkedStep ==
  ASSUME CD!Constants, CD!TypeOK, CD!LocalsInv, CD!MarkedIsComplete, [CD!Next]_(CD!vars)
  PROVE  CD!MarkedIsComplete'
<1> USE DEF CD!MarkedIsComplete
<1>1. ASSUME NEW r \in Request, CD!Fill(r) \/ CD!SaveInCache(r) PROVE CD!MarkedIsComplete'
  <2>1. params[r] \in CD!Row
    BY <1>1 DEF CD!Fill, CD!SaveInCache, CD!LocalsInv, CD!LocalOK
  <2>2. hash' = params[r]
    BY <1>1 DEF CD!Fill, CD!SaveInCache, CD!Hmset
  <2> QED
    BY <2>1, <2>2, RowIsComplete
<1>2. ASSUME NEW r \in Request, NEW entity \in CD!Row, CD!Update(r, entity) PROVE CD!MarkedIsComplete'
  BY <1>2, RowIsComplete DEF CD!Update, CD!Hmset
<1>2a. ASSUME NEW r \in Request, NEW entity \in CD!Row, CD!SaveUncommitted(r, entity)
       PROVE  CD!MarkedIsComplete'
  BY <1>2a, RowIsComplete DEF CD!SaveUncommitted, CD!Hmset
<1>3. ASSUME NEW r \in Request, NEW f \in Field, CD!SetInCache(r, f) PROVE CD!MarkedIsComplete'
  BY <1>3 DEF CD!SetInCache, CD!Hset, CD!TypeOK
<1>4. ASSUME NEW r \in Request, CD!Disable(r) PROVE CD!MarkedIsComplete'
  BY <1>4 DEF CD!Constants, CD!Disable, CD!Hset, CD!TypeOK
<1>5. ASSUME NEW r \in Request, CD!Delete(r) PROVE CD!MarkedIsComplete'
  BY <1>5 DEF CD!Delete, CD!Del
<1>6. ASSUME UNCHANGED <<hash, hmFeature>> PROVE CD!MarkedIsComplete'
  BY <1>6
<1> QED
  BY <1>1, <1>2, <1>2a, <1>3, <1>4, <1>5, <1>6
  DEF CD!Next, CD!Read, CD!Write, CD!FindById, CD!CacheUnread, CD!FindInTable, CD!FindFieldByKey,
      CD!SelectOne, CD!Set, CD!WriteInTable,
      CD!Save, CD!Commit, CD!DeleteInTable, CD!EditUncached, CD!CallThrows, CD!vars

(* A fill that no write has overtaken holds the row.                       *)
LEMMA FillStep ==
  ASSUME CD!Constants, CD!TypeOK, CD!LocalsInv, CD!FillHoldsRow, [CD!Next]_(CD!vars)
  PROVE  CD!FillHoldsRow'
<1> USE DEF CD!FillHoldsRow, CD!TypeOK
<1>1. ASSUME NEW r \in Request, NEW more, CD!WriteStep(r, more), pc'[r] # "fill",
             \A s \in Request \ {r} : pc'[s] = pc[s]
      PROVE  CD!FillHoldsRow'
  BY <1>1 DEF CD!WriteStep
<1>2. ASSUME NEW r \in Request, CD!Write(r) PROVE CD!FillHoldsRow'
  <2>1. ASSUME NEW values \in CD!Hash, CD!Set(r, values) PROVE CD!FillHoldsRow'
    BY <2>1 DEF CD!Set, CD!Goto
  <2>2. CASE ~ \E values \in CD!Hash : CD!Set(r, values)
    <3>1. \E more : CD!WriteStep(r, more)
      BY <1>2, <2>2 DEF CD!Write, CD!SetInCache, CD!Disable, CD!WriteInTable, CD!Update,
         CD!Save, CD!SaveInCache, CD!SaveUncommitted, CD!Commit,
         CD!Delete, CD!DeleteInTable
    <3>2. pc'[r] # "fill" /\ \A s \in Request \ {r} : pc'[s] = pc[s]
      BY <1>2, <2>2 DEF CD!Write, CD!SetInCache, CD!Disable, CD!WriteInTable, CD!Update,
         CD!Save, CD!SaveInCache, CD!SaveUncommitted, CD!Commit,
         CD!Delete, CD!DeleteInTable, CD!Goto, CD!Finish
    <3> QED
      BY <1>1, <3>1, <3>2
  <2> QED
    BY <2>1, <2>2
<1>3. ASSUME NEW r \in Request, NEW entity \in CD!Row, CD!EditUncached(r, entity) PROVE CD!FillHoldsRow'
  <2>1. CD!WriteStep(r, {"bypass"}) /\ pc' = pc /\ pc[r] = "idle"
    BY <1>3 DEF CD!EditUncached
  <2> QED
    BY <1>1, <2>1
<1>4. ASSUME NEW r \in Request, CD!FindInTable(r) PROVE CD!FillHoldsRow'
  <2>1. CASE row = NoRow
    BY <1>4, <2>1 DEF CD!FindInTable, CD!Goto
  <2>2. CASE row # NoRow
    <3>1. /\ params'[r] = row /\ row' = row /\ overtaken' = overtaken
          /\ \A s \in Request \ {r} : pc'[s] = pc[s] /\ params'[s] = params[s]
      BY <1>4, <2>2 DEF CD!FindInTable, CD!Goto
    <3> QED
      BY <2>2, <3>1
  <2> QED
    BY <2>1, <2>2
<1>5. ASSUME NEW r \in Request, CD!Fill(r) \/ CD!CallThrows(r) PROVE CD!FillHoldsRow'
  BY <1>5 DEF CD!Fill, CD!CallThrows, CD!Finish, CD!Goto
<1>6. ASSUME NEW r \in Request, CD!FindById(r) \/ CD!CacheUnread(r) PROVE CD!FillHoldsRow'
  BY <1>6 DEF CD!FindById, CD!CacheUnread, CD!Goto
<1>7. ASSUME UNCHANGED <<row, pc, params, overtaken>> PROVE CD!FillHoldsRow'
  BY <1>7
<1> QED
  BY <1>2, <1>3, <1>4, <1>5, <1>6, <1>7 DEF CD!Next, CD!Read, CD!FindFieldByKey,
     CD!SelectOne, CD!vars

(* A step of a write that crosses no other write was taken with no other   *)
(* write in progress and nothing in the history.                           *)
LEMMA Uncrossed ==
  ASSUME CD!Constants, NEW r \in Request, NEW more, CD!WriteStep(r, more), causes' = {}
  PROVE  causes = {} /\ more = {} /\ \A s \in Request \ {r} : ~ CD!Writer(s)
  BY DEF CD!WriteStep

(* One write at a time.                                                    *)
LEMMA OneWriterStep ==
  ASSUME CD!Constants, CD!TypeOK, CD!LocalsInv, CD!OneWriter, [CD!Next]_(CD!vars)
  PROVE  CD!OneWriter'
<1> SUFFICES ASSUME causes' = {} PROVE \A r, s \in Request : CD!Writer(r)' /\ CD!Writer(s)' => r = s
  BY DEF CD!OneWriter
<1> HIDE DEF CD!Row, CD!Hash, CD!Place, CD!Cause, CD!Nothing
<1>1. ASSUME NEW q \in Request, Frame(q), causes = {},
             CD!Writer(q)' => CD!Writer(q) \/ \A s \in Request \ {q} : ~ CD!Writer(s)
      PROVE  \A r, s \in Request : CD!Writer(r)' /\ CD!Writer(s)' => r = s
  <2>1. \A s \in Request \ {q} : CD!Writer(s)' <=> CD!Writer(s)
    BY <1>1 DEF Frame, CD!Writer, CD!Writing
  <2> QED
    BY <1>1, <2>1 DEF CD!OneWriter
<1>2. ASSUME NEW q \in Request, CD!Write(q) PROVE CD!Writer(q)' => \A s \in Request \ {q} : ~ CD!Writer(s)
  <2>1. ASSUME NEW values \in CD!Hash, CD!Set(q, values) PROVE ~ CD!Writer(q)'
    <3>1. pc'[q] = "set" /\ sent'[q] = sent[q] /\ pc[q] = "idle"
      BY <2>1 DEF CD!Set, CD!Goto, CD!TypeOK
    <3>2. sent[q] = {}
      BY <3>1 DEF CD!LocalsInv, CD!LocalOK, CD!Writing
    <3> QED
      BY <3>1, <3>2 DEF CD!Writer, CD!Writing
  <2>2. CASE ~ \E values \in CD!Hash : CD!Set(q, values)
    <3>1. \E more : CD!WriteStep(q, more)
      BY <1>2, <2>2 DEF CD!Write, CD!SetInCache, CD!Disable, CD!WriteInTable, CD!Update,
         CD!Save, CD!SaveInCache, CD!SaveUncommitted, CD!Commit,
         CD!Delete, CD!DeleteInTable
    <3> QED
      BY <3>1, Uncrossed
  <2> QED
    BY <2>1, <2>2
<1>3. ASSUME NEW q \in Request, CD!Read(q) \/ CD!CallThrows(q) PROVE CD!Writer(q)' => CD!Writer(q)
  BY <1>3 DEF CD!Read, CD!FindById, CD!CacheUnread, CD!FindInTable, CD!Fill, CD!FindFieldByKey, CD!SelectOne,
     CD!CallThrows, CD!Finish,
     CD!Goto, CD!Writer, CD!Writing, CD!TypeOK
<1>4. ASSUME NEW q \in Request, NEW entity \in CD!Row, CD!EditUncached(q, entity) PROVE FALSE
  BY <1>4 DEF CD!EditUncached, CD!WriteStep
<1>5. CASE UNCHANGED CD!vars
  BY <1>5 DEF CD!vars, CD!OneWriter, CD!Writer, CD!Writing
<1>6. CASE CD!Next
  <2>1. PICK q \in Request : CD!Read(q) \/ CD!Write(q) \/ CD!CallThrows(q)
    BY <1>4, <1>6 DEF CD!Next
  <2>2. Frame(q) /\ causes = {}
    BY <2>1, StepFrame DEF Frame
  <2> QED
    BY <1>1, <1>2, <1>3, <2>1, <2>2
<1> QED
  BY <1>5, <1>6

(* What a write in progress has put in the hash stays there.               *)
LEMMA WriteInCacheStep ==
  ASSUME CD!Constants, CD!TypeOK, CD!LocalsInv, CD!WriteInCache, [CD!Next]_(CD!vars)
  PROVE  CD!WriteInCache'
<1> SUFFICES ASSUME causes' = {} PROVE CD!WriteInCache'
  BY DEF CD!WriteInCache
<1> HIDE DEF CD!Row, CD!Hash, CD!Place, CD!Cause
<1>0. \A r \in Request : sent[r] # {} => CD!Writing(r)
  BY DEF CD!LocalsInv, CD!LocalOK
<1>1. ASSUME NEW q \in Request, Frame(q), causes = {}, hash' = hash,
             sent'[q] = {}, pc'[q] # "delete"
      PROVE  CD!WriteInCache'
  BY <1>1 DEF CD!WriteInCache, Frame
<1>2. ASSUME NEW q \in Request, Frame(q), \A s \in Request \ {q} : ~ CD!Writing(s),
             \A f \in sent'[q] : hash'[f] = params'[q][f], pc'[q] = "delete" => hash' = CD!Nothing
      PROVE  CD!WriteInCache'
  <2>1. \A s \in Request \ {q} : sent'[s] = {} /\ pc'[s] # "delete"
    BY <1>0, <1>2 DEF Frame, CD!Writing
  <2> QED
    BY <1>2, <2>1 DEF CD!WriteInCache
<1>3. ASSUME NEW q \in Request, CD!Read(q) PROVE CD!WriteInCache'
  <2>1. Frame(q) /\ causes = {}
    BY <1>3, StepFrame DEF Frame
  <2>2. CASE CD!Fill(q)
    <3>1. \A s \in Request : ~ CD!Writing(s)
      BY <2>2 DEF CD!Fill
    <3>2. sent'[q] = {} /\ pc'[q] = "idle"
      BY <2>2 DEF CD!Fill, CD!Finish, CD!Goto, CD!TypeOK
    <3> QED
      BY <1>2, <2>1, <3>1, <3>2
  <2>3. CASE ~ CD!Fill(q)
    <3>1. hash' = hash /\ sent'[q] = sent[q] /\ pc[q] \in {"idle", "miss"} /\ pc'[q] # "delete"
      BY <1>3, <2>3 DEF CD!Read, CD!FindById, CD!CacheUnread, CD!FindInTable, CD!FindFieldByKey,
         CD!SelectOne, CD!Goto, CD!TypeOK
    <3> QED
      BY <1>0, <1>1, <2>1, <3>1 DEF CD!Writing
  <2> QED
    BY <2>2, <2>3
<1>4. ASSUME NEW q \in Request, CD!Write(q) PROVE CD!WriteInCache'
  <2>1. Frame(q) /\ causes = {}
    BY <1>4, StepFrame DEF Frame
  <2>2. CASE \E values \in CD!Hash : CD!Set(q, values)
    <3>1. hash' = hash /\ sent'[q] = sent[q] /\ pc[q] = "idle" /\ pc'[q] = "set"
      BY <2>2 DEF CD!Set, CD!Goto, CD!TypeOK
    <3> QED
      BY <1>0, <1>1, <2>1, <3>1 DEF CD!Writing
  <2>3. CASE CD!WriteInTable(q) \/ CD!DeleteInTable(q) \/ CD!Commit(q)
    <3>1. hash' = hash /\ sent'[q] = {} /\ pc'[q] = "idle"
      BY <2>3 DEF CD!WriteInTable, CD!DeleteInTable, CD!Commit, CD!Finish, CD!Goto, CD!TypeOK
    <3> QED
      BY <1>1, <2>1, <3>1
  <2>4. CASE \E entity \in CD!Row : CD!Save(q, entity)
    <3>1. hash' = hash /\ sent'[q] = sent[q] /\ pc[q] = "idle" /\ pc'[q] = "cache"
      BY <2>4 DEF CD!Save, CD!Goto, CD!TypeOK
    <3> QED
      BY <1>0, <1>1, <2>1, <3>1 DEF CD!Writing
  <2>5. CASE CD!SaveInCache(q)
    <3>1. sent'[q] = {} /\ pc'[q] = "idle"
      BY <2>5 DEF CD!SaveInCache, CD!Finish, CD!Goto, CD!TypeOK
    <3>2. \A s \in Request \ {q} : ~ CD!Writing(s)
      BY <2>5, Uncrossed DEF CD!SaveInCache, CD!Writer
    <3> QED
      BY <1>2, <2>1, <3>1, <3>2
  <2>6. ASSUME NEW f \in Field, CD!SetInCache(q, f) PROVE CD!WriteInCache'
    <3>1. /\ hash' = [hash EXCEPT ![f] = params[q][f]] /\ params' = params
          /\ sent'[q] = sent[q] \cup {f} /\ pc'[q] \in {"set", "write"}
      BY <2>6 DEF CD!SetInCache, CD!Hset, CD!Goto, CD!TypeOK
    <3>2. \A s \in Request \ {q} : ~ CD!Writing(s)
      BY <2>6, Uncrossed DEF CD!SetInCache, CD!Writer
    <3>3. \A g \in sent'[q] : hash'[g] = params'[q][g]
      BY <2>1, <3>1 DEF CD!WriteInCache, CD!TypeOK, CD!Hash
    <3> QED
      BY <1>2, <2>1, <3>1, <3>2, <3>3
  <2>7. CASE CD!Disable(q)
    <3>1. /\ hash' = [hash EXCEPT ![StateField] = Disabled]
          /\ params'[q] = [CD!Nothing EXCEPT ![StateField] = Disabled]
          /\ sent'[q] = {StateField} /\ pc'[q] = "disable"
      BY <2>7 DEF CD!Disable, CD!Hset, CD!Goto, CD!TypeOK
    <3>2. \A s \in Request \ {q} : ~ CD!Writing(s)
      BY <2>7, Uncrossed DEF CD!Disable, CD!Writer
    <3>3. \A g \in sent'[q] : hash'[g] = params'[q][g]
      BY <3>1 DEF CD!Constants, CD!TypeOK, CD!Hash
    <3> QED
      BY <1>2, <2>1, <3>1, <3>2, <3>3
  <2>8. ASSUME NEW entity \in CD!Row, CD!Update(q, entity) PROVE CD!WriteInCache'
    <3>1. hash' = entity /\ params'[q] = entity /\ pc'[q] = "write"
      BY <2>8 DEF CD!Update, CD!Hmset, CD!Goto, CD!TypeOK
    <3>2. \A s \in Request \ {q} : ~ CD!Writing(s)
      BY <2>8, Uncrossed DEF CD!Update, CD!Writer
    <3> QED
      BY <1>2, <2>1, <3>1, <3>2
  <2>10. ASSUME NEW entity \in CD!Row, CD!SaveUncommitted(q, entity) PROVE CD!WriteInCache'
    <3>1. hash' = entity /\ params'[q] = entity /\ pc'[q] = "commit"
      BY <2>10 DEF CD!SaveUncommitted, CD!Hmset, CD!Goto, CD!TypeOK
    <3>2. \A s \in Request \ {q} : ~ CD!Writing(s)
      BY <2>10, Uncrossed DEF CD!SaveUncommitted, CD!Writer
    <3> QED
      BY <1>2, <2>1, <3>1, <3>2
  <2>9. CASE CD!Delete(q)
    <3>1. hash' = CD!Nothing /\ sent'[q] = sent[q] /\ pc[q] = "idle"
      BY <2>9 DEF CD!Delete, CD!Del, CD!TypeOK
    <3>2. \A s \in Request \ {q} : ~ CD!Writing(s)
      BY <2>9, Uncrossed DEF CD!Delete, CD!Writer
    <3>3. sent[q] = {}
      BY <1>0, <3>1 DEF CD!Writing
    <3> QED
      BY <1>2, <2>1, <3>1, <3>2, <3>3
  <2> QED
    BY <1>4, <2>2, <2>3, <2>4, <2>5, <2>6, <2>7, <2>8, <2>9, <2>10 DEF CD!Write
<1>5. ASSUME NEW q \in Request, NEW entity \in CD!Row, CD!EditUncached(q, entity) PROVE FALSE
  BY <1>5 DEF CD!EditUncached, CD!WriteStep
<1>6. ASSUME NEW q \in Request, CD!CallThrows(q) PROVE CD!WriteInCache'
  <2>1. Frame(q) /\ causes = {}
    BY <1>6, StepFrame DEF Frame
  <2>2. hash' = hash /\ sent'[q] = {} /\ pc'[q] = "idle"
    BY <1>6 DEF CD!CallThrows, CD!Finish, CD!Goto, CD!TypeOK
  <2> QED
    BY <1>1, <2>1, <2>2
<1>7. CASE UNCHANGED CD!vars
  BY <1>7 DEF CD!vars, CD!WriteInCache
<1> QED
  BY <1>3, <1>4, <1>5, <1>6, <1>7 DEF CD!Next

(* Cache and table stay in agreement as long as nothing is recorded.       *)
LEMMA CoherentStep ==
  ASSUME CD!Constants, CD!IInv, [CD!Next]_(CD!vars)
  PROVE  CD!CoherentUnless'
<1> SUFFICES ASSUME causes' = {} PROVE CD!Agree'
  BY DEF CD!CoherentUnless
<1> USE DEF CD!IInv
<1> HIDE DEF CD!Row, CD!Hash, CD!Place, CD!Cause
<1>1. \A r \in Request : sent[r] # {} => CD!Writing(r)
  BY DEF CD!LocalsInv, CD!LocalOK
<1>2. row \in CD!Row => row # NoRow
  BY DEF CD!Constants, CD!Row
(* Steps that leave row and hash alone and do not end a write.             *)
<1>3. ASSUME NEW q \in Request, Frame(q), causes = {}, row' = row, hash' = hash, sent[q] = {}
      PROVE  CD!Agree'
  <2> SUFFICES ASSUME NEW f \in Field, hash[f] # Missing PROVE CD!FieldAgrees(f)'
    BY <1>3 DEF CD!Agree
  <2>1. CD!FieldAgrees(f)
    BY <1>3 DEF CD!CoherentUnless, CD!Agree
  <2>2. CASE row # NoRow /\ hash[f] = row[f]
    BY <1>3, <2>2 DEF CD!FieldAgrees
  <2>3. CASE \E r \in Request : CD!Writing(r) /\ f \in sent[r] /\ hash[f] = params[r][f]
    <3>1. PICK r \in Request : CD!Writing(r) /\ f \in sent[r] /\ hash[f] = params[r][f]
      BY <2>3
    <3>2. r # q /\ CD!Writing(r)'
      BY <1>3, <3>1 DEF Frame, CD!Writing
    <3> QED
      BY <1>3, <3>1, <3>2 DEF CD!FieldAgrees, Frame
  <2> QED
    BY <2>1, <2>2, <2>3 DEF CD!FieldAgrees
(* With no write in progress every field that is there is the row's.       *)
<1>4. ASSUME causes = {}, \A s \in Request : ~ CD!Writing(s), NEW f \in Field, hash[f] # Missing
      PROVE  row # NoRow /\ hash[f] = row[f]
  BY <1>4 DEF CD!CoherentUnless, CD!Agree, CD!FieldAgrees
<1>5. ASSUME NEW q \in Request, CD!Read(q) PROVE CD!Agree'
  <2>1. Frame(q) /\ causes = {}
    BY <1>5, StepFrame DEF Frame
  <2>2. CASE CD!Fill(q)
    <3>1. q \notin overtaken /\ hash' = params[q] /\ row' = row /\ pc[q] = "fill"
      BY <2>2 DEF CD!Fill, CD!Hmset
    <3>2. row # NoRow /\ params[q] = row
      BY <3>1 DEF CD!FillHoldsRow
    <3> QED
      BY <3>1, <3>2 DEF CD!Agree, CD!FieldAgrees
  <2>3. CASE ~ CD!Fill(q)
    <3>1. row' = row /\ hash' = hash /\ pc[q] \in {"idle", "miss"}
      BY <1>5, <2>3 DEF CD!Read, CD!FindById, CD!CacheUnread, CD!FindInTable, CD!FindFieldByKey, CD!SelectOne
    <3> QED
      BY <1>1, <1>3, <2>1, <3>1 DEF CD!Writing
  <2> QED
    BY <2>2, <2>3
<1>6. ASSUME NEW q \in Request, CD!Write(q) PROVE CD!Agree'
  <2>1. Frame(q) /\ causes = {}
    BY <1>6, StepFrame DEF Frame
  <2>2. CASE \E values \in CD!Hash : CD!Set(q, values)
    BY <1>1, <1>3, <2>1, <2>2 DEF CD!Set, CD!Writing
  <2>3. CASE CD!WriteInTable(q)
    <3>1. /\ row # NoRow /\ hash' = hash /\ row' = CD!Updated(params[q]) /\ pc[q] \in {"write", "disable"}
          /\ \A s \in Request \ {q} : ~ CD!Writer(s)
      BY <2>3, Uncrossed DEF CD!WriteInTable
    <3>2. row \in CD!Row
      BY <3>1 DEF CD!TypeOK
    <3>3. row' = [f \in Field |-> IF params[q][f] = Missing THEN row[f] ELSE params[q][f]]
      BY <3>1 DEF CD!Updated
    <3>4. row' # NoRow
      <4>1. row' \in CD!Row
        BY <3>2, <3>3 DEF CD!TypeOK, CD!Row, CD!Hash
      <4> QED
        BY <4>1 DEF CD!Constants, CD!Row
    <3>5. ASSUME NEW f \in Field, hash[f] # Missing PROVE hash[f] = row'[f]
      <4>1. CD!FieldAgrees(f)
        BY <2>1, <3>5 DEF CD!CoherentUnless, CD!Agree
      <4>2. CASE f \in sent[q]
        <5>1. hash[f] = params[q][f]
          BY <2>1, <4>2 DEF CD!WriteInCache
        <5> QED
          BY <3>3, <3>5, <5>1
      <4>3. CASE f \notin sent[q]
        <5>1. params[q][f] = Missing
          BY <3>1, <4>3 DEF CD!LocalsInv, CD!LocalOK
        <5>2. \A r \in Request : f \in sent[r] => r = q
          BY <1>1, <3>1 DEF CD!Writer
        <5>3. hash[f] = row[f]
          BY <4>1, <4>3, <5>2 DEF CD!FieldAgrees
        <5> QED
          BY <3>3, <5>1, <5>3
      <4> QED
        BY <4>2, <4>3
    <3> QED
      BY <3>1, <3>4, <3>5 DEF CD!Agree, CD!FieldAgrees
  <2>4. ASSUME NEW entity \in CD!Row, CD!Save(q, entity) PROVE CD!Agree'
    <3>1. row = NoRow /\ hash' = hash /\ \A s \in Request : ~ CD!Writing(s)
      BY <2>4, Uncrossed, <1>1 DEF CD!Save, CD!Writer, CD!Writing
    <3> QED
      BY <1>4, <2>1, <3>1 DEF CD!Agree
  <2>5. CASE CD!SaveInCache(q)
    <3>1. hash' = params[q] /\ row' = row /\ pc[q] = "cache"
      BY <2>5 DEF CD!SaveInCache, CD!Hmset
    <3>2. row = params[q] /\ row # NoRow
      BY <1>2, <2>1, <3>1 DEF CD!LocalsInv, CD!LocalOK
    <3> QED
      BY <3>1, <3>2 DEF CD!Agree, CD!FieldAgrees
  <2>6. ASSUME NEW f \in Field, CD!SetInCache(q, f) PROVE CD!Agree'
    <3>1. /\ hash' = [hash EXCEPT ![f] = params[q][f]] /\ params' = params /\ row' = row
          /\ sent'[q] = sent[q] \cup {f} /\ pc'[q] \in {"set", "write"}
      BY <2>6 DEF CD!SetInCache, CD!Hset, CD!Goto, CD!TypeOK
    <3>2. \A s \in Request \ {q} : ~ CD!Writer(s)
      BY <2>6, Uncrossed DEF CD!SetInCache
    <3>3. CD!Writing(q)' /\ hash'[f] = params'[q][f]
      BY <3>1 DEF CD!Writing, CD!TypeOK, CD!Hash
    <3>4. ASSUME NEW g \in Field, g # f, hash[g] # Missing PROVE CD!FieldAgrees(g)'
      <4>1. CD!FieldAgrees(g) /\ hash'[g] = hash[g]
        BY <2>1, <3>1, <3>4 DEF CD!CoherentUnless, CD!Agree, CD!TypeOK, CD!Hash
      <4>2. \A r \in Request : g \in sent[r] => r = q
        BY <1>1, <3>2 DEF CD!Writer
      <4> QED
        BY <3>1, <3>3, <4>1, <4>2 DEF CD!FieldAgrees
    <3>5. \A g \in Field : g # f => hash'[g] = hash[g]
      BY <3>1 DEF CD!TypeOK, CD!Hash
    <3>6. CD!FieldAgrees(f)'
      BY <3>1, <3>3 DEF CD!FieldAgrees
    <3> QED
      BY <3>4, <3>5, <3>6 DEF CD!Agree
  <2>7. CASE CD!Disable(q)
    <3>1. /\ hash' = [hash EXCEPT ![StateField] = Disabled] /\ row' = row
          /\ params'[q] = [CD!Nothing EXCEPT ![StateField] = Disabled]
          /\ sent'[q] = {StateField} /\ pc'[q] = "disable" /\ pc[q] = "idle"
      BY <2>7 DEF CD!Disable, CD!Hset, CD!Goto, CD!TypeOK
    <3>2. \A s \in Request : ~ CD!Writing(s)
      BY <1>1, <2>7, <3>1, Uncrossed DEF CD!Disable, CD!Writer, CD!Writing
    <3>3. CD!FieldAgrees(StateField)'
      <4>1. CD!Writing(q)' /\ hash'[StateField] = params'[q][StateField]
        BY <3>1 DEF CD!Constants, CD!Writing, CD!TypeOK, CD!Hash
      <4> QED
        BY <3>1, <4>1 DEF CD!FieldAgrees
    <3>4. \A g \in Field : g # StateField => hash'[g] = hash[g]
      BY <3>1 DEF CD!TypeOK, CD!Hash
    <3>5. ASSUME NEW g \in Field, g # StateField, hash'[g] # Missing PROVE CD!FieldAgrees(g)'
      BY <1>4, <2>1, <3>1, <3>2, <3>4, <3>5 DEF CD!FieldAgrees
    <3> QED
      BY <3>3, <3>5 DEF CD!Agree
  <2>8. ASSUME NEW entity \in CD!Row, CD!Update(q, entity) PROVE CD!Agree'
    <3>1. hash' = entity /\ params'[q] = entity /\ sent'[q] = Field /\ pc'[q] = "write"
      BY <2>8 DEF CD!Update, CD!Hmset, CD!Goto, CD!TypeOK
    <3> QED
      BY <3>1 DEF CD!Agree, CD!FieldAgrees, CD!Writing
  <2>9. CASE CD!Delete(q)
    BY <2>9 DEF CD!Delete, CD!Del, CD!Agree
  <2>10. CASE CD!DeleteInTable(q)
    <3>1. hash = CD!Nothing /\ hash' = hash
      BY <2>1, <2>10 DEF CD!DeleteInTable, CD!WriteInCache
    <3> QED
      BY <3>1 DEF CD!Agree
  <2>11. ASSUME NEW entity \in CD!Row, CD!SaveUncommitted(q, entity) PROVE CD!Agree'
    <3>1. hash' = entity /\ params'[q] = entity /\ sent'[q] = Field /\ pc'[q] = "commit"
      BY <2>11 DEF CD!SaveUncommitted, CD!Hmset, CD!Goto, CD!TypeOK
    <3> QED
      BY <3>1 DEF CD!Agree, CD!FieldAgrees, CD!Writing
  <2>12. CASE CD!Commit(q)
    <3>1. row' = params[q] /\ hash' = hash /\ pc[q] = "commit"
          /\ \A s \in Request \ {q} : ~ CD!Writer(s)
      BY <2>12, Uncrossed DEF CD!Commit
    <3>2. row' # NoRow
      <4>1. params[q] \in CD!Row
        BY <3>1 DEF CD!LocalsInv, CD!LocalOK
      <4> QED
        BY <3>1, <4>1 DEF CD!Constants, CD!Row
    <3>3. ASSUME NEW f \in Field, hash[f] # Missing PROVE hash[f] = row'[f]
      <4>1. CD!FieldAgrees(f)
        BY <2>1, <3>3 DEF CD!CoherentUnless, CD!Agree
      <4>2. CASE f \in sent[q]
        BY <2>1, <3>1, <4>2 DEF CD!WriteInCache
      <4>3. CASE f \notin sent[q]
        BY <3>1, <4>3 DEF CD!LocalsInv, CD!LocalOK
      <4> QED
        BY <4>2, <4>3
    <3> QED
      BY <3>1, <3>2, <3>3 DEF CD!Agree, CD!FieldAgrees
  <2> QED
    BY <1>6, <2>2, <2>3, <2>4, <2>5, <2>6, <2>7, <2>8, <2>9, <2>10, <2>11, <2>12 DEF CD!Write
<1>7. ASSUME NEW q \in Request, NEW entity \in CD!Row, CD!EditUncached(q, entity) PROVE FALSE
  BY <1>7 DEF CD!EditUncached, CD!WriteStep
<1>8. ASSUME NEW q \in Request, CD!CallThrows(q) PROVE CD!Agree'
  <2>1. Frame(q) /\ causes = {} /\ sent[q] = {}
    BY <1>8, StepFrame DEF Frame, CD!CallThrows
  <2> QED
    BY <1>3, <1>8, <2>1 DEF CD!CallThrows
<1>9. CASE UNCHANGED CD!vars
  <2>1. CD!Agree
    BY <1>9 DEF CD!CoherentUnless, CD!vars
  <2> QED
    BY <1>9, <2>1 DEF CD!vars, CD!Agree, CD!FieldAgrees, CD!Writing
<1> QED
  BY <1>5, <1>6, <1>7, <1>8, <1>9 DEF CD!Next

(* The inductive invariant holds in every reachable state.                 *)
THEOREM CacheInvariance ==
  ASSUME CD!Constants
  PROVE  CD!Spec => []CD!IInv
<1>1. CD!Init => CD!IInv
  BY InitCache
<1>2. CD!IInv /\ [CD!Next]_(CD!vars) => CD!IInv'
  BY CacheTypeStep, LocalsStep, MarkedStep, FillStep, OneWriterStep, WriteInCacheStep,
     CoherentStep
  DEF CD!IInv
<1> QED
  BY <1>1, <1>2, PTL DEF CD!Spec

(* Type correctness.                                                       *)
THEOREM CacheTypeCorrect ==
  ASSUME CD!Constants
  PROVE  CD!Spec => []CD!TypeOK
  BY CacheInvariance, PTL DEF CD!IInv

(* findById never builds an object out of single fields: an entry with the *)
(* feature field is a whole one, whatever the requests do and fail to do.  *)
THEOREM WholeEntries ==
  ASSUME CD!Constants
  PROVE  CD!Spec => []CD!MarkedIsComplete
  BY CacheInvariance, PTL DEF CD!IInv

(* Cache and table agree, for any number of requests, columns and values,  *)
(* unless one of the named causes has occurred.                            *)
THEOREM Coherence ==
  ASSUME CD!Constants
  PROVE  CD!Spec => []CD!CoherentUnless
  BY CacheInvariance, PTL DEF CD!IInv

(* A hit of findById between two writes answers the row itself.            *)
THEOREM HitsAreCurrent ==
  ASSUME CD!Constants
  PROVE  CD!Spec => CD!AnswerIsTheRow
<1>1. ASSUME CD!IInv, NEW r \in Request, CD!FindById(r), CD!IsPOJO, causes = {},
             ~ \E s \in Request : CD!Writing(s)
      PROVE  returned' = row
  <2>1. returned' = hash /\ \A f \in Field : hash[f] # Missing
    BY <1>1 DEF CD!FindById, CD!IsPOJO, CD!IInv, CD!MarkedIsComplete
  <2>2. \A f \in Field : row # NoRow /\ hash[f] = row[f]
    BY <1>1, <2>1 DEF CD!IInv, CD!CoherentUnless, CD!Agree, CD!FieldAgrees
  <2>3. row \in CD!Row /\ hash \in CD!Hash
    BY <1>1, <2>2 DEF CD!Constants, CD!IInv, CD!TypeOK
  <2> QED
    BY <2>1, <2>2, <2>3
<1>2. CD!IInv /\ [CD!Next]_(CD!vars) =>
        [\A r \in Request :
           (CD!FindById(r) /\ CD!IsPOJO /\ causes = {} /\ ~ \E s \in Request : CD!Writing(s))
               => returned' = row]_(CD!vars)
  BY <1>1
<1> QED
  BY <1>2, CacheInvariance, PTL DEF CD!Spec, CD!AnswerIsTheRow
=============================================================================
