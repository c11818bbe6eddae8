# Verification of simu

simu is the server of a collaboration product: *alliances* own trees of
*affairs*; people act in them through *roles*; affairs hold announcements,
tasks, files, contracts and members.  It is a Maven project in Java on Spring,
MySQL (through its own small ORM), Redis, ZooKeeper, Thrift and a
length-prefixed TCP protocol for chat.

## 1. Inventory

Paths are relative to `src/`; `JPA` is
`superid-web-jpa/src/main/java/cn/superid/jpa`, `APP` is
`superid-web-app/src/main/java/cn/superid/webapp`, `SVC` is `APP/service/impl`.

| Component | Source | State | Operations | Hard behaviour | What makes it correct |
|---|---|---|---|---|---|
| Session and transactions | `JPA/core`, `superid-web-db` | per thread: nesting stack, connection, flags, open batch; shared: pool, tables | begin, commit, rollback, statements, batches, close | every statement may throw between borrowing and closing; nested `@Transactional` methods; the pool may be empty | all or nothing; nothing visible before the outer commit; no connection lost or shared |
| Cached DAO | `JPA/orm/CacheableDao`, `JPA/orm/ExecutableModel`, `JPA/cache` | Redis hashes beside table rows | find (read-through), set, save, update, delete, remove | fill races write; a view of a table cached while another DAO writes the table | a cached answer is a row the table had; after the writes settle cache and table agree |
| Jedis pool | `JPA/cache/RedisTemplate` | a lock, a pool of 300 clients | getJedis under the lock, close | a client that is not given back on some paths; waiting for the pool inside the lock | every client comes back; every caller is served |
| Query builder | `JPA/orm/Dao`, `ConditionalDao` | thread-local from / where / set parts and bindings | condition methods, select, set, remove, clear | state of a chain that threw, or that a cache hit ended, leaks into the next query of the thread; calls that bind without a place | values stand at the places they were given for; a query has the conditions of its own chain only |
| Affair tree | `SVC/AffairService`, `APP/dao/impl/AffairDao` | affair rows: parent, path, path index, number, state; folders, tasks, roles | create, move, disable, enable, shift, tree reads | path of a new child is computed from a count read before; a move rewrites a subtree row by row | paths are unique and agree with parents; a disabled affair has no open task |
| Affair members | `SVC/AffairMemberService`, `AffairUserService` | members, permission groups, applications, invitations | apply, agree, reject, invite, agree, reject | the same application answered twice or by two handlers; an application made with somebody else's role | a role is a member at most once; what was agreed is done, for the role and the user who asked |
| Alliance users | `SVC/AllianceUserService`, `AllianceService` | alliance, its users, invitations | create, invite, agree, reject | as above | as above |
| Friends | `SVC/FriendsService` | friendship rows, applications | apply, accept, reject | crossing applications; double answers | friendship is symmetric and single |
| Contracts | `SVC/ContractService` | contract state, per-role sign / terminate state, additions | confirm, sign, undo, terminate, agree, refuse, edit, add and remove roles | two roles act at once; whole rows are written back | valid only when all signed the text they saw |
| Announcements | `SVC/AnnouncementService`, `APP/dao/impl/AnnouncementDao` | current content, version number, history of deltas with a snapshot every 30 | save, create, delete, draft, history, paper | a version is computed from a content read before; deltas compare only keys and texts, and are applied backwards | the texts of a version can be rebuilt; version numbers are unique |
| Tasks | `SVC/TaskService` | tasks and their folders | add, list | – | a task has its folder |
| Files and folders | `SVC/FileService` | folder paths, files, histories | add, remove, root folders | unique versions and paths; partial removal | no file in a removed folder |
| Users and codes | `SVC/UserService`, `APP/security` | session attributes, users, passwords | register, verify code, login, change | code attempts, reuse | a code is checked for the number it was sent to |
| Notices | `SVC/NoticeService`, `APP/notice` | notice rows, invitations | create, mark as read | – | read state |
| Thrift pool and ZooKeeper | `APP/notice/ThriftPool`, `APP/notice/zookeeper` | list of backends with its watches, map of connections | init, update, borrow | watch events concurrent with borrowing; watches that fire once; calls without a timeout | the pool follows the list; every change is read; a silent backend holds up nobody else |
| Chat client | `APP/notice/chat` | composer buffers, socket, handlers that wait, listener and ping threads | connect, login, send, receive, feed, ping | bytes split anywhere; two listeners after a reconnect; answers that race their handlers; two calls in a millisecond; handlers that throw or sleep; two ping threads over one count | messages come out as they were sent; an answer finds its own handler; a silent server is noticed |
| Utilities | `superid-web-utils` | memory cache, frequency counters | put/get with eviction, counting per interval | concurrent calls, limits | bounded size; limit per interval |
| Web layer | `APP/controller`, `forms`, `VO` | none | parameter checking, one service call, packaging | – | – |
| Entities | `APP/model`, `superid-web-admin/.../model` | the row types | getters and setters | – | – |
| Chat storage | `SVC/MessageService` | external table store | put and range reads | – | – |
| Admin module | `superid-web-admin` | – | login and permission lookups | – | – |
| Generated code, front end | `APP/notice/thrift`, `notice/chat/proto`, swagger UI | – | – | – | – |

How they interact: a controller runs on one request thread and calls one
service; services call each other and the DAOs directly on that thread; DAOs
use the thread's session and, for the cached views, Redis.  Request threads
meet in MySQL, in Redis and in the pools.  Only four service methods are
`@Transactional` (`createAffair`, `disableAffair`, `addFile`,
`removeFolder`): everywhere else every statement commits by itself and
another request may run between any two.


## 2. How the modules are built

Every component has one module with its state and actions, an `MC` module that
gives the constants structured values and bounds the search, one `.cfg` per
question, and a `Proofs` module that EXTENDS the component's module.  The
proofs about `CacheableDao`, `Heartbeat` and `Backends` stand in the `Proofs`
module of the layer below or beside them, about an `INSTANCE` of the component
with variables of its own (`CD`, `HB`, `BK`).

| Module | Models | Runs | Proved |
|---|---|---|---|
| `JdbcSession` | session, transactions and pool | `session_pool` | `JdbcSessionProofs` |
| `CacheableDao` | one cached row: Redis hash and table row | `cache_calls` | `JdbcSessionProofs` |
| `QueryBuilder` | the chains of calls that build statements | `query_chains` | `QueryBuilderProofs` |
| `Contract` | one contract and its role rows | `contract_calls` | `ContractProofs` |
| `AffairTree` | the affairs of an alliance and their tasks | `affair_calls` | `AffairTreeProofs` |
| `Membership` | who enters one affair | `member_calls` | `MembershipProofs` |
| `BlockDiff`, `Announcement` | the difference of two papers; announcements and their versions | `announcement_saves` | `AnnouncementProofs` |
| `Link`, `Composer` | the abstract stream of messages; the framing and the listeners that implement it | `composer_feed` | `ComposerProofs` |
| `ChatClient` | connections, requests and answers over a `Link` | `chat_calls` | `ChatClientProofs` |
| `Heartbeat` | the ping threads | `heartbeat_silence` | `ChatClientProofs` |
| `Backends` | the list of notice backends and the pool of connections to them | `backends_pool`, `backends_watch` | `ChatClientProofs` |

The modules follow one scheme.

* **Steps.**  What runs between two points where another request or thread can
  observe or change shared state is one action.  Outside a transaction that is
  each statement that writes, and each load whose result is used later; inside
  `@Transactional` methods the writes appear at the commit.  The local
  variables of a call that are used after such a point (a loaded row, a list a
  loop has still to do) are variables of the module, indexed by request.
* **Failures.**  Every call may stop at any of its steps (`CallThrows`,
  `Fail`, `StatementThrows`, ...): a statement throws or the server stops.
  What the call has written and committed stays.
* **Causes.**  The services write back whole rows with no lock, so most
  properties are false of arbitrary interleavings.  Instead of ruling these
  out, the modules record in a history variable (`causes`, `residue`,
  `broken`) that such a thing has happened (a write by a call whose rows
  another call has overwritten, a failure between two writes, ...), and a
  property names exactly the causes that can break it.  This makes a precise
  statement of what the code guarantees: *nothing but these, in no order,
  breaks the property*.  History variables are never read by a guard.
* **Composition.**  `Composer` is shown to implement `Link`
  (`INSTANCE Link WITH broken <- broken # "no"`), and `ChatClient` is built on
  the steps of a `Link`, so the requests are checked without the bytes of the
  framing: over every order a whole stream delivers, and over a broken one
  that may skip messages.  What a broken stream makes of half a message is
  not a message of that module.
* **Fairness.**  The services promise safety only: a request may stop at any
  step, and no code retries, sweeps or repairs.  The chat client and the pool
  of backends have threads that loop for ever, and there liveness is stated.
  The fairness is weak and on the program's own steps: a thread whose next
  statement can run runs it in the end.  What the other side does is fair only
  where the property is about a server that answers; the answer of a notice
  backend, whose call has no timeout, is never assumed.
* **Wrong variants.**  A definition whose comment begins with "Wrong variant
  of" is not part of the specification.  It is the next definition with a
  plausible mistake; put in its place, it breaks a property (PROJECT.json
  names which), which shows that the property depends on that code.

| Run | Distinct states | Properties |
|---|---|---|
| `session_pool` | 124 754 | `AtomicUnlessStarved`, `InvisibleUntilCommit`, `ConnectionsAccounted` |
| `cache_calls` | 991 506 | `CoherentUnless`, `AnswerIsTheRow` |
| `query_chains` | 2 483 926 | `OwnPiecesOnly`, `ValuesFitPlaces` |
| `contract_calls` | 728 499 | `ValidIsSigned`, `EndedIsAgreed`, `StartedIsConfirmed`, `ContractSumsUp`, `InForceIsKept` |
| `affair_calls` | 92 084 | `PathsFollowParents`, `PathsTellDescent`, `NoCycle`, `DisableIsTheSubtree`, `TypeOK` |
| `member_calls` | 703 749 | `MemberOnce`, `MemberHasUser`, `AgreedHasEntered`, `WaitsOnce`, `MemberWasAdmitted` |
| `announcement_saves` | 297 870 | `VersionsComplete`, `DeltasJoinVersions`, `RowIsLatest`, `DetailsAreSaved`, `SnapshotsComplete` |
| `composer_feed` | 456 521 | `NoByteLost`, `IsLink`, `TypeOK` |
| `chat_calls` | 225 032 | `OwnAnswer`, `NothingWaitsInVain`, `AnswerIsHandled`, `LoginFollowsAnswers` |
| `heartbeat_silence` | 419 873 | `DisconnectIsEarned`, `SilenceIsNoticed`, `CloseEndsThreads` |
| `backends_pool` | 400 507 | `PoolServesTheList`, `NotifiedIsRead`, `SilenceStaysLocal` |
| `backends_watch` | – | `ChangesArrive`, violated (section 13) |

The inductive invariants, and most type invariants, were run before they were
proved; as theorems they are not run again.

## 3. JdbcSession

**Code.**  `JdbcSession`, `AbstractSession`, `JdbcTransaction` and
`SessionFactory` of `superid-web-jpa`, `TransactionManager` of
`superid-web-db`.  A `ThreadLocal` holds the session, so each of its fields is
a function of the thread here, under the name of the field (`txStack` is the
size of the stack, `activeFlag` and `isInBatch` the sets of threads whose flag
is set).  `idle`, `autoCommit`, `pending` and `committed` are the pool and the
database; `depth` and `raised` are what Spring knows: how many
`@Transactional` methods the thread is in, and whether an exception is leaving
one.  A statement, and a begin, commit or rollback together with the clean-up
Spring runs after it, is one action: it touches one session only.
Most statements are queued in a batch; the update of named columns never looks
at `isInBatch` and runs at once (`ExecuteUpdate`).

**Behaviour worth knowing.**  `isExistingTransaction` is not overridden, so an
inner method begins, commits and rolls back by itself and only the stack keeps
its commit from being real (`CommitInner`).  `JdbcTransaction.rollback()`
returns at once when the flag is set, so the roll-back at the outermost level
is done by the pool when the clean-up gives the connection back
(`Rollback`).  An inner roll-back whose exception the outer method catches
rolls nothing back; the outer method commits everything.
`AtomicUnlessStarved` therefore speaks of the outermost method.  Spring rolls
back for unchecked exceptions; a method that a checked one leaves is committed,
which is a commit here with the exception raised again in the method around it.

**Checked** (`session_pool`: two threads, one connection, two changes, nesting
to 2, stack to 4).  With one connection for two threads every wait for the
pool occurs; two changes are needed to tell a part of a transaction from all
of it; depth 2 is the first with an inner commit and an inner roll-back;
stack 4 leaves room for starved begins below both levels.  Deadlock is
checked: a thread can always begin or end something.

**Proved, for any threads, connections, changes and bounds.**  `Invariance`
(`Spec => []IInv`) and from it `TypeCorrect`, `Atomicity`, `Isolation`,
`NoConnectionLost`, `AutoCommitDiscipline` and `OneConnectionPerTransaction`.
Atomicity alone is not inductive.  `LevelInv` says that the stack counts the
methods entered (and exceeds them after a starved begin), so that the
outermost commit really is the one that commits.  `TransactionInv` says that a
running transaction holds a connection whose uncommitted changes are exactly
its `txWrites`, and that no auto-commit connection has any, so that commit
publishes all and roll-back drops all.  `BatchInv` ties an open batch
statement to a connection.  `FreshInv` says that a change is in one place
only; without it a roll-back of one thread could be spoiled by an equal change
committed by another.  The assumptions are `NoConnAssumption` and
`BoundAssumption`.

**Known.**  `begin()` adds its level to the stack before it borrows a
connection (`AbstractSession:37`).  If the pool times out the level stays, and
every later transaction of that thread is taken for a nested one: auto-commit
stays on and a roll-back undoes nothing, against what `RollbackTest:11`
expects.  The property excuses the threads this has happened to (`starved`).

**Not modelled.**  `removeAbandoned` closing a connection under a running
transaction (`SessionFactory:20`); the application sets the time to 1800
seconds (`resources.properties:26`), far beyond a request.  Result mapping and
object copying keep no state.

## 4. CacheableDao

**Code.**  One row of a `@Cacheable` model: `CacheableDao`,
`ExecutableModel`, `RedisTemplate`.  `row` is the row of the table or `NoRow`,
`hash` and `hmFeature` the Redis hash (the feature field marks a hash that was
written as a whole).  Each Redis command and each SQL statement is a step.
A Redis that throws in a read is taken for an empty one (`CacheUnread`), in a
write it ends the call.  A `save()` may be part of a transaction: then its
entry is in Redis at once and its row at the commit, or, when the transaction
is rolled back, never (`SaveUncommitted`, `Commit`, `CallThrows`); until then
its lock keeps other statements on the row waiting (`Unlocked`).  The starting
states are all those the first call on a row can meet.

**Checked** (`cache_calls`: two requests, two columns, two values).
`CoherentUnless`: cache and table agree unless a fill was overtaken by a
write, writes crossed, a call failed after its write of the cache, the table
was written through an uncached entity, or an update found no row.
`AnswerIsTheRow`: what `findById` takes from the cache between writes is the
row.  Two columns are what separates a hash written field by field from a
whole one, two values make an old value visible, and two requests give every
race of a pair of calls; a third could only be a second racer of the same
kind, and the proof covers it.

**Proved, for any requests, columns and values.** `CacheInvariance`,
`CacheTypeCorrect`, `WholeEntries` (a hash made of single fields is never
taken for an object), `Coherence` and `HitsAreCurrent`, at the end of
`JdbcSessionProofs`, about `CD == INSTANCE CacheableDao`: the session
and the cached row share no state. To the three properties `IInv` adds: a fill that
was not overtaken still holds the row (`FillHoldsRow`), there is one writer as
long as none has crossed another (`OneWriter`), the locals of a call fit its
step (`LocalsInv`) and what a write in progress has put in the hash is still
there (`WriteInCache`). The last two are what carries agreement over the gap
between the HSET and the UPDATE. Their hypothesis is `CD!Constants`, which is
`ValueAssumption`.

**Known.**  `editBaseInfo` (`UserService:273`) writes `user` through the
uncached entity, and `UserBaseInfo`, cached from the same table, keeps the old
values, against the comment at `UserService:259`.  The loop over the answer of
HMGET starts at the feature field, so `selectOne` (`CacheableDao:75`, called
on `UserBaseInfo` in five places) gives each column its predecessor's bytes;
`TestRedis:67` expects its own.  `disable()` sets `state` in cache and table
although its comment speaks of removing the row from the cache
(`CacheableDao:111-113`); the row stays readable as disabled.  A `save()` that
is rolled back leaves an object in the cache that the table never had
(`ExecutableModel:35`); it is one of the failed writes of `CoherentUnless`.

**Not modelled.**  What a transaction reads of its own uncommitted rows.

## 5. QueryBuilder

**Code.**  `Dao`, `ConditionalDao` and the parts of `CacheableDao` and
`StringUtil` they build statements with.  The buffers are `static`
`ThreadLocal`s shared by the daos of all classes: `where` and `from` are
sequences of pieces marked with the chain that built them, `bindings` the
values, `key` the id a cached chain asks for.  A building call is one action;
so is each way a chain ends: with a statement (`Send`, which reads the buffers
and clears them), or without one, with the buffers as they are (`Hit`,
`Refuse`, `CountFails`, `Abandon`).  `residue` records the latter, and the
FROM text that `setByObject` of the cached dao leaves (`SetCachedByObject`).

**Checked** (`query_chains`: two symmetric threads, two chains each of two
calls, at most three chains and two pieces in all the buffers at once).
`OwnPiecesOnly`: without a residue a statement is made of all the calls of its
own chain and no others.  `ValuesFitPlaces`: whatever was left behind, the
values of a statement stand at the places they were given for, unless a call
of it separates the two.  Three calls do: `limit` and `offset`, whose values
follow at the end; an `or` with an expression made of plain SQL, which has no
place but has its null bound (`ConditionalDao:189`); and `set` of an expression
without a value, whose place is written and whose value is not bound
(`Dao:244-246`).  The property names these, so a leak alone changes which rows
a statement is about and never which value stands where.  Two chains are the
fewest in which one inherits from another, and no step touches more than one
thread's buffers.  The last chain of a thread ends with no other to follow, so
deadlock is not checked.

**Known, in the model and against its comments.**  `CacheableDao` refuses a
chain without an id with the words "Cacheable model should operation by id"
(`CacheableDao:87`), but what it looks at (`HasKey`) is a static `ThreadLocal`
that no operation resets.  After one chain with `id()` every later chain of
the thread passes, of any cached class, and is answered with the object of the
earlier id.  No property speaks of the id: the two calls refute at once that a
chain sets its own, and nothing weaker is promised.

**Proved.**  `Invariance`, `TypeCorrect`, `StatementsAreOwn`, `ValuesFit`
and `WritesRestricted` (an UPDATE or DELETE without ORDER BY and limit has a
condition; only model-checked before it was proved, and in no run now).
`BuffersInv` says what the buffers hold between two calls, `WhereInv` that the
text of a write was looked at.  `ValuesFit` has an
invariant of its own beside these, `FInv`: the values in the buffers are those
of the pieces that bind one, by an increasing map from values to pieces
(`ValuesAt`).  A call that binds appends value and piece together, so the map
grows at its end (`ValueComes`); every end keeps both buffers or empties both
(`EndFits`).  It counts the values of `limit` and of the alternatives as theirs
and holds whatever chains left in the buffers; a statement without such pieces
then has its values at its places.

**Known.**  The chains that leave a residue in practice: a hit of the cache
(`CacheableDao:83` clears nothing), and
`AllianceService:121`, which calls `setByObject` without a condition of its
own and so writes under whatever an earlier chain of the thread has left, or
fails.

## 6. Contract

**Code.**  `ContractService` from `addContract` to the end of a contract: one
row of `contract`, its rows of `contract_role`.  No call is a transaction.
Each loads the contract, checks, updates role rows and writes back the whole
contract row it loaded.  `seen` and `seenRows` are these loaded rows, `todo`
the rest of a loop, `at` the next statement.  `signed` (the text under which a
role has put its signature) and `agreed` (who agreed to this termination) are
history.

**Checked** (`contract_calls`: two requests, two alliances, one of two roles,
two texts).  `Bound` explores nothing behind an overlap, because every
property excuses it; until the overlap two calls are interleaved freely, as
long as the third role is outside the contract; with the third role in it, and
behind every single other cause, calls come one at a time.  So the run covers
every race of two calls on a contract of two roles, every sequence of calls on
a contract of three, and every sequence after one failure, late edit, removal,
late role or undone signature.  Deadlock is not checked: a contract that was
deleted has no further calls.

**Proved, for any roles, alliances, texts and requests.**  `Invariance`,
`TypeCorrect`, `ContractIsSigned`, `ContractIsAgreed`, `ContractIsConfirmed`,
`ContractIsKept`.  The argument is about what a call may rely on between its
load and its write:

* `Fresh`: a call that is not `stale` still knows the tables.  The contract is
  the row it loaded (`ContractKnown`), the role rows it has still to write are
  those it read (`RowsKnown`), and the sums it has taken over them count what
  it takes them to count (`SumsKnown`; the sums are cardinalities, whence the
  assumption that `Role` is finite).
* `OneWriter`: unless calls overlapped, whoever runs beside a call that has
  written is stale.  So a stale call that writes adds the cause "overlap",
  which every promise excuses, and a fresh one writes what it knows while all
  others become stale (`WriteKeeps`); a step that writes nothing keeps
  everything (`ReadKeeps`).
* `StateSeen` carries the check of the contract's state from the load to the
  write, and `Promises` is the properties themselves with the one thing they
  need about calls in progress: between the statements that ask the roles to
  terminate, a row that is still to be asked may hold the answer to an earlier
  termination (`Asking`).

`ContractSums` says that between calls a contract at Starting waits for
somebody, and is blocked for editing exactly when somebody has signed.  It has
a second invariant, `SInv`, inductive beside the first: while calls run, the
two sums may be wrong only if the request that is to set them right is at the
statement that does (`Waiting`, `Blocked`), and that request, unless it is
stale, knows what its statement relies on (`BlockKnown`); a call midway has
written (`Marked`), so another one that writes is an overlap.

The assumptions are `RoleAssumption` and `NoRowAssumption`.

**Known.**  `undoSign` is refused in state 3 only (`ContractService:156`);
during a termination it withdraws a signature, and a refused termination
brings the contract back in force without it (the cause "undone").
`agreeTerminate` wants the sum of each alliance to be exactly 1
(`ContractService:224`, against the comment at 220), so an alliance in which
two roles agree can no longer end the contract.  Two last confirmations at
once each miss the other and the contract stays at Starting
(`ContractService:43-44`); it is the reason for the excuse in
`ContractSumsUp`.

## 7. AffairTree

**Code.**  `AffairService` and `AffairDao` on the affairs of one alliance, and
`addTask`.  An affair knows its parent, and its place as a text `/1-2-1`, with
its level; subtrees are found by `LIKE path%`.  A path is the sequence of its
indices here, and `TextPrefix`, `MovedPath` do on it what the text operations
do, the last index of a prefix being cut in the middle included: `LIKE /1-1%`
finds `/1-10`.  `createAffair` and `disableAffair` are transactions, a move is
not: `MoveSource` and `MoveKid` are statements of their own.

**Checked** (`affair_calls`: two requests, four affairs, indices to 3 in base
2, one task each).  `PathsFollowParents` (the two pictures of the tree agree),
`PathsTellDescent` (no two affairs share a path, and `isChildAffair` answers
whether one is below another), `NoCycle`, `DisableIsTheSubtree`.  Indices are
written in base 2 so that the tenth sibling of the code is the second one here
("1" begins "10") and the case occurs with few rows.  `Bound` stops behind the
causes that all properties excuse, lets calls run at once while there are at
most three affairs and lets tasks exist while there are two.  Four affairs are
the least with a subtree of depth two moved beside another affair.

**Known.**  The loop that collects the tasks of a disabled affair never
advances its index (`AffairService:220`), so one of them is closed, against
the comment at 215.  `createTree` (`AffairService:479-480`) looks for a parent
from the child's place on, in rows nobody has sorted; an affair moved under a
younger one is not shown.  The index of a new child is the number of children
plus one, so after a child has left, the next one may share the path of the
last (`AffairService:611-612`; the cause "moved" of `PathsTellDescent`).

**Proved, for any affairs, tasks, requests and places of digits.**
`Invariance`, `TypeCorrect`, `NoMoveClosesACycle`, `PathsAreParents`,
`DescentIsTold`, `SubtreeIsDisabled`.  In the middle of a move the table says
nothing true of the tree, so the invariant speaks of the path an affair has as
soon as the move has written what it owes (`Owed`, `PathOf`): it is the
parent's and one index (`Follows`).  At most one call is half done, and every
call that began before it wrote is stale (`OneWriter`); a call that is not
stale still knows what it read (`Knows`): `w.parent` is not below the affair
that moves, and the paths to write are those of its subtree.  From `Follows`
the path of whatever is below an affair extends its own (`BelowExtends`), and
everything is below the root (`AllBelowRoot`), by the shortest path that is
not.  `Numbered` (the indices of children differ and are at most their number)
gives the converse; it needs that an affair which moves away was the last
child, the cause "moved".  `MovedExtends` is where the text of the paths
enters: what extends a path is found by `LIKE` and moved index by index.  A
subtree is the intersection of all sets closed under `Children`, so nothing is
recursive.  The assumption is `ConstantsAssumption`: bounds that are natural
numbers, 1 among the places of digits, and `NoRow` no row.

## 8. Membership

**Code.**  `AffairMemberService`, `AffairUserService.addAffairUser` and the
shortcut for directors in `AffairMemberController`.  `members` and `users`
count the rows of `affair_member` and `affair_user`, `application` and
`invitation` hold the states of a role's rows, oldest first, and `applicant`
the user stored with each application.  A call checks, then writes one row per
step: `addMember`, `addUser` (the look for the row), `insertUser`, and the
closing of the application or invitation.  `subject` is the role a call has
checked, `user` the user it works for, `item` the row it has loaded, `inside`
and `outside` what the two loops of an invitation have still to do.  `stale`
holds the requests whose check another one has outdated.  An application or
invitation that is agreed for a role that is a member already is the cause
`secondEntry`.

The role of an application is a parameter of the call and its user is the
caller (`AffairMemberController:82, 86`, `AffairMemberService:112`); nothing
checks that the role is the caller's, and agreeing uses the stored user
(`AffairMemberService:137`).  So any user may apply with any role here, and a
member entered with the user of another role is the cause `otherUser`.

**Checked** (`member_calls`: two requests; the creator, a director and a
guest, the last two of one user, and a user without a role who may apply with
any of them; deadlock checked).  Calls run at once up to two rows of
applications and invitations and while nothing was excused; behind one cause,
and with a third row, they come one at a time.  A role needs at most one open
application and one open invitation for every conflict the properties name,
and the third row is the one that enters a member again.  `MemberHasUser`
says of a member's own user that there is a row of `affair_user`, unless a call
stopped between the inserts or another user entered with the role.
`AgreedHasEntered` needs no excuse at all: the role of an agreed application
is a member and the user who made it has a row, whoever that is and whatever
fails or overlaps.

**Proved, for any requests, roles and users.**  `Invariance` and from it
`TypeCorrect`, `EntersOnce`, `OneRowPerUser`, `MembersAreUsers`,
`AgreedEntered`, `InvitedEntered`, `ValidWhenEntered`, `NobodyWaitsTwice`,
`MembersWereLetIn`.  `Placed` (a call past
its check knows its role and user, past the insert the role is a member, and
at the closing of an application the user has a row) gives the
two properties about agreed rows, because no step removes a member or a user;
`Purpose` says that the user of a call that agrees is the one stored with the
application.  `Checked`
(what a call has checked still holds while no write has made it stale) gives
the two properties about single rows: a second row needs a call with a check
that was outdated, or an entry of somebody who was in.  The proofs reduce
every step first to one of seven shapes (`StepShape`) so that the invariants
are shown for seven cases instead of twenty.

`WaitsOnce` counts open rows; `OneOpen` says the same without counting, and is
kept because a request that is not stale still finds the rows as it read them
(`Knows`): none open where it is to insert one, its own row open where it is
to write one back.  `MemberWasAdmitted` follows the purpose of a call
(`Purpose`): whoever adds a member adds a director or has the row it agrees
to, and inside the alliance has saved it already (`InsideAgreed`).  Between the
insert and the closing of the row the call itself is the admission; only a
rejection takes an agreed row away.  The assumption is `RoleAssumption`.

**Known.**  A user can apply with a role of somebody else (above): the role
becomes a member and the wrong user gets the row of `affair_user`.  An
application left open while the role was invited makes it a
member twice when it is agreed (`AffairMemberService:128`).  An agreed
application can be rejected, and the member stays (`AffairMemberService:153`).

## 9. BlockDiff and Announcement

**Code.**  `BlockDiff` is `compareTwoBlocks` and `caulatePaper` of
`AnnouncementService`: the matrix of edit distances, the walk back through it,
and the application of the edits.  A block has a text, which stands for the
key and text the comparison looks at, and a style, which stands for the data,
type, depth and ranges that are stored with it and that it does not look at.
`Announcement` is the life of the rows:
`row` the latest content, `history` a row per version with the edits to the
next version and back to the one before, `snapshot` the whole content every
`SNAPSHOT_INTERVAL` versions.  `Apply` and `Fits` separate an application
that succeeds from one whose index is out of range, which the code leaves as
an exception.  `Details` is what `getDetails` answers for an old version: it
walks down from the latest content with the stored decrements.

**Behaviour worth knowing.**  The walk back in `compareTwoBlocks` throws when
one paper is used up before the other, as for a block inserted at the head ([1]
to [2,1]); `save` then fails before its first write.  It may also throw in one
direction only ([3,4,1] to [1,2]): the save has then stored the increment and
stops (`failure`).  The edits of a save that changes only styles are empty, so
everything computed from edits is right up to keys and texts and no further.

**Checked** (`announcement_saves`: two symmetric requests, two announcements,
three papers, one setting, snapshots every 3 versions, 3 versions; deadlock
checked).  The three papers give differences that can be computed both ways,
one way and not at all, and two of them share a text in two styles.  With an
interval of 3 in place of 30 both halves of
an interval and the version on its end occur.  `DetailsAreSaved`: the texts
`getDetails` answers for an old version are those that were saved, although it
applies each decrement to a paper of possibly another style than the one the
decrement was computed from.  `SnapshotsComplete`: a snapshot is the content
saved as its version, and none that was due is missing.  `Bound` follows the
last history row only into its snapshot, stops at an overlap with a save, which
every property excuses, and after a call that stopped midway lets calls come
one at a time for one announcement.

**Known, in the model and against its comments.**  The comments say that equal
blocks are the same ("两者相同,不增加距离", `AnnouncementService:525`) and that
the walk obtains the content of the version asked for
(`AnnouncementService:238`).  Both hold up to keys and texts only: after a save
that changes the style of a block and leaves its key and text, `getDetails`
answers the old version in the new style.  `DetailsAreSaved` and
`DeltasJoinVersions` compare `Texts` for this reason.

**Proved, for any announcements, requests, papers, settings and interval.**
`CompareIsRight`: for all papers, the edits `Compare` returns without an
exception fit the first paper, and `Apply` makes of it a paper with the keys
and texts of the second; of its styles nothing is said, and nothing is true.
It is an induction over the cells of the matrix: a cell of distance 0 has
prefixes of equal texts, and what the walk collects from a cell on leads from
one prefix to the other (`WalkTurns`, by the deletion, insertion, replacement
or equal block that the walk chooses there).

`Invariant` is about what the four statements of a save keep together while
other calls run.  The properties alone are not inductive: between the increment
of the old version and the history of the new one the edits join a version that
is not yet stored.  `Stored(a)`, for an announcement without an "edit", adds
what is true in between:

* `Alone`: a save has no other call beside it, and neither has a call on an
  undisturbed announcement (a second call would be recorded in `causes`).
* `Knows`: what each call holds at each step.  A save that is about to write
  its row holds the next version, edits back that join its content to the
  row's, and finds the edits forward in the history of the row's version.
* `Numbered`, `Latest`, `Joined`: one history a version, none beyond the row's;
  the history of the latest version has the row's content; the edits of
  neighbouring versions join what was saved for them.
* `Columns`: the other columns of the row and of its latest history agree, but
  for what a running call has still to write.
* `Snapped`: a snapshot has what was saved for its version, and each version at
  the end of an interval has one, but for a save that has still to write it.

Every step is a `Turn` of one request at one announcement and leaves the others
`Untouched`, for which `Stored` stays true (`UntouchedStays`); each action has
a lemma for the announcement it is about.  Only `SetAll`, whose statement names
no announcement, writes histories of others, and of those only the columns.  The theorems are `TypeCorrect`,
`VersionsAreComplete`, `DeltasJoin`, `RowIsTheLatest`, `SnapshotsAreComplete`
and `DetailsAreAsSaved`.  The last follows the decrements down from the latest
version by induction (`WalkDown`); each is applied to a paper with the texts,
though not the styles, of the paper it was computed from, and `ApplySame` says
that the result then has the same texts.  The assumption is
`ConstantsAssumption`: papers are sequences of blocks, and the
interval and the bound on versions are positive.  TLC finds `IInv` true in
every state of the run.

**Not modelled.**  Drafts (`AnnouncementService:370-405`): single rows, written
and deleted by one call each.  `getHistoryVersion`: the content it computes is
dropped before it answers (`setContent` is commented out,
`AnnouncementService:459`).

## 10. Link and Composer

**Code.**  `Composer` (length prefix to the base 128, a mark on every byte but
the last) and the listener thread of `ChatClient` that reads from the socket
and feeds it.  The one `Composer` of the client is shared by every listener
thread; `connectChatServer` replaces the socket under a listener that goes on
reading.  `wire` is what is on its way, `piece` and `offset` the bytes a
thread has read and not yet fed; `state`, `length`, `left` and `buf` are the
fields of the class.

**Checked** (`composer_feed`: base 2, a message of one byte and one of two, so
headers of one and two bytes; three messages per connection, two connections
and listeners; handlers may throw).  A read returns any number of bytes, so
every way of cutting the stream occurs.  `NoByteLost` equates what the server
composed with what was delivered, what the Composer holds, what a thread has
to feed and what is on the wire.  Four things break a stream and are recorded
in `broken`: a length cut by the end of a read after other bytes ("cut",
`Composer:169` compares an index relative to `offset` with the absolute end), a
handler that throws ("handler"), a connection that replaces one with an
unfinished message ("reconnect"), and two listeners that read at once
("listeners").  A broken stream is followed for one message, or until the wire
is empty and another connection can begin: nothing is promised about it.

**Refinement.**  `IsLink`: the Composer with its listeners implements `Link`,
with `broken <- broken # "no"`.  Besides its safety (in order, once, from the
present connection) this has `WF_vars(Receive)`: what was sent on a whole
stream is delivered in the end.  It needs `WF_vars(Listen(t))`, the loop of
the listener: while bytes are there a blocking read returns some.

**Proved, for any base, messages, connections and bounds.**  `Invariance`,
`TypeCorrect`, `LosesNothing` (`NoByteLost`) and `StepsOfLink`: the Composer
starts as `Link` starts, and each of its steps is a step of `Link` or leaves
it as it is, which is the safety half of `IsLink`.  `NoByteLost` is an
equation between whole streams and is not inductive: it does not say *where*
in a message the Composer stands.  `StreamIsWhole` does.  While nothing is
broken there is one thread `t` and a place in `Stream(sent)` such that all
that is behind the place is what `t` has not used and the wire
(`Follows(Ahead(t), ...)`), and no other thread holds a byte.  The place lies
behind the messages received, by what the Composer holds: nothing
(`HoldsNothing`), part of the header of the next message, with `length` the
value of the digits read (`HoldsLength`), or its header and as many bytes as
`buf` has (`HoldsData`).  A read moves bytes from the wire to the piece and
keeps the place; using n bytes moves it by n; sending lengthens both sides.
So a header ends where the Composer takes it to end, the length it computes is
the length of the message to come, and what it delivers is that message; that
`Receive` of `Link` delivers the next message sent follows.  `CutIsLong`
says that only a message whose length has two digits can be cut, the last part
of `NoByteLost`.

The data of the protocol is proved with it: the value of the digits of a
length is the length (`ValueOfDigits`), read at once or in parts (`ValueJoin`,
`ValueGoesOn`), the byte without a mark is the last of a header (`HeaderIs`,
`HeaderEnding`), and the stream of more messages begins with that of fewer
(`StreamOfFirst`, `StreamOfMore`).  These are inductions over numbers and
lengths.  The assumption is `ComposerAssumption`: a base above 1, messages of
at least one byte, at least one connection.

**Not modelled.**  The limit on the length of a message and the error state it
leads to; there is no limit unless a caller of the constructor sets one.

## 11. ChatClient

**Code.**  The rest of `ChatClient`, `MessageHandler` and the request cache.
A request is named by user and millisecond, written, and only then put in
`requestCache` (`Name`, `Write`, `Put`).  The listener of a connection calls
the handler that waits under the name of an answer (`ListenAnswer`) and removes
what has the name when the handler has returned (`HandlerReturns`); one that
throws stays in the cache and ends the read (`HandlerThrows`).  Until then the
listener does nothing else, while that of another connection may read on and
find the same handler: `handling` is the call whose handler a listener is in,
`resting` the listeners asleep in that of a refused sign-in.  Listeners follow
redirects by connecting again, and every connection signs in.  Time advances
when a call takes its name, so two calls in one millisecond occur.  On a broken
stream a listener may be given any later message, the messages before it being
lost.  The server is external: it answers in any
order, redirects, refuses a sign-in, falls silent, or is gone.  `requestCache`
is a `HashMap` shared without a lock; each `get`, `put` and `remove` is atomic
here, which the language does not promise.

**Checked** (`chat_calls`: one request beside the sign-ins of two connections,
three milliseconds, at most one fault at a time, a handler that throws being
one).  Two calls on one connection
and a third on the next are what sharing a name, an answer to an earlier
connection and a refused sign-in need.  `OwnAnswer` and `NothingWaitsInVain`
say what an answer finds and what a handler waits for: its answer is asked for,
on its way or being handled, unless the answer came before `put()`, another
call has the name, the handler threw, the connection was replaced or its stream
broke.  `AnswerIsHandled`: on
a connection that lasts, every call the server has read is handled, unless the
answer was faster than `put()` or another call has the name.
`LoginFollowsAnswers`: a connection counts as signed in as its answer says; a
handler of a refused sign-in that sleeps through a reconnect takes
`loginSuccess` back.  Deadlock is not checked: a client may have no requests
left.

**Fairness.**  Callers finish the method they are in, the listener of the
latest connection reads on,
a handler returns or throws in the end (so does the sleep after a refused
sign-in), and a server that answers does answer what it has read.  Writing requests, connecting and every fault stay optional.

**Proved, for any requests and connections.**  `Invariance`, `TypeCorrect`,
`AnswersAreOwn`, `HandlersAreAnswered`, `AcceptedCanSend`.  `OwnAnswer` needs
the whole way of a name: a call keeps the name it was written under (`Fresh`),
only written calls are answered (`AnswersAsked`), a handler waits under the
name of its call (`Cached`), and a handler that was called, or is being
called, had been put (`Called`, `Handled`).  `NothingWaitsInVain` says nothing of calls that are about to be
put, so its invariant (`WInv`) speaks of every call that was written: it is to
be answered, or was and has left the cache, or is excused (`Waits`).
`AcceptedIsUsable`, the safety half of `LoginFollowsAnswers`, needs that a
sign-in is answered once (`ToldOnce`) and that only a refused one puts a
handler to sleep (`RestsRefused`).  The assumption is `ChatAssumption`.

## 12. Heartbeat

**Code.**  `PingRunnable` and the fields it shares with the listener,
`connectChatServer` and `closeConnect`.  Every statement of a ping thread that
reads or writes a shared field is a step: look at the signal, send and sleep,
reset the flag, wait, read the count, write it, compare it, close (`Look` to
`GiveUp`).  Connecting is three: the socket, the sign-in, the signal with the
start of the thread (`ConnectSocket`, `LoginServer`, `StartPings`), and another
thread may close between any two.  A thread of an earlier connection that has
not looked at the signal when the client connects again goes on beside the new
one.  The fields are not volatile; the model gives every thread the latest
value, which is one of the outcomes the language allows.

**Checked** (`heartbeat_silence`: two connections, one ping under way, counters
that saturate above the values the code compares with; no further bound).
`DisconnectIsEarned`: the client gives up only after three unheard
pings, unless a PONG came before the flag was reset or two threads shared flag
and count.  `SilenceIsNoticed`: a server that falls silent on a connection with
one ping thread is given up, the first time.  Two threads may write the count
from 2 to 4 before either compares it with 3, and then nobody gives up; the
property excuses them by name.  `CloseEndsThreads`: closing ends the threads,
unless it falls into connecting or the client connects again.

**Known, in the model and against its comments.**  `closeConnect` says of its
first two statements that they close the threads (`ChatClient:110`).  When it
falls between the opening of the socket and the start of the ping thread
(`ChatClient:103-104`), the thread is started behind it, with the signal set
and no socket, and loops for ever.  The model takes these steps and records
`"closedConnecting"`, which `CloseEndsThreads` names.

**Fairness.**  The ping threads run on, and the listener handles a PONG that
has arrived.  A server that answers need not, so silence needs no assumption.

**Proved.**  `HeartbeatInvariance`, `HeartbeatTypeCorrect` and
`GivenUpWhenSilent`: without a cause
there is one thread (`OneThread`), a PONG heard since the ping is in the flag
when the thread looks (`FlagIsHeard`), and so every counted ping, and the one
whose count is read and not yet written, was missed
(`LostIsMissed`).  The proofs are
in `ChatClientProofs`, about `HB == INSTANCE Heartbeat` over the same server,
connections and socket; they assume of `MaxPing` and `MaxConnect` what
`HeartbeatAssumption` does.

**Known.**  The comment above `MessageHandler.handleDisconnect` names a lost
connection; when writing to the server throws, the ping thread ends without
calling it, and only a server that is silent leads there.

## 13. Backends

**Code.**  `ZookeeperService` with its watches and its cache of `/backends`,
`ThriftPool`, and the callers of `SendMessageTemplate`.  A backend is the port
in the node's data; the pool is keyed by `url - PORT_DISTANCE`.  The four
semaphores of the code are the one boxed zero of the virtual machine, so they
are one lock.  Opening a connection happens under it, and whatever throws there
releases it, the pool part filled (`OpenFails`, `ReadFails`).  A notice is a
blocking call inside the monitor of its connection (`Send`, `Answered`), with
no timeout.  Which backend the hash
of `NodeUtil` finds is left open, the answer `null` included (its loop looks up
the position in the list, not the node at it, `NodeUtil:78`).

**Checked** (`backends_pool`: two senders and the event thread, two backends
10 and 17, so that the key of one is the url of the other; one change of each
node; one backend down at a time; two notices at once while ZooKeeper is
unchanged; deadlock checked).  `PoolServesTheList`: as long as nothing changed
and all could be reached, the filled pool is the list, and a notice misses its
connection only while another thread is filling.  `NotifiedIsRead`: a change
that fires a watch reaches the cache.  `SilenceStaysLocal`: a notice that does not
end has a call to its own backend under way, its own or one it waits for; a
backend that never answers holds up no notice to another.

**Disagreement** (`backends_watch`).  After an event the watcher sets the
watch of `/connectors` again, whichever node it was for
(`ZookeeperService:206`); the comment at 204 says that a watch is used up by
one event and is registered again.  From the second change of `/backends` on
the list and the pool stay as they were: `ChangesArrive` is violated.

**Fairness.**  The event thread and the senders go on, and `open()` returns in
the end, with a connection or an exception; a call on a connection that the
pool has closed fails.  That a backend answers is not assumed: its socket has
no timeout (`ThriftPool:53`), so a call may stay for ever in the monitor of
its client (`SendMessageTemplate:69`).  Changes of ZooKeeper, and
backends that stop or start, stay optional.

**Proved, for any backends and senders.**  `BackendsInvariance`,
`BackendsTypeCorrect`, `PoolIsTheList`.  `TwoWatches` bounds what is pending (a watch that waits, an
event, or its handling), which types need; `Locked` and `Made` say who holds
the lock and that it has seen the pool; `Filled` adds the filler's rest to the
pool; `Targeted` and `RefusedWhileFilling` are about the senders.  The proofs
stand at the end of `ChatClientProofs`, about `BK == INSTANCE Backends` with
variables of its own; their hypothesis is `BK!Constants`, which is
`BackendsAssumption`, among it that `Null` is no set of backends.

## 14. What is only model-checked, and why

All liveness: fairness and ENABLED are out of the prover's reach.  That is
`AnswerIsHandled`, `LoginFollowsAnswers`, `SilenceIsNoticed`,
`CloseEndsThreads`, `NotifiedIsRead`, `SilenceStaysLocal`,
`ChangesArrive`, and the liveness half of `IsLink` (what was sent on a whole
stream is delivered); for these TLC's bounds, given above, stand.  Of
`LoginFollowsAnswers` and `IsLink` the safety half is proved
(`AcceptedCanSend`, `StepsOfLink`).  Every other property of a passing run is
a theorem.

Induction over data is proved without the library's induction theorems, which
take the predicate as a parameter: an induction is an argument about the least
element of a set of counterexamples (`LeastNumber`, `SizeInduction`,
`Counting`), and a recursive function exists because each of its values is
determined by those at smaller arguments (`Recursion`, `Unrolling`).  No module
has a RECURSIVE operator.

## 15. Not modelled

* `ContractService:829-945`, additions with signatures of their own:
  `addAddition` appears in `Contract` as what it does to the role rows of the
  contract.  The calls on an addition repeat those on the contract, statement
  by statement, over its own rows.  Templates only copy text.
* Descriptive columns of affairs, searches, permissions and the role a user
  acts with: checks and joins without a state of their own.
* Jedis pool: a borrow and a return per command behind one lock.  The one
  hazard is in a single method (`RedisTemplate:59` throws with the lock held
  if the pool could not be created).
* Alliance users: the pattern of `Membership` over other tables.  Friends:
  reads and inserts; nothing closes an application, so there is no invariant
  to break.  Tasks, files, notices and users: single rows; the call of each
  that another component depends on is an action there (`addTask` in
  `AffairTree`, `editBaseInfo` in `CacheableDao`).
* Utilities, web layer, entities, chat storage, admin module: no state, or no
  order the callers depend on.
* Generated stubs and the front end: the only JavaScript of the repository is
  the Swagger UI with its libraries, which is third-party.
