------------------------------ MODULE Backends ------------------------------
(***************************************************************************)
(* How the server finds its notice backends and keeps a connection to each *)
(* of them: ZookeeperService with its cache of the node /backends and its  *)
(* watchers, ThriftPool, and the callers of SendMessageTemplate.           *)
(* ZooKeeper and the backends are external.  A backend is the port in the  *)
(* node's data, on one host; its thrift server listens PORT_DISTANCE below *)
(* it, and the pool is keyed by that port.  The four semaphores are boxed  *)
(* zeros, one object: one lock.  Each connection's client is a monitor of  *)
(* its own.  Which listed backend the hash of NodeUtil finds, if any, is   *)
(* left open.                                                              *)
(***************************************************************************)
EXTENDS Integers, Sequences, FiniteSets

CONSTANTS
    Backend,
    Sender,     \* threads that send notices
    MaxChange,  \* bound: changes of /backends and of /connectors
    Null

PORT_DISTANCE == 7

Constants ==
    /\ Backend \subseteq Nat /\ \A b \in Backend : b >= PORT_DISTANCE
    /\ MaxChange \in Nat
    /\ "watcher" \notin Sender /\ Null \notin Sender \cup {"watcher"}
    /\ \A S \in SUBSET Backend : Null \notin {S, {b - PORT_DISTANCE : b \in S}}

ASSUME BackendsAssumption == Constants

Thread == Sender \cup {"watcher"}
Path   == {"backends", "connectors"}

VARIABLES
    data,     \* ZooKeeper: the backends listed in the node
    version,  \* ZooKeeper: changes of the node
    touched,  \* ZooKeeper: changes of /connectors
    watches,  \* ZooKeeper: one-time watches of each path
    events,   \* watches that have fired, in order
    up,       \* the backends whose thrift server can be reached
    backEndsInfo,
    read,     \* history: the version backEndsInfo was read from
    pool,     \* the keys of _pool and _channel, Null before init
    lock,
    at,       \* the next statement of each thread
    todo,     \* the backends its loop has still to connect
    target,   \* the backend a sender has been given, Null when its channel is closed
    refused,  \* history: a notice has found no connection
    notified, \* history: the version of the last change that fired a watch
    causes    \* history: what a property may excuse

zookeeper == <<data, version, touched, watches, events>>
cache     == <<backEndsInfo, read>>
threads   == <<at, todo, target>>
history   == <<refused, notified, causes>>
vars      == <<zookeeper, up, cache, pool, lock, threads, history>>

Key(b)    == b - PORT_DISTANCE
Keys      == {Key(b) : b \in Backend}
Place     == {"idle", "update", "client", "init", "fill", "lock",
              "refresh", "watch", "get", "send", "call"}

TypeOK ==
    /\ data \subseteq Backend /\ up \subseteq Backend
    /\ version \in 0..MaxChange /\ touched \in 0..MaxChange
    /\ watches \in [Path -> 0..2]
    /\ events \in Seq(Path)
    /\ backEndsInfo = Null \/ backEndsInfo \subseteq Backend
    /\ read \in 0..version
    /\ pool = Null \/ pool \subseteq Keys
    /\ lock \in Thread \cup {Null}
    /\ at \in [Thread -> Place]
    /\ todo \in [Thread -> SUBSET Backend]
    /\ target \in [Sender -> Backend \cup {Null}]
    /\ refused \in BOOLEAN
    /\ notified \in 0..version
    /\ causes \subseteq {"zookeeper", "unreachable", "filling"}

Init ==
    /\ data \in SUBSET Backend /\ up = Backend
    /\ version = 0 /\ touched = 0
    /\ watches = [p \in Path |-> 1] /\ events = <<>>
    /\ backEndsInfo = Null /\ read = 0
    /\ pool = Null
    /\ lock = Null
    /\ at = [t \in Thread |-> "idle"]
    /\ todo = [t \in Thread |-> {}]
    /\ target = [s \in Sender |-> Null]
    /\ refused = FALSE /\ notified = 0 /\ causes = {}

Excuse(cause)   == causes' = causes \cup {cause}
Goes(t, to)     == at' = [at EXCEPT ![t] = to]
Free            == lock = Null
Forget(t)       == target' = IF t \in Sender THEN [target EXCEPT ![t] = Null] ELSE target

-----------------------------------------------------------------------------
(* ZooKeeper and the backends                                              *)

Fire(p) ==
    /\ events' = events \o [i \in 1..watches[p] |-> p]
    /\ watches' = [watches EXCEPT ![p] = 0]

BackendsChange ==
    /\ version < MaxChange /\ version' = version + 1
    /\ data' \in SUBSET Backend \ {data}
    /\ Fire("backends")
    /\ notified' = IF watches["backends"] > 0 THEN version' ELSE notified
    /\ UNCHANGED <<touched, up, cache, pool, lock, threads, refused, causes>>

ConnectorsChange ==
    /\ touched < MaxChange /\ touched' = touched + 1
    /\ Fire("connectors")
    /\ UNCHANGED <<data, version, up, cache, pool, lock, threads, history>>

BackendStops(b) ==
    /\ b \in up /\ up' = up \ {b}
    /\ UNCHANGED <<zookeeper, cache, pool, lock, threads, history>>

BackendStarts(b) ==
    /\ b \notin up /\ up' = up \cup {b}
    /\ UNCHANGED <<zookeeper, cache, pool, lock, threads, history>>

-----------------------------------------------------------------------------
(* ThriftPool: the loops of init and updatePool, with the lock held        *)

(* getBackEndsInfo: read once, then only by the watcher.                   *)
KnowsBackends ==
    IF backEndsInfo = Null
    THEN backEndsInfo' = data /\ read' = version
    ELSE UNCHANGED cache

(* getClient and updatePool look at _pool before they take the lock.       *)
CheckPool(t) ==
    /\ at[t] = IF t = "watcher" THEN "update" ELSE "client"
    /\ Goes(t, IF pool = Null THEN "init" ELSE IF t = "watcher" THEN "lock" ELSE "get")
    /\ UNCHANGED <<zookeeper, up, cache, pool, lock, todo, target, history>>

(* What a thread does when the pool's code returns to it, or throws.       *)
AfterPool(t)  == IF t = "watcher" THEN "watch" ELSE "get"
AfterThrow(t) == IF t = "watcher" THEN "watch" ELSE "idle"

(* The empty pool is published before it is filled.  Who finds it made by  *)
(* another returns, the watcher too, whatever it was filled from.          *)
StartFill(t) ==
    /\ at[t] = "init" /\ Free
    /\ IF pool = Null
       THEN /\ lock' = t /\ pool' = {}
            /\ KnowsBackends
            /\ todo' = [todo EXCEPT ![t] = backEndsInfo']
            /\ Goes(t, "fill")
       ELSE Goes(t, AfterPool(t)) /\ UNCHANGED <<lock, pool, cache, todo>>
    /\ UNCHANGED <<zookeeper, up, target, history>>

StartRefresh ==
    /\ at["watcher"] = "lock" /\ Free
    /\ lock' = "watcher"
    /\ KnowsBackends
    /\ todo' = [todo EXCEPT !["watcher"] = backEndsInfo']
    /\ Goes("watcher", "refresh")
    /\ UNCHANGED <<zookeeper, up, pool, target, history>>

(* getData throws: the pool that has been published stays as it is, empty  *)
(* after init.                                                             *)
ReadFails(t) ==
    /\ backEndsInfo = Null /\ Free
    /\ \/ at[t] = "init" /\ pool = Null /\ pool' = {}
       \/ t = "watcher" /\ at[t] = "lock" /\ UNCHANGED pool
    /\ Goes(t, AfterThrow(t)) /\ Forget(t)
    /\ Excuse("zookeeper")
    /\ UNCHANGED <<zookeeper, up, cache, lock, todo, refused, notified>>

Loops(t) == at[t] \in {"fill", "refresh"} /\ todo[t] # {}

(* isOpen() of a connection the peer has closed stays true: it is left.    *)
KeepConnection(t, b) ==
    /\ Loops(t) /\ b \in todo[t] /\ Key(b) \in pool
    /\ todo' = [todo EXCEPT ![t] = @ \ {b}]
    /\ UNCHANGED <<zookeeper, up, cache, pool, lock, at, target, history>>

OpenConnection(t, b) ==
    /\ Loops(t) /\ b \in todo[t] /\ Key(b) \notin pool /\ b \in up
    /\ pool' = pool \cup {Key(b)}
    /\ todo' = [todo EXCEPT ![t] = @ \ {b}]
    /\ UNCHANGED <<zookeeper, up, cache, lock, at, target, history>>

(* open() throws: the loop ends where it is.  The watcher goes on, the     *)
(* sender returns false.                                                   *)
OpenFails(t, b) ==
    /\ Loops(t) /\ b \in todo[t] /\ Key(b) \notin pool /\ b \notin up
    /\ todo' = [todo EXCEPT ![t] = {}]
    /\ lock' = Null
    /\ Goes(t, AfterThrow(t))
    /\ Forget(t)
    /\ Excuse("unreachable")
    /\ UNCHANGED <<zookeeper, up, cache, pool, refused, notified>>

(* Wrong variant of EndFill: before the loop is at its end.                *)
EndFillEarly(t) ==
    /\ at[t] = "fill"
    /\ lock' = Null
    /\ Goes(t, AfterPool(t))
    /\ UNCHANGED <<zookeeper, up, cache, pool, todo, target, history>>

EndFill(t) ==
    /\ at[t] = "fill" /\ todo[t] = {}
    /\ lock' = Null
    /\ Goes(t, AfterPool(t))
    /\ UNCHANGED <<zookeeper, up, cache, pool, todo, target, history>>

(* The keys of the pool are looked up among the urls.                      *)
Unneeded == {k \in pool : k \notin backEndsInfo}

(* A notice on the connection that is closed comes to its end.             *)
Close(k) ==
    target' = [s \in Sender |->
                 IF at[s] \in {"send", "call"} /\ target[s] # Null /\ Key(target[s]) = k
                 THEN Null ELSE target[s]]

(* After the first removal the iterator throws, unless it is at its end:   *)
(* the exception leaves the watcher, which does not set its watch again.   *)
Prune ==
    /\ at["watcher"] = "refresh" /\ todo["watcher"] = {}
    /\ lock' = Null
    /\ \/ /\ Unneeded = {}
          /\ Goes("watcher", "watch") /\ UNCHANGED <<pool, target>>
       \/ \E k \in Unneeded :
          /\ pool' = pool \ {k} /\ Close(k)
          /\ \/ Unneeded = {k} /\ Goes("watcher", "watch")
             \/ pool # {k} /\ Goes("watcher", "idle")
    /\ UNCHANGED <<zookeeper, up, cache, todo, history>>

-----------------------------------------------------------------------------
(* The event thread of ZooKeeper in the watcher's process()                *)

(* Wrong variant of Notice: the node is not read again.                    *)
NoticeOnly ==
    /\ at["watcher"] = "idle" /\ events # <<>> /\ Free
    /\ events' = Tail(events)
    /\ Goes("watcher", "update")
    /\ UNCHANGED <<data, version, touched, watches, up, cache, pool, lock, todo, target, history>>

(* updateCache of the path that has changed; getData may fail.             *)
Notice ==
    /\ at["watcher"] = "idle" /\ events # <<>> /\ Free
    /\ events' = Tail(events)
    /\ \/ /\ Head(events) = "backends"
          /\ backEndsInfo' = data /\ read' = version
          /\ UNCHANGED causes
       \/ /\ Head(events) = "connectors" /\ UNCHANGED <<cache, causes>>
       \/ Head(events) = "backends" /\ Excuse("zookeeper") /\ UNCHANGED cache
    /\ Goes("watcher", "update")
    /\ UNCHANGED <<data, version, touched, watches, up, pool, lock, todo, target, refused, notified>>

(* Whatever has changed, the watch of /connectors is set; exists() may     *)
(* fail.                                                                   *)
WatchAgain ==
    /\ at["watcher"] = "watch"
    /\ \/ watches' = [watches EXCEPT !["connectors"] = @ + 1] /\ UNCHANGED causes
       \/ Excuse("zookeeper") /\ UNCHANGED watches
    /\ Goes("watcher", "idle")
    /\ UNCHANGED <<data, version, touched, events, up, cache, pool, lock, todo, target,
                   refused, notified>>

-----------------------------------------------------------------------------
(* SendMessageTemplate.sendNotice                                          *)

(* When getData throws, nothing has happened: the notice is given up.      *)
FindBackend(s) ==
    /\ at[s] = "idle"
    /\ backEndsInfo = Null => Free
    /\ KnowsBackends
    /\ \/ UNCHANGED <<at, target>>
       \/ \E b \in backEndsInfo' :
          /\ target' = [target EXCEPT ![s] = b]
          /\ Goes(s, "client")
    /\ UNCHANGED <<zookeeper, up, pool, lock, todo, history>>

Filling == \E t \in Thread : at[t] = "fill"

(* Wrong variant of LookUp: by the backend's port.                         *)
LookUpByPort(s) ==
    /\ at[s] = "get"
    /\ IF target[s] \in pool
       THEN Goes(s, "send") /\ UNCHANGED <<target, refused, causes>>
       ELSE /\ Goes(s, "idle") /\ Forget(s)
            /\ refused' = TRUE
            /\ causes' = IF Filling THEN causes \cup {"filling"} ELSE causes
    /\ UNCHANGED <<zookeeper, up, cache, pool, lock, todo, notified>>

(* No connection: an IllegalArgumentException.                             *)
LookUp(s) ==
    /\ at[s] = "get"
    /\ IF Key(target[s]) \in pool
       THEN Goes(s, "send") /\ UNCHANGED <<target, refused, causes>>
       ELSE /\ Goes(s, "idle") /\ Forget(s)
            /\ refused' = TRUE
            /\ causes' = IF Filling THEN causes \cup {"filling"} ELSE causes
    /\ UNCHANGED <<zookeeper, up, cache, pool, lock, todo, notified>>

Calls(s, b) == at[s] = "call" /\ target[s] = b

(* Wrong variant of Send: one monitor for all connections.                 *)
SendInTurn(s) ==
    /\ at[s] = "send" /\ \A u \in Sender : at[u] # "call"
    /\ Goes(s, "call")
    /\ UNCHANGED <<zookeeper, up, cache, pool, lock, todo, target, history>>

(* synchronized (client): one call at a time on each connection.           *)
Send(s) ==
    /\ at[s] = "send" /\ (target[s] # Null => \A u \in Sender : ~Calls(u, target[s]))
    /\ Goes(s, "call")
    /\ UNCHANGED <<zookeeper, up, cache, pool, lock, todo, target, history>>

(* The backend has answered, or the call has failed; no timeout ends it.   *)
Answered(s) ==
    /\ at[s] = "call"
    /\ Goes(s, "idle") /\ Forget(s)
    /\ UNCHANGED <<zookeeper, up, cache, pool, lock, todo, history>>

-----------------------------------------------------------------------------
UsesPool(t) ==
    \/ CheckPool(t) \/ StartFill(t) \/ ReadFails(t) \/ EndFill(t)
    \/ \E b \in Backend : KeepConnection(t, b) \/ OpenConnection(t, b) \/ OpenFails(t, b)

Watcher     == Notice \/ UsesPool("watcher") \/ StartRefresh \/ Prune \/ WatchAgain
Proceeds(s) ==
    UsesPool(s) \/ LookUp(s) \/ Send(s) \/ (Calls(s, Null) /\ Answered(s))

Next ==
    \/ BackendsChange \/ ConnectorsChange
    \/ \E b \in Backend : BackendStops(b) \/ BackendStarts(b)
    \/ Watcher
    \/ \E s \in Sender : FindBackend(s) \/ Proceeds(s) \/ Answered(s)

(* The event thread and the senders go on; open() returns in the end, and  *)
(* a call does when its channel is closed.  A backend need not answer.     *)
Fairness == WF_vars(Watcher) /\ \A s \in Sender : WF_vars(Proceeds(s))

Spec == Init /\ [][Next]_vars /\ Fairness

-----------------------------------------------------------------------------
Undisturbed == version = 0 /\ touched = 0 /\ "unreachable" \notin causes

(* As long as nothing has changed in ZooKeeper and every backend could be  *)
(* reached, the filled pool has a connection to each listed backend and to *)
(* no other, and no notice finds its connection missing, unless the pool   *)
(* was read while another thread was filling it.                           *)
PoolServesTheList ==
    Undisturbed =>
        /\ pool # Null /\ lock = Null => pool = {Key(b) : b \in backEndsInfo}
        /\ refused => "filling" \in causes

(* A change that fires a watch reaches the cache, unless ZooKeeper fails.  *)
NotifiedIsRead ==
    \A v \in 1..MaxChange : notified = v ~> read >= v \/ "zookeeper" \in causes

(* A backend that stays silent holds up the notices to it, for its call    *)
(* has no timeout and keeps the client's monitor, but no other: a notice   *)
(* comes to its end unless a call to its own backend is under way, again   *)
(* or still, for ever.                                                     *)
SilenceStaysLocal ==
    \A s \in Sender :
        at[s] # "idle" ~> at[s] = "idle" \/ \E u \in Sender : Calls(u, target[s])

(* A watch is good for one event and has to be set again: every change of  *)
(* the node is read in the end.  The watch that is set again is the one of *)
(* the other node.                                                         *)
ChangesArrive ==
    \A v \in 1..MaxChange : version = v ~> read >= v \/ "zookeeper" \in causes

-----------------------------------------------------------------------------
(* What the proof needs beside the property: an inductive invariant.       *)

(* Two watches have been set; each is waiting, has become an event, or is  *)
(* being handled by the event thread, which sets one again.                *)
TwoWatches ==
    watches["backends"] + watches["connectors"] + Len(events)
        + (IF at["watcher"] = "idle" THEN 0 ELSE 1) <= 2

(* The lock is held by the thread that is in one of the two loops, and     *)
(* only the watcher is ever in the second.                                 *)
Locked ==
    /\ \A t \in Thread : lock = t <=> at[t] \in {"fill", "refresh"}
    /\ \A s \in Sender : at[s] # "refresh"

(* Who holds the lock, or waits to refresh the pool, has seen it made.     *)
Made == lock # Null \/ at["watcher"] = "lock" => pool # Null

Quiet == events = <<>> /\ at["watcher"] = "idle"

KeysOf(S) == {Key(b) : b \in S}

(* The pool and what its filler has still to connect are the list.         *)
Filled ==
    pool # Null =>
        /\ backEndsInfo # Null
        /\ lock = Null => pool = KeysOf(backEndsInfo)
        /\ lock # Null => /\ todo[lock] \subseteq backEndsInfo
                          /\ pool \cup KeysOf(todo[lock]) = KeysOf(backEndsInfo)

(* A sender looks for a listed backend in a pool that has been made.       *)
Targeted ==
    \A s \in Sender :
        /\ at[s] \in {"client", "init", "fill", "get"} =>
             backEndsInfo # Null /\ target[s] \in backEndsInfo
        /\ at[s] = "get" => pool # Null

RefusedWhileFilling == refused => "filling" \in causes

IInv ==
    /\ TypeOK /\ TwoWatches /\ Locked /\ Made
    /\ Undisturbed => Quiet /\ Filled /\ Targeted /\ RefusedWhileFilling
=============================================================================
