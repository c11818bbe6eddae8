----------------------------- MODULE ChatClient -----------------------------
(***************************************************************************)
(* The connections and requests of notice.chat.ChatClient over a Link, the *)
(* stream that the listener and its Composer make of the socket.  Callers  *)
(* send requests, the listener hands the answers to the handlers in        *)
(* requestCache and follows redirects.  A request is named by the user and *)
(* the millisecond.  The server (external) answers, redirects, falls       *)
(* silent or is gone: then writing to it throws.  The handlers of requests *)
(* are the application's and may throw.  Messages without an effect on     *)
(* this state (MSG, BUMPED, NEW_LOGIN, PONG) are left out; the ping        *)
(* threads, which may close the connection, are Heartbeat.  requestCache   *)
(* is a HashMap that callers and listeners share without a lock: here each *)
(* get, put and remove is one step.                                        *)
(***************************************************************************)
EXTENDS Integers, Sequences, FiniteSets

CONSTANTS
    Request,    \* requests of callers, each sent once
    MaxTime,    \* bound: milliseconds
    MaxConnect, \* bound: connections
    None

Time == 0..MaxTime
Conn == 1..MaxConnect
Call == Request \cup Conn      \* a connection's own call is its SIGN_IN

ASSUME ChatAssumption ==
    /\ MaxTime \in Nat /\ MaxConnect \in Nat
    /\ Request \cap Conn = {} /\ None \notin Call

Answer  == [type : {"RESPONSE", "ERROR"}, to : Call]
Message == Answer \cup {[type |-> "REDIRECT"]}

VARIABLES
    sent, received, broken, \* the Link
    peer,          \* the server at the other end
    asked,         \* what it has read and not answered
    now,           \* the millisecond of the last call
    conn,          \* connections made
    socket,        \* "none" is the null of closeConnect
    login,         \* loginSuccess
    step,          \* of each call: the next statement of the method
    id,            \* the millisecond that names it
    requestCache,  \* the call whose handler waits under a name
    handling,      \* of the listener of each connection: the call whose handler it is in
    resting,       \* the listeners that sleep in the handler of a refused SIGN_IN
    got,           \* history: the calls whose answers a handler was given
    on,            \* history: the connection a call was written on
    early,         \* history: calls answered before their handler was cached
    accepted,      \* history: SIGN_IN calls whose handler was told so
    refused,
    thrown         \* history: calls whose handler threw

link    == <<sent, received, broken>>
server  == <<peer, asked>>
calls   == <<login, step, id, requestCache, handling, resting>>
answers == <<got, early, accepted, refused, thrown>>
vars    == <<link, server, now, conn, socket, calls, on, answers>>

In == INSTANCE Link

TypeOK ==
    /\ sent \in Seq(Message) /\ received \in Seq(Message) /\ broken \in BOOLEAN
    /\ peer \in {"answering", "silent", "gone"}
    /\ asked \subseteq Call
    /\ now \in Time /\ conn \in 0..MaxConnect
    /\ socket \in {"none", "open", "closed"}
    /\ login \in BOOLEAN
    /\ step \in [Call -> {"new", "write", "put", "done", "failed", "dropped"}]
    /\ id \in [Call -> Time]
    /\ requestCache \in [Time -> Call \cup {None}]
    /\ handling \in [Conn -> Call \cup {None}]
    /\ resting \subseteq {n \in Conn : handling[n] # None}
    /\ got \in [Call -> SUBSET Call] /\ early \subseteq Call
    /\ on \in [Call -> 0..MaxConnect]
    /\ accepted \subseteq Conn /\ refused \subseteq Conn /\ thrown \subseteq Call

Init ==
    /\ In!Init
    /\ peer = "answering" /\ asked = {}
    /\ now = 0 /\ conn = 0 /\ socket = "none"
    /\ login = FALSE
    /\ step = [c \in Call |-> "new"] /\ id = [c \in Call |-> 0]
    /\ requestCache = [t \in Time |-> None]
    /\ handling = [n \in Conn |-> None] /\ resting = {}
    /\ got = [c \in Call |-> {}] /\ early = {}
    /\ on = [c \in Call |-> 0]
    /\ accepted = {} /\ refused = {} /\ thrown = {}

(* The millisecond of a call is that of the last one or a later one.       *)
Names(c) ==
    /\ now' \in {now, now + 1} \cap Time
    /\ id' = [id EXCEPT ![c] = now']
    /\ step' = [step EXCEPT ![c] = "write"]

-----------------------------------------------------------------------------
(* The server                                                              *)

ServerAnswers(c) ==
    /\ peer = "answering" /\ c \in asked
    /\ asked' = asked \ {c}
    /\ \E type \in {"RESPONSE", "ERROR"} : In!Send([type |-> type, to |-> c])
    /\ UNCHANGED <<peer, now, conn, socket, calls, on, answers>>

ServerRedirects ==
    /\ peer = "answering" /\ conn \in 1 .. MaxConnect - 1
    /\ \A i \in 1..Len(sent) : sent[i].type # "REDIRECT"
    /\ In!Send([type |-> "REDIRECT"])
    /\ UNCHANGED <<server, now, conn, socket, calls, on, answers>>

ServerFails ==
    /\ peer' \in (IF peer = "answering" THEN {"silent", "gone"} ELSE {"gone"})
    /\ UNCHANGED <<link, asked, now, conn, socket, calls, on, answers>>

-----------------------------------------------------------------------------
(* Connections.  Whether the Composer begins between two messages is left  *)
(* to the Link.                                                            *)

Opened ==
    /\ conn' = conn + 1 /\ socket' = "open"
    /\ In!Reconnect
    /\ peer' = "answering" /\ asked' = {}
    /\ login' = TRUE
    /\ Names(conn')

(* No server at the address: the old socket is closed all the same.        *)
NotOpened ==
    /\ socket' = IF socket = "open" THEN "closed" ELSE socket
    /\ UNCHANGED <<link, conn, peer, asked, login, step, id, now>>

(* The application connects from one thread.                               *)
Connect ==
    /\ conn < MaxConnect
    /\ \A n \in Conn : step[n] \notin {"write", "put"}
    /\ Opened \/ NotOpened
    /\ UNCHANGED <<requestCache, handling, resting, on, answers>>

CloseConnect ==
    /\ socket = "open" /\ socket' = "none"
    /\ UNCHANGED <<link, server, now, conn, calls, on, answers>>

-----------------------------------------------------------------------------
(* Requests: sendMessage, messageQuery, getUnreadMessageCount              *)

Name(r) ==
    /\ step[r] = "new" /\ login /\ conn > 0
    /\ Names(r)
    /\ UNCHANGED <<link, server, conn, socket, login, requestCache, handling, resting, on, answers>>

(* sendMessage looks at the socket first and says nothing.                 *)
SendNothing(r) ==
    /\ step[r] = "new" /\ conn > 0 /\ socket # "open"
    /\ step' = [step EXCEPT ![r] = "dropped"]
    /\ UNCHANGED <<link, server, now, conn, socket, login, id, requestCache, handling, resting, on, answers>>

Writable == socket = "open" /\ peer # "gone"

(* A write that throws leaves the method: there is no handler in the cache *)
(* and, for SIGN_IN, no ping thread.                                       *)
Write(c) ==
    /\ step[c] = "write"
    /\ IF Writable
       THEN /\ step' = [step EXCEPT ![c] = "put"]
            /\ asked' = asked \cup {c} /\ on' = [on EXCEPT ![c] = conn]
       ELSE step' = [step EXCEPT ![c] = "failed"] /\ UNCHANGED <<asked, on>>
    /\ UNCHANGED <<link, peer, now, conn, socket, login, id, requestCache, handling, resting, answers>>

(* Wrong variant of Put: the handler is cached under the present time.     *)
PutNow(c) ==
    /\ step[c] = "put"
    /\ step' = [step EXCEPT ![c] = "done"]
    /\ requestCache' = [requestCache EXCEPT ![now] = c]
    /\ UNCHANGED <<link, server, now, conn, socket, login, id, handling, resting, on, answers>>

Put(c) ==
    /\ step[c] = "put"
    /\ step' = [step EXCEPT ![c] = "done"]
    /\ requestCache' = [requestCache EXCEPT ![id[c]] = c]
    /\ UNCHANGED <<link, server, now, conn, socket, login, id, handling, resting, on, answers>>

-----------------------------------------------------------------------------
(* The listeners, one per connection.  That of an earlier connection goes  *)
(* on, from the new socket, unless closeConnect has stopped it.            *)

(* What a listener that is in no handler is given next: the message that   *)
(* follows, or, when the stream is broken, any that comes after it.        *)
Given(n) ==
    {k \in Len(received) + 1 .. Len(sent) :
        /\ n \in 1..conn /\ handling[n] = None /\ socket = "open"
        /\ k = Len(received) + 1 \/ broken}

Receive(k) == received' = SubSeq(sent, 1, k) /\ UNCHANGED <<sent, broken>>

(* Wrong variant of HandlerOf: that of the last call is taken for its own. *)
HandlerOfLast(c) == requestCache[now]

HandlerOf(c) == requestCache[id[c]]

(* Wrong variant of Rests: any handler that is told of an error.           *)
RestsAlways(handler) == TRUE

Rests(handler) == handler \in Conn

(* The handler found under the name is called.  The one of a SIGN_IN sets  *)
(* loginSuccess, or sleeps when it was refused.                            *)
AnswerOf(n, k) ==
    /\ sent[k].type # "REDIRECT"
    /\ Receive(k)
    /\ LET c       == sent[k].to
           handler == HandlerOf(c)
           login1  == {handler} \cap Conn
       IN  /\ early' = IF step[c] = "put" THEN early \cup {c} ELSE early
           /\ IF handler = None
              THEN UNCHANGED <<got, handling, login, resting, accepted, refused>>
              ELSE /\ handling' = [handling EXCEPT ![n] = handler]
                   /\ got' = [got EXCEPT ![handler] = @ \cup {c}]
                   /\ IF sent[k].type = "RESPONSE"
                      THEN /\ accepted' = accepted \cup login1
                           /\ login' = (login \/ login1 # {})
                           /\ UNCHANGED <<refused, resting>>
                      ELSE /\ refused' = refused \cup login1
                           /\ resting' = IF Rests(handler) THEN resting \cup {n} ELSE resting
                           /\ UNCHANGED <<accepted, login>>
    /\ UNCHANGED <<server, now, conn, socket, step, id, requestCache, on, thrown>>

ListenAnswer(n) == \E k \in Given(n) : AnswerOf(n, k)

(* Wrong variant of Wake: the handler forgets loginSuccess.                *)
WakeOnly(n) ==
    /\ n \in resting /\ resting' = resting \ {n}
    /\ UNCHANGED <<link, server, now, conn, socket, login, step, id, requestCache, handling, on,
                   answers>>

(* It tells the application (loginFail) and takes back loginSuccess.       *)
Wake(n) ==
    /\ n \in resting /\ resting' = resting \ {n}
    /\ login' = FALSE
    /\ UNCHANGED <<link, server, now, conn, socket, step, id, requestCache, handling, on, answers>>

(* Wrong variant of Remove: the handler stays in the cache.                *)
RemoveNothing(t) == UNCHANGED requestCache

Remove(t) == requestCache' = [requestCache EXCEPT ![t] = None]

(* When the handler has returned, what has the name is removed.            *)
HandlerReturns(n) ==
    /\ handling[n] # None /\ n \notin resting
    /\ Remove(id[handling[n]])
    /\ handling' = [handling EXCEPT ![n] = None]
    /\ UNCHANGED <<link, server, now, conn, socket, login, step, id, resting, on, answers>>

(* What the application throws, in the handler of a request or loginFail,  *)
(* ends the read: nothing is removed, and messages behind it may be lost.  *)
HandlerThrows(n) ==
    /\ handling[n] \in Request \/ n \in resting
    /\ handling' = [handling EXCEPT ![n] = None] /\ resting' = resting \ {n}
    /\ thrown' = thrown \cup {handling[n]}
    /\ broken' \in {broken, TRUE}
    /\ UNCHANGED <<sent, received, server, now, conn, socket, login, step, id, requestCache, on,
                   got, early, accepted, refused>>

(* A listener connects to the next server itself; an exception of that is  *)
(* taken for a message in a wrong format.                                  *)
ListenRedirect(n) == \E k \in Given(n) :
    /\ sent[k].type = "REDIRECT" /\ conn < MaxConnect
    /\ \/ Opened
       \/ Receive(k) /\ socket' = "closed" /\ UNCHANGED <<conn, peer, asked, login, step, id, now>>
    /\ UNCHANGED <<requestCache, handling, resting, on, answers>>

LinkBreaks ==
    /\ socket = "open" /\ ~broken
    /\ broken' = TRUE
    /\ UNCHANGED <<sent, received, server, now, conn, socket, calls, on, answers>>

Listen(n) == ListenAnswer(n) \/ ListenRedirect(n)

Handle(n) == Wake(n) \/ HandlerReturns(n) \/ HandlerThrows(n)

-----------------------------------------------------------------------------
Next ==
    \/ Connect \/ CloseConnect
    \/ \E c \in Call : ServerAnswers(c)
    \/ ServerRedirects \/ ServerFails
    \/ \E r \in Request : Name(r) \/ SendNothing(r)
    \/ \E c \in Call : Write(c) \/ Put(c)
    \/ \E n \in Conn : Listen(n) \/ Handle(n)
    \/ LinkBreaks

(* Every thread goes on, and so does a server that answers; of the         *)
(* listeners the latest is sure to be there.  Handlers return or throw.    *)
Fairness ==
    /\ \A c \in Call : WF_vars(Write(c)) /\ WF_vars(Put(c)) /\ WF_vars(ServerAnswers(c))
    /\ \A n \in Conn : WF_vars(n = conn /\ Listen(n)) /\ WF_vars(Handle(n))

Spec == Init /\ [][Next]_vars /\ Fairness

-----------------------------------------------------------------------------
SameName(c) == \E d \in Call \ {c} : step[d] \in {"put", "done"} /\ id[d] = id[c]

(* A handler is given the answer to its own call, unless two calls were    *)
(* named in one millisecond.                                               *)
OwnAnswer == \A c \in Call : got[c] \subseteq {c} \/ SameName(c)

(* Nothing waits in the cache in vain: the answer is asked for, on its way *)
(* or being handled, unless it came before put(), another call has the     *)
(* name, the handler threw, the connection was replaced or its stream      *)
(* broke.                                                                  *)
OnItsWay(c) ==
    \/ c \in asked
    \/ \E i \in Len(received) + 1 .. Len(sent) : sent[i].type # "REDIRECT" /\ sent[i].to = c
    \/ \E n \in Conn : handling[n] = c

NothingWaitsInVain ==
    \A t \in Time : \A c \in Call :
        requestCache[t] = c =>
            \/ OnItsWay(c)
            \/ c \in early \/ SameName(c) \/ c \in thrown \/ on[c] # conn \/ broken

(* On a connection that lasts and is whole every call the server has read  *)
(* gets its answer, unless the answer is faster than put() or another call *)
(* has the name.                                                           *)
Lasts == socket = "open" /\ ~broken /\ peer = "answering"

AnswerIsHandled ==
    \A c \in Call :
        c \in asked /\ Lasts
            ~> c \in got[c] \/ c \in early \/ SameName(c) \/ ~Lasts \/ on[c] # conn

(* A connection whose SIGN_IN was accepted can be used, unless an earlier  *)
(* one was refused, whose handler sleeps and then takes back loginSuccess, *)
(* or a call with the same name was: its answer is taken for this one's.   *)
AcceptedIsUsable ==
    conn \in accepted => login \/ (\E n \in refused : n < conn) \/ SameName(conn)

(* A SIGN_IN counts as it was answered.  A refused one ends in             *)
(* NotLoginException for the requests to come, unless the client has       *)
(* connected again, another SIGN_IN was accepted or loginFail threw.       *)
LoginFollowsAnswers ==
    /\ []AcceptedIsUsable
    /\ \A n \in Conn :
         n \in refused /\ conn = n ~> ~login \/ conn # n \/ accepted # {} \/ n \in thrown
=============================================================================
