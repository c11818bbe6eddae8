----------------------------- MODULE Heartbeat ------------------------------
(***************************************************************************)
(* The ping threads of notice.chat.ChatClient, one per connection, and the *)
(* two flags they share with the listener.  A ping and its timeout take    *)
(* any time, and so does a PONG, which the listener may also find late     *)
(* because it sleeps or is busy with a message.  The threads share the     *)
(* flags and the count of lost pings without a lock: each statement that   *)
(* reads or writes one of them is a step.  Connecting takes three, between *)
(* which another thread may close.  Requests and the handling of other     *)
(* messages are ChatClient's.                                              *)
(***************************************************************************)
EXTENDS Integers, FiniteSets

CONSTANTS
    MaxConnect, \* bound: connections
    MaxPing     \* bound: pings under way

Conn == 1..MaxConnect

ASSUME HeartbeatAssumption == MaxConnect \in Nat /\ MaxPing \in Nat \ {0}

VARIABLES
    peer,          \* the server (external): it answers, is silent, or writing to it throws
    pinged,        \* pings it has yet to answer
    pongs,         \* PONGs the listener has yet to handle
    conn,          \* connections made
    socket,        \* "none" is the null of closeConnect
    connecting,    \* what connectChatServer has yet to do: "login", "pings" or "no"thing
    pinger,        \* the next statement of the ping thread of a connection
    signal,        \* pingThreadSignal
    pingSuccess,
    failPingCount, \* 4 stands for every larger number
    counted,       \* the count a thread has read and not yet written back
    disconnects,   \* history: calls of handleDisconnect; 2 stands for more
    heard,         \* history: a PONG was handled since the ping the thread waits for
    missed,        \* history: pings that timed out unheard; 3 stands for more
    causes         \* history: what a property may excuse

server  == <<peer, pinged, pongs>>
client  == <<conn, socket, connecting>>
beat    == <<pinger, signal, pingSuccess, failPingCount, counted, disconnects>>
history == <<heard, missed, causes>>
vars    == <<server, client, beat, history>>

Running == {n \in Conn : pinger[n] # "off"}

Statement == {"off", "head", "sleep", "reset", "wait", "count", "store", "compare", "close"}

TypeOK ==
    /\ peer \in {"answering", "silent", "gone"}
    /\ pinged \in 0..MaxPing /\ pongs \in 0..MaxPing
    /\ conn \in 0..MaxConnect /\ socket \in {"none", "open", "closed"}
    /\ connecting \in {"no", "login", "pings"}
    /\ connecting # "no" => conn # 0
    /\ pinger \in [Conn -> Statement]
    /\ signal \in BOOLEAN /\ pingSuccess \in BOOLEAN
    /\ failPingCount \in 0..4 /\ counted \in [Conn -> 0..4] /\ disconnects \in 0..2
    /\ heard \in [Conn -> BOOLEAN] /\ missed \in 0..3
    /\ causes \subseteq {"earlyPong", "twoThreads", "closedConnecting"}

Init ==
    /\ peer = "answering" /\ pinged = 0 /\ pongs = 0
    /\ conn = 0 /\ socket = "none" /\ connecting = "no"
    /\ pinger = [n \in Conn |-> "off"] /\ counted = [n \in Conn |-> 0]
    /\ signal = FALSE /\ pingSuccess = FALSE /\ failPingCount = 0 /\ disconnects = 0
    /\ heard = [n \in Conn |-> FALSE] /\ missed = 0 /\ causes = {}

-----------------------------------------------------------------------------
(* connectChatServer, by the application or for a redirect, one at a time. *)
(* connectSocket closes the old socket first, as ConnectFails does.        *)
ConnectSocket ==
    /\ connecting = "no" /\ conn < MaxConnect
    /\ conn' = conn + 1 /\ socket' = "open" /\ connecting' = "login"
    /\ peer' = "answering" /\ pinged' = 0 /\ pongs' = 0
    /\ UNCHANGED <<beat, history>>

(* The new server cannot be reached, the old socket is closed.             *)
ConnectFails ==
    /\ connecting = "no" /\ socket = "open" /\ socket' = "closed"
    /\ UNCHANGED <<server, conn, connecting, beat, history>>

(* isConnected() stays true on a closed socket; the write throws instead.  *)
Writable == socket = "open" /\ peer # "gone"

(* The sign-in that cannot be written throws out of connectChatServer.     *)
LoginServer ==
    /\ connecting = "login"
    /\ connecting' = IF Writable THEN "pings" ELSE "no"
    /\ UNCHANGED <<server, conn, socket, beat, history>>

(* The signal and the start of the thread, which looks at it; a thread     *)
(* that still runs goes on.                                                *)
StartPings ==
    /\ connecting = "pings" /\ connecting' = "no"
    /\ signal' = TRUE
    /\ pinger' = [pinger EXCEPT ![conn] = "head"]
    /\ causes' = IF Running # {} THEN causes \cup {"twoThreads"} ELSE causes
    /\ UNCHANGED <<server, conn, socket, pingSuccess, failPingCount, counted, disconnects,
                   heard, missed>>

(* Wrong variant of CloseConnect: the signal stays on.                     *)
CloseSocketOnly ==
    /\ socket' = "none" /\ UNCHANGED signal
    /\ causes' = IF connecting = "no" THEN causes ELSE causes \cup {"closedConnecting"}

CloseConnect ==
    /\ socket' = "none" /\ signal' = FALSE
    /\ causes' = IF connecting = "no" THEN causes ELSE causes \cup {"closedConnecting"}

(* By the application.  On a null socket it throws, the signal set.        *)
Close ==
    /\ CloseConnect
    /\ UNCHANGED <<server, conn, connecting, pinger, pingSuccess, failPingCount, counted,
                   disconnects, heard, missed>>

ServerPongs ==
    /\ peer = "answering" /\ pinged > 0 /\ pongs < MaxPing
    /\ pinged' = pinged - 1 /\ pongs' = pongs + 1
    /\ UNCHANGED <<peer, client, beat, history>>

ServerFails ==
    /\ peer' \in (IF peer = "answering" THEN {"silent", "gone"} ELSE {"gone"}) \ {peer}
    /\ UNCHANGED <<pinged, pongs, client, beat, history>>

(* A PONG that comes before the thread has reset the flag is forgotten.    *)
ListenPong ==
    /\ socket = "open" /\ pongs > 0
    /\ pongs' = pongs - 1
    /\ pingSuccess' = TRUE
    /\ heard' = [n \in Conn |-> pinger[n] \in {"reset", "wait"}]
    /\ causes' = IF \E n \in Conn : pinger[n] = "reset" THEN causes \cup {"earlyPong"} ELSE causes
    /\ UNCHANGED <<peer, pinged, client, pinger, signal, failPingCount, counted, disconnects, missed>>

-----------------------------------------------------------------------------
(* The statements of a ping thread.  One that throws begins again.         *)
Goes(n, from, to) == pinger[n] = from /\ pinger' = [pinger EXCEPT ![n] = to]

Look(n) ==
    /\ Goes(n, "head", IF signal THEN "sleep" ELSE "off")
    /\ UNCHANGED <<server, client, signal, pingSuccess, failPingCount, counted, disconnects, history>>

Ping(n) ==
    /\ IF Writable
       THEN /\ Goes(n, "sleep", "reset")
            /\ pinged' = IF pinged = MaxPing THEN pinged ELSE pinged + 1
       ELSE Goes(n, "sleep", "head") /\ UNCHANGED pinged
    /\ UNCHANGED <<peer, pongs, client, signal, pingSuccess, failPingCount, counted, disconnects,
                   history>>

(* Wrong variant of ResetPing: an old PONG counts for the next ping.       *)
ResetNothing(n) ==
    /\ Goes(n, "reset", "wait")
    /\ UNCHANGED <<server, client, signal, pingSuccess, failPingCount, counted, disconnects, history>>

ResetPing(n) ==
    /\ Goes(n, "reset", "wait")
    /\ pingSuccess' = FALSE
    /\ UNCHANGED <<server, client, signal, failPingCount, counted, disconnects, history>>

PingTimeout(n) ==
    /\ Goes(n, "wait", IF pingSuccess THEN "head" ELSE "count")
    /\ missed' = IF heard[n] \/ missed = 3 THEN missed ELSE missed + 1
    /\ heard' = [heard EXCEPT ![n] = FALSE]
    /\ UNCHANGED <<server, client, signal, pingSuccess, failPingCount, counted, disconnects, causes>>

(* failPingCount++ reads the count and writes it back.                     *)
ReadCount(n) ==
    /\ Goes(n, "count", "store")
    /\ counted' = [counted EXCEPT ![n] = failPingCount]
    /\ UNCHANGED <<server, client, signal, pingSuccess, failPingCount, disconnects, history>>

WriteCount(n) ==
    /\ Goes(n, "store", "compare")
    /\ failPingCount' = IF counted[n] = 4 THEN 4 ELSE counted[n] + 1
    /\ counted' = [counted EXCEPT ![n] = 0]
    /\ UNCHANGED <<server, client, signal, pingSuccess, disconnects, history>>

(* Wrong variant of Compare: at the second lost ping.                      *)
CompareTwo(n) ==
    /\ Goes(n, "compare", IF failPingCount = 2 THEN "close" ELSE "head")
    /\ UNCHANGED <<server, client, signal, pingSuccess, failPingCount, counted, disconnects, history>>

Compare(n) ==
    /\ Goes(n, "compare", IF failPingCount = 3 THEN "close" ELSE "head")
    /\ UNCHANGED <<server, client, signal, pingSuccess, failPingCount, counted, disconnects, history>>

(* On the null that another closeConnect has left it throws:               *)
(* handleDisconnect is not called.                                         *)
GiveUp(n) ==
    /\ Goes(n, "close", "head")
    /\ CloseConnect
    /\ disconnects' = IF socket = "none" \/ disconnects = 2 THEN disconnects ELSE disconnects + 1
    /\ UNCHANGED <<server, conn, connecting, pingSuccess, failPingCount, counted, heard, missed>>

Beat(n) == \/ Look(n) \/ Ping(n) \/ ResetPing(n) \/ PingTimeout(n)
           \/ ReadCount(n) \/ WriteCount(n) \/ Compare(n) \/ GiveUp(n)

Next ==
    \/ ConnectSocket \/ ConnectFails \/ LoginServer \/ StartPings \/ Close
    \/ ServerPongs \/ ServerFails \/ ListenPong
    \/ \E n \in Conn : Beat(n)

(* The threads go on; the listener handles what has arrived.               *)
Spec == Init /\ [][Next]_vars /\ WF_vars(ListenPong) /\ \A n \in Conn : WF_vars(Beat(n))

-----------------------------------------------------------------------------
(* The client gives a server up only after three pings without a PONG,     *)
(* unless a PONG came before the flag was reset or two threads shared the  *)
(* flag and the count.                                                     *)
Alone == causes \cap {"earlyPong", "twoThreads"} = {}
DisconnectIsEarned == disconnects > 0 /\ Alone => missed = 3

(* A server that falls silent under one ping thread is given up, the first *)
(* time: the count of lost pings is never set back and passes 3 only once. *)
(* Two threads may write it from 2 to 4 before either compares.            *)
Silent(n) ==
    /\ conn = n /\ socket = "open" /\ peer = "silent" /\ pinger[n] # "off"
    /\ "twoThreads" \notin causes

SilenceIsNoticed ==
    \A n \in Conn : Silent(n) /\ failPingCount < 3 ~> disconnects > 0 \/ ~Silent(n)

(* closeConnect ends the ping threads, unless the client connects again    *)
(* before a thread has looked at the flag, or was connecting: then the     *)
(* thread is started behind the close.                                     *)
CloseEndsThreads ==
    \A n \in Conn : conn = n /\ socket = "none" /\ "closedConnecting" \notin causes
                      ~> Running = {} \/ conn # n \/ "closedConnecting" \in causes

(* Unless excused there is one ping thread; when it has reset the flag, a  *)
(* PONG that was heard since the ping is in the flag; every ping that was  *)
(* counted as lost, and the one that is being counted, has been missed;    *)
(* and the thread closes at a count of three.                              *)
OneThread   == \A m, n \in Running : m = n
FlagIsHeard == \A n \in Conn : /\ pinger[n] # "wait" => ~heard[n]
                               /\ pinger[n] = "wait" /\ heard[n] => pingSuccess
LostIsMissed ==
    /\ failPingCount <= missed \/ missed = 3
    /\ \A n \in Conn :
         /\ pinger[n] \in {"count", "store"} => failPingCount < missed \/ missed = 3
         /\ pinger[n] = "store" => counted[n] = failPingCount
         /\ pinger[n] = "close" => failPingCount = 3
    /\ disconnects > 0 => missed = 3

IInv == TypeOK /\ (Alone => OneThread /\ FlagIsHeard /\ LostIsMissed)
=============================================================================
