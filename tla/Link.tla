-------------------------------- MODULE Link --------------------------------
(***************************************************************************)
(* What the chat client expects of the stream it reads from: on one        *)
(* connection the messages of the server arrive in the order they were     *)
(* sent, each once, until the stream is broken; a new connection begins    *)
(* with nothing sent.  A broken stream hands over anything.                *)
(***************************************************************************)
EXTENDS Naturals, Sequences

CONSTANT Message

VARIABLES
    sent,      \* what the server has sent on this connection
    received,  \* what the client has been given
    broken     \* the client no longer knows where a message begins

vars == <<sent, received, broken>>

Init ==
    /\ sent = <<>> /\ received = <<>>
    /\ broken = FALSE

Send(m) ==
    /\ sent' = Append(sent, m)
    /\ UNCHANGED <<received, broken>>

Pending == Len(received) < Len(sent)

Receive ==
    /\ ~broken /\ Pending
    /\ received' = Append(received, sent[Len(received) + 1])
    /\ UNCHANGED <<sent, broken>>

(* The last message arrives, or none does, and the stream breaks.          *)
Break ==
    /\ broken' = TRUE
    /\ \/ UNCHANGED received
       \/ ~broken /\ Pending /\ received' = Append(received, sent[Len(received) + 1])
       \/ broken
    /\ UNCHANGED sent

Reconnect ==
    /\ sent' = <<>> /\ received' = <<>>
    /\ broken' \in BOOLEAN

Next ==
    \/ \E m \in Message : Send(m)
    \/ Receive \/ Break \/ Reconnect

Spec == Init /\ [][Next]_vars /\ WF_vars(Receive)
=============================================================================
