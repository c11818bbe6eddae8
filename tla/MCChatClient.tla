---------------------------- MODULE MCChatClient ----------------------------
EXTENDS ChatClient

(* At most one thing goes wrong: the stream breaks, the server fails, the  *)
(* socket is closed, an answer comes early, a SIGN_IN is refused, a        *)
(* handler throws, a request has the name of another call.                 *)
Faults == <<broken, peer # "answering", conn > 0 /\ socket # "open", early # {}, refused # {},
            thrown # {}, \E r \in Request : SameName(r)>>
Bound  == Cardinality({i \in 1..Len(Faults) : Faults[i]}) <= 1
=============================================================================
