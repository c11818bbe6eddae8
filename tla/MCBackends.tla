----------------------------- MODULE MCBackends -----------------------------
(* Model checking of Backends: two backends of one host, the key of the    *)
(* second being the url of the first.                                      *)
EXTENDS Backends

Senders == {s \in Sender : at[s] # "idle"}

(* One backend at a time is down.  Once a node has changed, two notices    *)
(* are under way only while both backends are up, and one once both nodes  *)
(* have.                                                                   *)
Bound ==
    /\ Cardinality(up) >= Cardinality(Backend) - 1
    /\ version + touched > 0 => Cardinality(Senders) <= 1 \/ up = Backend
    /\ version + touched > 1 => Cardinality(Senders) <= 1
=============================================================================
