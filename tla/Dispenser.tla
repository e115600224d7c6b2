------------------------------ MODULE Dispenser ------------------------------
(***************************************************************************)
(* What a pool promises: a value is held by one client at a time.  Nothing *)
(* is said of how the pool finds a value nobody holds.                     *)
(***************************************************************************)
CONSTANTS
  Clients,  \* who is given values
  Values    \* what there is to give

VARIABLE held  \* client -> the values it holds

Init == held = [c \in Clients |-> {}]

Give(c, v) ==
  /\ \A d \in Clients : v \notin held[d]
  /\ held' = [held EXCEPT ![c] = @ \union {v}]

GiveBack(c, v) ==
  /\ v \in held[c]
  /\ held' = [held EXCEPT ![c] = @ \ {v}]

Next == \E c \in Clients, v \in Values : Give(c, v) \/ GiveBack(c, v)

Spec == Init /\ [][Next]_held

\* No value is held twice.
Exclusive == \A c, d \in Clients : c # d => held[c] \cap held[d] = {}
=============================================================================
