---------------------------- MODULE AtMostOnce ----------------------------
(***************************************************************************)
(* What a LAN packet codec pair promises to the layers above it: a frame   *)
(* that the sender sealed may be lost, reordered or duplicated on its way, *)
(* but its plaintext is handed over at most once, and nothing else is.     *)
(***************************************************************************)
EXTENDS Naturals

CONSTANT Frame

VARIABLES sealed, handed

vars == <<sealed, handed>>

Init ==
  /\ sealed = {}
  /\ handed = [f \in Frame |-> 0]

Seal(f) ==
  /\ f \notin sealed
  /\ sealed' = sealed \cup {f}
  /\ UNCHANGED handed

HandOver(f) ==
  /\ f \in sealed
  /\ handed[f] = 0
  /\ handed' = [handed EXCEPT ![f] = 1]
  /\ UNCHANGED sealed

Next == \E f \in Frame : Seal(f) \/ HandOver(f)

Spec == Init /\ [][Next]_vars
=============================================================================
