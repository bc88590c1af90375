---------------------------- MODULE CapacityPool ----------------------------
(***************************************************************************)
(* What a session registry promises to its users, without its semaphore,   *)
(* its map or its counter: at most Capacity members at a time, and a       *)
(* member that left never comes back (identifiers are not reused).         *)
(***************************************************************************)
EXTENDS Naturals, FiniteSets

CONSTANTS Member,      \* the identifiers the pool may ever hand out
          Capacity     \* the largest number of simultaneous members

VARIABLES live,        \* identifiers registered now
          retired      \* identifiers that were registered and left

vars == <<live, retired>>

Init == live = {} /\ retired = {}

Admit(m) ==
  /\ m \notin live \cup retired
  /\ Cardinality(live) < Capacity
  /\ live' = live \cup {m}
  /\ UNCHANGED retired

(* One removal, or a drain or reap of several at once. *)
Retire(gone) ==
  /\ gone # {}
  /\ live' = live \ gone
  /\ retired' = retired \cup gone

Next == \/ \E m \in Member : Admit(m)
        \/ \E gone \in SUBSET live : Retire(gone)

Spec == Init /\ [][Next]_vars

=============================================================================
