--------------------------- MODULE MCOfflineQueue ---------------------------
(* Instances of OfflineQueue for TLC. *)
EXTENDS OfflineQueue, TLC

CONSTANT TicksPerDay

MCDayOf == [t \in 0 .. MaxTime |-> t \div TicksPerDay]

\* The properties say nothing once two uses of the queue have overlapped.
Apart == ~overlapped

Symmetry == Permutations(Taps) \cup Permutations(Syncs) \cup Permutations(Employees)
=============================================================================
