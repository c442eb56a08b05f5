---------------------------- MODULE MCAttendance ----------------------------
(* Small instances of Attendance and of the reports about it for TLC. *)
EXTENDS Reports, TLC

CONSTANTS TicksPerDay

\* Days of TicksPerDay instants each.
MCDayOf == [t \in 0 .. MaxTime |-> t \div TicksPerDay]

\* Every request from a device of its own.
OwnDevice == [r \in Requests |-> r]

Symmetry == Permutations(Requests)
=============================================================================
