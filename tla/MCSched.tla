------------------------------ MODULE MCSched ------------------------------
(* Small instances of Sched for TLC. *)
EXTENDS Sched

\* Every process but idle may be killed.
MCKillable == Pid \ {Idle}
\* Killed at any moment of its life.
MCAnyState == {"Ready", "Blocked", "Dead"}
\* Killed only while it is queued to run, or after its exit.
MCNotParked == {"Ready", "Dead"}

=============================================================================
