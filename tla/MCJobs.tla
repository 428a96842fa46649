------------------------------- MODULE MCJobs -------------------------------
(***************************************************************************)
(* Small instances of the lifecycle engine for TLC.                        *)
(***************************************************************************)
EXTENDS JobProperties, TLC

\* Jobs that contend for an ordering slot (1) and one of two scope slots.
SharedPermits == [j \in Jobs |-> {{1, 2}, {1, 3}}]

NoPermits == [j \in Jobs |-> {{}}]

NoExpiry == {NoTime}
SomeExpiry == {NoTime, 1}

ProcSymmetry == Permutations(Procs)
JobProcSymmetry == Permutations(Procs) \cup Permutations(Jobs)

=============================================================================
