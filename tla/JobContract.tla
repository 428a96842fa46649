---------------------------- MODULE JobContract ----------------------------
(***************************************************************************)
(* What bg-jobs promises about one job, whatever the processes, the store  *)
(* and the failures do: it moves atomically between a few statuses, every  *)
(* hand-over of execution authority opens a new epoch, and a requested     *)
(* cancellation is never lost to a completion, a retry or a new claim.     *)
(***************************************************************************)
EXTENDS Naturals

CONSTANT Jobs

VARIABLES
  status,  \* where each job is in its life
  epoch,   \* the fence of its latest execution authority
  wanted   \* whether cancellation of its current lease is requested

vars == <<status, epoch, wanted>>

Init ==
  /\ status = [j \in Jobs |-> "absent"]
  /\ epoch = [j \in Jobs |-> 0]
  /\ wanted = [j \in Jobs |-> FALSE]

Move(j, from, to) ==
  /\ status[j] \in from
  /\ status' = [status EXCEPT ![j] = to]

Submit(j) == Move(j, {"absent"}, "scheduled") /\ UNCHANGED <<epoch, wanted>>

Claim(j) ==
  /\ ~wanted[j]
  /\ Move(j, {"scheduled", "leased"}, "leased")
  /\ epoch' = [epoch EXCEPT ![j] = @ + 1]
  /\ UNCHANGED wanted

\* Completion, continuation, retry and recovery of an expired lease.
Settle(j) ==
  /\ ~wanted[j]
  /\ Move(j, {"leased"}, "absent") \/ Move(j, {"leased"}, "scheduled")
  /\ UNCHANGED <<epoch, wanted>>

RequestCancellation(j) ==
  /\ status[j] = "leased"
  /\ wanted' = [wanted EXCEPT ![j] = TRUE]
  /\ UNCHANGED <<status, epoch>>

End(j) ==
  /\ \/ Move(j, {"scheduled", "leased", "suspended"}, "cancelled")
     \/ Move(j, {"scheduled", "leased"}, "dead")
  /\ wanted' = [wanted EXCEPT ![j] = FALSE]
  /\ UNCHANGED epoch

Park(j) ==
  /\ \/ Move(j, {"scheduled"}, "suspended")
     \/ Move(j, {"suspended", "dead"}, "scheduled")
  /\ UNCHANGED <<epoch, wanted>>

Next ==
  \E j \in Jobs :
    Submit(j) \/ Claim(j) \/ Settle(j) \/ RequestCancellation(j) \/ End(j) \/ Park(j)

Spec == Init /\ [][Next]_vars

=============================================================================
