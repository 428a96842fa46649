------------------------------- MODULE MCDrive -------------------------------
(***************************************************************************)
(* Small instances of the drives for TLC.                                  *)
(***************************************************************************)
EXTENDS DriveProperties

\* Jobs 1 and 2 share an ordering key and a primary scope, 3 is low-volume
\* bulk work, 4 a bulk job of another primary.
MixedScopes == (1 :> <<1>>) @@ (2 :> <<1, 1>>) @@ (3 :> Low) @@ (4 :> <<2>>)
MixedPriorities == (1 :> 0) @@ (2 :> 1) @@ (3 :> 2) @@ (4 :> 2)
OrderedPair == (1 :> 1) @@ (2 :> 1) @@ (3 :> 0) @@ (4 :> 0)
UnitCosts == [j \in 1..4 |-> 1]
\* The registrations of 1 and 2 agree on the weight of their primary, or not.
Weights == (1 :> 2) @@ (2 :> 2) @@ (3 :> 1) @@ (4 :> 1)
OpposedWeights == (1 :> 2) @@ (2 :> 1) @@ (3 :> 1) @@ (4 :> 1)
\* Two builds during a deployment: the older one does not know job 2.
EveryBuild == [d \in Drives |-> {1, 2, 3}]
TwoBuilds == [d \in Drives |-> IF d = CHOOSE x \in Drives : TRUE THEN {1, 3} ELSE {1, 2, 3}]
\* Job 3 is larger than a request admits.
OneLarge == (1 :> 1) @@ (2 :> 1) @@ (3 :> 4) @@ (4 :> 1)
SmallBytes == [j \in 1..4 |-> 1]
\* Job 3 expires at time 1 or never.
OneExpires == (1 :> 9) @@ (2 :> 9) @@ (3 :> 1) @@ (4 :> 9)

Spec == DriveInit /\ [][DriveNext]_driveVars
=============================================================================
