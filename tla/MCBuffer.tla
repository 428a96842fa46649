------------------------------ MODULE MCBuffer ------------------------------
(***************************************************************************)
(* Instances of the buffered-writes engine.                                *)
(***************************************************************************)
EXTENDS BufferProperties, TLC

OneScope == [r \in Records |-> 1]
UnitCost == [r \in Records |-> 2]
Sym == Permutations(Records) \cup Permutations(Callers)

\* A request left behind and a drain are explored with one fault; faults in
\* pairs meet every other step.
FaultsApart ==
  faults <= 1 \/ (orphans = {} /\ \A n \in Nodes : drain[n] = NoDrain)

Init == EngineInit
Spec == EngineSpec

\* Leases that nobody works under run out while the turns are idle, so that a
\* bounded clock is not spent early.
LeaseHeld ==
  \/ \E r \in Records : store.open[r].fence # NoFence /\ store.open[r].until > now
  \/ \E b \in Batches : store.sealed[b].until > now
PatientTick == Tick /\ LeaseHeld /\ \A n \in Nodes : turn[n] = NoTurn

ProgressNext ==
  \/ \E c \in Callers : CallerNext(c)
  \/ \E n \in Nodes : TurnNext(n) \/ Crash(n)
  \/ PatientTick

CallerStep(c) == Stage(c) \/ AppendOnce(c) \/ StartSyncTurn(c) \/ SyncReturn(c)

\* The driver runs a turn whenever one is due and a turn's steps end; a record
\* that stays becomes old enough to be eligible; callers are polled.
ProgressSpec ==
  /\ Init /\ [][ProgressNext]_engineVars
  /\ \A n \in Nodes :
       /\ WF_engineVars(TurnNext(n))
       /\ SF_engineVars(Look(n) /\ (Unsettled(store) # {} => turn'[n].open))
       /\ SF_engineVars(Claim(n) /\ turn'[n].pc \in {"permit", "seal"})
  /\ \A c \in Callers : SF_engineVars(CallerStep(c))
  /\ SF_engineVars(PatientTick)
=============================================================================
