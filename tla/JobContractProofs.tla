-------------------------- MODULE JobContractProofs --------------------------
(***************************************************************************)
(* The engine implements JobContract: every step of the store is one step  *)
(* of the contract.  The difficulty is the fence.  A claim computes it     *)
(* from an operation key that its transaction does not check, and may be   *)
(* applied long after; it is right all the same because the job value the  *)
(* transaction does check cannot come back once it was replaced (Past).    *)
(***************************************************************************)
EXTENDS JobLifecycleProofs

\* The job value r of job j was replaced, and cannot come back.
Past(j, r) ==
  rows[j].job = NoJob \/ rows[j].job.exec # r.exec \/ rows[j].job.rev > r.rev

Stands(j, r) == rows[j].job = r

\* A claim that can still be applied opens the next epoch.
Aimed(tx) ==
  tx.kind = "claim" =>
    /\ tx.old # NoJob
    /\ \/ Past(tx.job, tx.old)
       \/ Stands(tx.job, tx.old) /\ tx.new.lease.fence = rows[tx.job].op.fence + 1

CallTracked(c) ==
  /\ c.phase = "claiming" => c.old # NoJob /\ (Past(c.job, c.old) \/ Stands(c.job, c.old))
  /\ InFlight(c) => Aimed(c.tx)
LateTracked(tx) == tx # NoTx => Aimed(tx)

Tracked == \A p \in Procs : CallTracked(call[p]) /\ LateTracked(limbo[p])

\* A replaced job value does not come back.
LEMMA PastStays ==
  ASSUME IInv, NEW tx, GoodTx(tx), Applied(tx), NEW j \in Jobs, NEW r \in Record,
         r.exec \notin Novel(tx), Past(j, r)
  PROVE  Past(j, r)'
<1>1. /\ tx \in Tx /\ Identity(tx) /\ Succeeds(tx.old, tx.new)
      /\ rows[tx.job].job = tx.old /\ rows'[tx.job].job = tx.new
      /\ \A i \in Jobs \ {tx.job} : rows'[i] = rows[i]
  BY AppliedFacts DEF Outcome
<1>2. CASE j # tx.job
  BY <1>1, <1>2 DEF Past
<1>3. CASE j = tx.job
  <2>1. tx.new = NoJob \/ tx.new.exec = tx.old.exec \/ tx.new.exec \in Novel(tx)
    BY <1>1 DEF Identity, Novel, RecordIds
  <2>2. tx.old \in Record /\ tx.new \in Record /\ r.rev \in Nat
    BY <1>1 DEF Tx, Record
  <2>3. tx.old.rev \in Nat /\ tx.new.rev \in Nat
    BY <2>2 DEF Record
  <2>4. tx.old = NoJob \/ tx.old.exec # r.exec \/ tx.old.rev > r.rev
    BY <1>1, <1>3 DEF Past
  <2>5. tx.new = NoJob \/ tx.new.exec # r.exec \/ tx.new.rev > r.rev
    <3>1. CASE tx.new = tx.old \/ tx.new = NoJob
      BY <2>4, <3>1
    <3>2. CASE tx.old = NoJob /\ tx.new.exec # NoId
      BY <2>1, <3>2 DEF NoJob
    <3>3. CASE tx.old # NoJob /\ tx.new.rev = tx.old.rev + 1
      BY <2>1, <2>2, <2>3, <2>4, <3>3
    <3> QED
      BY <1>1, <3>1, <3>2, <3>3 DEF Succeeds
  <2> QED
    BY <1>1, <1>3, <2>5 DEF Past
<1> QED
  BY <1>2, <1>3

\* A job value that stands is replaced for good, or stays with its fence.
LEMMA StandsMoves ==
  ASSUME IInv, NEW tx, GoodTx(tx), Applied(tx), NEW j \in Jobs, NEW r \in Record,
         r # NoJob, Stands(j, r)
  PROVE  Past(j, r)' \/ (Stands(j, r)' /\ rows'[j].op.fence = rows[j].op.fence)
<1>1. /\ tx \in Tx /\ Identity(tx) /\ Succeeds(tx.old, tx.new)
      /\ Moves(tx.kind, rows[tx.job], rows'[tx.job])
      /\ rows[tx.job].job = tx.old /\ rows'[tx.job].job = tx.new
      /\ \A i \in Jobs \ {tx.job} : rows'[i] = rows[i]
  BY AppliedFacts DEF Outcome
<1>2. CASE j # tx.job
  BY <1>1, <1>2 DEF Stands
<1>3. CASE j = tx.job
  <2>1. r = tx.old /\ r.rev \in Nat
    BY <1>1, <1>3 DEF Stands, Record
  <2>2. CASE tx.new = tx.old
    <3>1. tx.kind # "claim"
      BY <1>1, <2>2 DEF Identity, RecordIds
    <3> QED
      BY <1>1, <1>3, <2>1, <2>2, <3>1 DEF Stands, Moves
  <2>3. CASE tx.new # tx.old
    BY <1>1, <1>3, <2>1, <2>3 DEF Succeeds, Past
  <2> QED
    BY <2>2, <2>3
<1> QED
  BY <1>2, <1>3

\* Whatever tracks the rows goes on tracking them when a transaction is applied
\* that does not bring its execution in.
LEMMA TracksOn ==
  ASSUME IInv, NEW tx, GoodTx(tx), Applied(tx), NEW j \in Jobs, NEW r \in Record,
         r # NoJob, r.exec \notin Novel(tx), Past(j, r) \/ Stands(j, r)
  PROVE  \/ Past(j, r)'
         \/ Stands(j, r) /\ Stands(j, r)' /\ rows'[j].op.fence = rows[j].op.fence
  BY PastStays, StandsMoves

\* A claim in flight keeps its aim.
LEMMA AimStays ==
  ASSUME IInv, NEW tx, GoodTx(tx), Applied(tx), NEW other \in Tx,
         other.old.exec \notin Novel(tx), Aimed(other)
  PROVE  Aimed(other)'
<1> SUFFICES ASSUME other.kind = "claim" PROVE Aimed(other)'
  BY DEF Aimed
<1>1. other.job \in Jobs /\ other.old \in Record /\ other.old # NoJob
  BY DEF Aimed, Tx
<1>2. CASE Past(other.job, other.old)
  BY <1>1, <1>2, PastStays DEF Aimed
<1>3. CASE Stands(other.job, other.old) /\ other.new.lease.fence = rows[other.job].op.fence + 1
  BY <1>1, <1>3, StandsMoves DEF Aimed
<1> QED
  BY <1>2, <1>3 DEF Aimed

\* What a process tracks beside the transaction that is applied, it tracks on.
LEMMA CallTracksOn ==
  ASSUME IInv, NEW tx, GoodTx(tx), Applied(tx), NEW c \in Calls,
         \A i \in Novel(tx) : ~NamedByCall(c, i), CallTracked(c)
  PROVE  CallTracked(c)'
<1>1. c.phase = "claiming" => c \in [phase : {"claiming"}, job : Jobs, old : Record,
                                    viaDue : BOOLEAN, at : Int]
  BY DEF Calls, Idle, CommitPhases
<1>2. c.phase \in CommitPhases => c \in CommitCall
  BY DEF Calls, Idle, CommitPhases, CommitCall
<1>3. CASE c.phase = "claiming"
  <2>1. c.job \in Jobs /\ c.old \in Record /\ c.old.exec \notin Novel(tx)
    BY <1>1, <1>3 DEF NamedByCall, RecordIds
  <2>2. ~InFlight(c)
    BY <1>3 DEF InFlight, CommitPhases
  <2> QED
    BY <1>3, <2>1, <2>2, TracksOn DEF CallTracked
<1>4. CASE InFlight(c)
  <2>1. c.tx \in Tx /\ c.tx.old.exec \notin Novel(tx) /\ c.phase # "claiming"
    BY <1>2, <1>4 DEF NamedByCall, RecordIds, InFlight, CommitCall, CommitPhases
  <2> QED
    BY <1>4, <2>1, AimStays DEF CallTracked
<1> QED
  BY <1>3, <1>4 DEF CallTracked

\* A transaction left behind tracks its record through another one being applied.
LEMMA LateTracksOn ==
  ASSUME IInv, NEW tx, GoodTx(tx), Applied(tx), NEW late \in Tx \cup {NoTx},
         \A i \in Novel(tx) : ~NamedByLate(late, i), LateTracked(late)
  PROVE  LateTracked(late)'
<1>1. CASE late = NoTx
  BY <1>1 DEF LateTracked
<1>2. CASE late # NoTx
  <2>1. late \in Tx /\ late.old.exec \notin Novel(tx)
    BY <1>2 DEF NamedByLate, RecordIds
  <2> QED
    BY <1>2, <2>1, AimStays DEF LateTracked
<1> QED
  BY <1>1, <1>2

\* Tracking looks at job values and fences only.
LEMMA TrackedFrame ==
  ASSUME \A j \in Jobs : rows'[j].job = rows[j].job /\ rows'[j].op = rows[j].op,
         NEW c \in Calls, NEW late \in Tx \cup {NoTx}
  PROVE  (CallTracked(c) => CallTracked(c)') /\ (LateTracked(late) => LateTracked(late)')
<1>1. ASSUME NEW tx \in Tx, Aimed(tx) PROVE Aimed(tx)'
  BY <1>1 DEF Aimed, Past, Stands, Tx
<1>2. c.phase = "claiming" => c.job \in Jobs
  BY DEF Calls, Idle, CommitPhases
<1>3. InFlight(c) => c.tx \in Tx
  BY DEF Calls, Idle, CommitPhases, InFlight
<1> QED
  BY <1>1, <1>2, <1>3 DEF CallTracked, LateTracked, Past, Stands

\* A step of the commit protocol.
LEMMA ShapedTracked ==
  ASSUME UInv, Tracked, NEW p \in Procs, Shaped(p)
  PROVE  Tracked'
<1>0. IInv /\ TypeOK /\ Touches(p) /\ Inherits(p) /\ Only(p)
  BY ShapedTouches DEF UInv, IInv, Shaped
<1>1. \A q \in Procs : call[q] \in Calls /\ limbo[q] \in Tx \cup {NoTx}
  BY <1>0 DEF TypeOK
<1>2. \A q \in Procs \ {p} : call'[q] = call[q] /\ limbo'[q] = limbo[q]
  BY <1>0 DEF Only
<1>3. \A q \in Procs : CallTracked(call[q]) /\ LateTracked(limbo[q])
  BY DEF Tracked
<1>4. ASSUME NEW q \in Procs, NEW c, call'[q] = c, CallTracked(c)'
      PROVE  CallTracked(call[q])'
  BY <1>4
<1>5. ASSUME NEW q \in Procs, NEW late, limbo'[q] = late, LateTracked(late)'
      PROVE  LateTracked(limbo[q])'
  BY <1>5
<1>6. CASE SameStore
  <2>1. ASSUME NEW c \in Calls, NEW late \in Tx \cup {NoTx}
        PROVE  (CallTracked(c) => CallTracked(c)') /\ (LateTracked(late) => LateTracked(late)')
    BY <1>6, TrackedFrame DEF SameStore
  <2>2. \A q \in Procs \ {p} : CallTracked(call[q])' /\ LateTracked(limbo[q])'
    BY <1>1, <1>2, <1>3, <1>4, <1>5, <2>1
  <2>3. CallTracked(call[p])'
    <3>1. CASE call'[p].phase = "claiming"
      <4>1. CASE call'[p] = call[p]
        BY <1>1, <1>3, <1>4, <2>1, <4>1
      <4>2. CASE call'[p] # call[p]
        <5>1. PICK j \in Jobs, viaDue \in BOOLEAN :
                rows[j].job # NoJob /\ call'[p] = Claiming(j, rows[j].job, viaDue, now)
          BY <1>0, <3>1, <4>2 DEF Inherits
        <5>2. rows'[j].job = rows[j].job
          BY <1>6 DEF SameStore
        <5> QED
          BY <5>1, <5>2 DEF CallTracked, Claiming, Stands, InFlight, CommitPhases
      <4> QED
        BY <4>1, <4>2
    <3>2. CASE InFlight(call'[p])
      <4>1. InFlight(call[p]) /\ Like(call'[p].tx, call[p].tx)
        BY <1>0, <3>2 DEF Inherits
      <4>2. CallTracked(call[p]) /\ call[p] \in Calls
        BY <1>1, <1>3
      <4>3. Aimed(call[p].tx) /\ call[p].phase # "claiming" /\ call'[p].phase # "claiming"
        BY <3>2, <4>1, <4>2 DEF CallTracked, InFlight, CommitPhases
      <4>4. Aimed(call'[p].tx)
        BY <4>1, <4>3 DEF Aimed, Like
      <4>5. rows' = rows
        BY <1>6 DEF SameStore
      <4> QED
        BY <4>3, <4>4, <4>5 DEF CallTracked, Aimed, Past, Stands
    <3>3. CASE call'[p].phase # "claiming" /\ ~InFlight(call'[p])
      BY <3>3 DEF CallTracked, InFlight
    <3> QED
      BY <3>1, <3>2, <3>3
  <2>4. LateTracked(limbo[p])'
    <3>1. CASE limbo'[p] = NoTx
      BY <3>1 DEF LateTracked
    <3>2. CASE limbo'[p] = limbo[p]
      BY <1>1, <1>3, <1>5, <2>1, <3>2
    <3>3. CASE InFlight(call[p]) /\ limbo'[p] = call[p].tx
      <4>1. Aimed(call[p].tx)
        BY <1>3, <3>3 DEF CallTracked
      <4>2. rows' = rows
        BY <1>6 DEF SameStore
      <4> QED
        BY <3>3, <4>1, <4>2 DEF LateTracked, Aimed, Past, Stands
    <3> QED
      BY <1>0, <3>1, <3>2, <3>3 DEF Inherits
  <2> QED
    BY <2>2, <2>3, <2>4 DEF Tracked
<1>7. CASE /\ InFlight(call[p]) /\ Applied(call[p].tx) /\ limbo'[p] = limbo[p]
           /\ ~InFlight(call'[p]) /\ call'[p].phase # "claiming"
  <2> DEFINE tx == call[p].tx
  <2>1. GoodTx(tx) /\ \A i \in Novel(tx) : Sole(p, i) /\ ~NamedByLate(limbo[p], i)
    BY <1>0, <1>7, SlotsGood, Foreign
  <2>2. ASSUME NEW q \in Procs \ {p}
        PROVE  CallTracked(call[q])' /\ LateTracked(limbo[q])'
    <3>1. \A i \in Novel(tx) : ~NamedByCall(call[q], i) /\ ~NamedByLate(limbo[q], i)
      BY <2>1 DEF Sole
    <3>2. ASSUME NEW c \in Calls, c = call[q] PROVE CallTracked(c)'
      BY <1>0, <1>3, <1>7, <2>1, <3>1, <3>2, CallTracksOn
    <3>3. ASSUME NEW late \in Tx \cup {NoTx}, late = limbo[q] PROVE LateTracked(late)'
      BY <1>0, <1>3, <1>7, <2>1, <3>1, <3>3, LateTracksOn
    <3> QED
      BY <1>1, <1>2, <1>4, <1>5, <3>2, <3>3
  <2>3. LateTracked(limbo[p])'
    <3>1. ASSUME NEW late \in Tx \cup {NoTx}, late = limbo[p] PROVE LateTracked(late)'
      BY <1>0, <1>3, <1>7, <2>1, <3>1, LateTracksOn
    <3> QED
      BY <1>1, <1>5, <1>7, <3>1
  <2>4. CallTracked(call[p])'
    BY <1>7 DEF CallTracked, InFlight
  <2> QED
    BY <2>2, <2>3, <2>4 DEF Tracked
<1>8. CASE limbo[p] # NoTx /\ Applied(limbo[p]) /\ limbo'[p] = NoTx /\ call'[p] = call[p]
  <2> DEFINE tx == limbo[p]
  <2>1. GoodTx(tx) /\ \A i \in Novel(tx) : Sole(p, i) /\ ~NamedByCall(call[p], i)
    BY <1>0, <1>8, SlotsGood, Foreign
  <2>2. ASSUME NEW q \in Procs
        PROVE  CallTracked(call[q])'
    <3>1. \A i \in Novel(tx) : ~NamedByCall(call[q], i)
      BY <2>1 DEF Sole
    <3>2. ASSUME NEW c \in Calls, c = call[q] PROVE CallTracked(c)'
      BY <1>0, <1>3, <1>8, <2>1, <3>1, <3>2, CallTracksOn
    <3> QED
      BY <1>1, <1>2, <1>4, <1>8, <3>2
  <2>3. ASSUME NEW q \in Procs \ {p}
        PROVE  LateTracked(limbo[q])'
    <3>1. \A i \in Novel(tx) : ~NamedByLate(limbo[q], i)
      BY <2>1 DEF Sole
    <3>2. ASSUME NEW late \in Tx \cup {NoTx}, late = limbo[q] PROVE LateTracked(late)'
      BY <1>0, <1>3, <1>8, <2>1, <3>1, <3>2, LateTracksOn
    <3> QED
      BY <1>1, <1>2, <1>5, <3>2
  <2>4. LateTracked(limbo[p])'
    BY <1>8 DEF LateTracked
  <2> QED
    BY <2>2, <2>3, <2>4 DEF Tracked
<1> QED
  BY <1>0, <1>6, <1>7, <1>8 DEF Touches

\* A transaction that is built: the fence was read from the row whose job value
\* the claim replaces, unless that value is gone already.
LEMMA BuiltTracked ==
  ASSUME UInv, Tracked, NEW p \in Procs, NEW tx, Built(p, tx), Begins(p, tx), StaleReads = FALSE
  PROVE  Tracked'
<1>1. IInv /\ Only(p) /\ SameStore /\ limbo'[p] = limbo[p] /\ call'[p] = Committing(tx)
  BY DEF UInv, Begins
<1>2. Aimed(tx)
  <2> SUFFICES ASSUME tx.kind = "claim" PROVE Aimed(tx)
    BY DEF Aimed
  <2>1. FromCandidate(p, tx) /\ tx \in Tx
    BY DEF Built, FromClaim, FromRow, GoodTx
  <2>2. CallTracked(call[p]) /\ call[p].phase = "claiming" /\ tx.job = call[p].job /\ tx.old = call[p].old
    BY <2>1 DEF Tracked, FromCandidate
  <2>3. tx.old # NoJob /\ (Past(tx.job, tx.old) \/ Stands(tx.job, tx.old))
    BY <2>2 DEF CallTracked
  <2>4. tx.new.lease.fence = NextFence(tx.old, rows[tx.job].op.fence)
    BY <2>1 DEF FromCandidate, FenceReads
  <2>5. tx.job \in Jobs /\ rows[tx.job].op.fence \in Nat /\ RowOK(rows[tx.job])
    BY <1>1, <2>1 DEF IInv, TypeOK, RowsCoherent, Tx, Row, Operation
  <2>6. CASE Stands(tx.job, tx.old)
    <3>1. tx.old.state = "leased" => tx.old.lease.fence = rows[tx.job].op.fence
      BY <2>5, <2>6 DEF Stands, RowOK
    <3> QED
      BY <2>3, <2>4, <2>5, <2>6, <3>1 DEF Aimed, NextFence, MaxOf
  <2>7. CASE Past(tx.job, tx.old)
    BY <2>3, <2>7 DEF Aimed
  <2> QED
    BY <2>3, <2>6, <2>7
<1>3. \A q \in Procs \ {p} : call'[q] = call[q] /\ limbo'[q] = limbo[q]
  BY <1>1 DEF Only
<1>4. rows' = rows
  BY <1>1 DEF SameStore
<1>5. CallTracked(call[p])'
  BY <1>1, <1>2, <1>4 DEF CallTracked, Committing, CommitPhases, Aimed, Past, Stands
<1>6. \A q \in Procs : CallTracked(call[q]) /\ LateTracked(limbo[q])
  BY DEF Tracked
<1>7. \A c, late : (CallTracked(c)' <=> CallTracked(c)) /\ (LateTracked(late)' <=> LateTracked(late))
  BY <1>4 DEF CallTracked, LateTracked, Aimed, Past, Stands
<1>8. \A q \in Procs : LateTracked(limbo[q])'
  BY <1>1, <1>3, <1>6, <1>7
<1>9. \A q \in Procs \ {p} : CallTracked(call[q])'
  BY <1>1, <1>3, <1>6, <1>7
<1> QED
  BY <1>5, <1>8, <1>9 DEF Tracked

-----------------------------------------------------------------------------
(* The invariant                                                           *)

TInv == UInv /\ Tracked

\* Nothing is tracked at first.
LEMMA TrackedInitial == Init => TInv
<1> SUFFICES ASSUME Init PROVE TInv
  OBVIOUS
<1>1. \A p \in Procs : call[p] = Idle /\ limbo[p] = NoTx
  BY DEF Init
<1>2. Tracked
  BY <1>1 DEF Tracked, CallTracked, LateTracked, InFlight, Idle, CommitPhases
<1> QED
  BY <1>2, UniqueInitial DEF TInv

\* Every step keeps it.
LEMMA TrackedInductive ==
  ASSUME StaleReads = FALSE, TInv, [Next]_vars
  PROVE  TInv'
<1>1. UInv' /\ UInv /\ IInv /\ Tracked
  BY UniqueInductive DEF TInv, UInv
<1>2. ASSUME (\E j \in Jobs : Damages(j)) \/ Waits
      PROVE  Tracked'
  <2>1. /\ call' = call /\ limbo' = limbo
        /\ \A j \in Jobs : rows'[j].job = rows[j].job /\ rows'[j].op = rows[j].op
    BY <1>1, <1>2 DEF IInv, TypeOK, Row, Damages, Waits, SameStore
  <2>2. \A p \in Procs : call[p] \in Calls /\ limbo[p] \in Tx \cup {NoTx}
    BY <1>1 DEF IInv, TypeOK
  <2>3. ASSUME NEW c \in Calls, NEW late \in Tx \cup {NoTx}
        PROVE  (CallTracked(c) => CallTracked(c)') /\ (LateTracked(late) => LateTracked(late)')
    BY <2>1, TrackedFrame
  <2>4. ASSUME NEW p \in Procs PROVE CallTracked(call[p])' /\ LateTracked(limbo[p])'
    <3>1. CallTracked(call[p]) /\ LateTracked(limbo[p]) /\ call'[p] = call[p] /\ limbo'[p] = limbo[p]
      BY <1>1, <2>1 DEF Tracked
    <3> QED
      BY <2>2, <2>3, <3>1
  <2> QED
    BY <2>4 DEF Tracked
<1>3. Tracked'
  BY <1>1, <1>2, Shapes, ShapedTracked, BuiltTracked
<1> QED
  BY <1>1, <1>3 DEF TInv

\* A transaction the store may apply now.
Pending(tx) ==
  \E p \in Procs : \/ InFlight(call[p]) /\ tx = call[p].tx
                   \/ limbo[p] # NoTx /\ tx = limbo[p]

\* Rows as they were, but for damaged payloads.
Still ==
  \A j \in Jobs : /\ rows'[j].job = rows[j].job /\ rows'[j].op = rows[j].op
                  /\ rows'[j].canc = rows[j].canc /\ (rows'[j].payload => rows[j].payload)

\* A step applies one pending transaction or none.
LEMMA StoreSteps ==
  ASSUME IInv, [Next]_vars
  PROVE  Still \/ \E tx : Pending(tx) /\ GoodTx(tx) /\ Applied(tx)
<1>1. SameStore => Still
  BY DEF SameStore, Still
<1>2. ASSUME NEW j \in Jobs, Damages(j) PROVE Still
  BY <1>2 DEF IInv, TypeOK, Row, Damages, Still
<1>3. ASSUME NEW p \in Procs, Shaped(p)
      PROVE  SameStore \/ \E tx : Pending(tx) /\ GoodTx(tx) /\ Applied(tx)
  <2>1. CASE InFlight(call[p]) /\ Applied(call[p].tx)
    BY <2>1, SlotsGood DEF Pending
  <2>2. CASE limbo[p] # NoTx /\ Applied(limbo[p])
    BY <2>2, SlotsGood DEF Pending
  <2> QED
    BY <1>3, <2>1, <2>2, ShapedTouches DEF Touches
<1>4. Waits \/ (\E p \in Procs : \E tx : Begins(p, tx)) => SameStore
  BY DEF Waits, Begins
<1> QED
  BY <1>1, <1>2, <1>3, <1>4, Shapes

\* Pending claims are aimed at the next epoch, and those applied hit it.
LEMMA ClaimOpensNext ==
  ASSUME TInv, NEW tx, Pending(tx), GoodTx(tx), Applied(tx), tx.kind = "claim"
  PROVE  rows'[tx.job].op.fence = rows[tx.job].op.fence + 1
<1>1. IInv /\ Aimed(tx)
  BY DEF TInv, UInv, Tracked, Pending, CallTracked, LateTracked
<1>2. /\ tx.job \in Jobs /\ rows[tx.job].job = tx.old /\ rows'[tx.job].job = tx.new
      /\ Moves(tx.kind, rows[tx.job], rows'[tx.job]) /\ tx.old \in Record
  BY <1>1, AppliedFacts DEF Outcome, Tx
<1>3. ~Past(tx.job, tx.old)
  BY <1>1, <1>2 DEF Past, Aimed, Record
<1>4. tx.new.lease.fence = rows[tx.job].op.fence + 1
  BY <1>1, <1>3 DEF Aimed
<1> QED
  BY <1>2, <1>4 DEF Moves

-----------------------------------------------------------------------------
(* Fences                                                                  *)

\* One step of FenceMonotone.
FenceStep ==
  \A j \in Jobs :
    /\ rows'[j].op.fence >= rows[j].op.fence
    /\ rows'[j].job.state = "leased" /\ rows'[j].job.lease.token # rows[j].job.lease.token
         => rows'[j].job.lease.fence > rows[j].op.fence

\* No step lowers a fence and a new lease carries a higher one than before.
LEMMA FenceSteps == ASSUME TInv, [Next]_vars PROVE FenceStep
<1>1. IInv /\ \A j \in Jobs : rows[j].op.fence \in Nat /\ RowOK(rows[j])
  BY DEF TInv, UInv, IInv, TypeOK, RowsCoherent, Row, Operation
<1>2. CASE Still
  BY <1>1, <1>2 DEF Still, FenceStep
<1>3. ASSUME NEW tx, Pending(tx), GoodTx(tx), Applied(tx)
      PROVE  FenceStep
  <2>1. /\ tx.job \in Jobs /\ Moves(tx.kind, rows[tx.job], rows'[tx.job])
        /\ \A j \in Jobs \ {tx.job} : rows'[j] = rows[j]
    BY <1>1, <1>3, AppliedFacts DEF Outcome
  <2>2. ASSUME NEW j \in Jobs \ {tx.job}
        PROVE  rows'[j] = rows[j] /\ rows[j].op.fence \in Nat
    BY <1>1, <2>1
  <2>3. CASE tx.kind = "claim"
    <3>1. /\ rows'[tx.job].op.fence = rows[tx.job].op.fence + 1
          /\ rows'[tx.job].op.fence = rows'[tx.job].job.lease.fence
      BY <1>3, <2>1, <2>3, ClaimOpensNext DEF Moves
    <3> QED
      BY <1>1, <2>1, <2>2, <3>1 DEF FenceStep
  <2>4. CASE tx.kind # "claim"
    <3>1. /\ rows'[tx.job].op.fence = rows[tx.job].op.fence
          /\ rows'[tx.job].job.state = "leased" =>
               rows'[tx.job].job.lease.token = rows[tx.job].job.lease.token
      BY <2>1, <2>4 DEF Moves
    <3> QED
      BY <1>1, <2>1, <2>2, <3>1 DEF FenceStep
  <2> QED
    BY <2>3, <2>4
<1> QED
  BY <1>1, <1>2, <1>3, StoreSteps

\* No interleaving of calls, crashes and late applications takes a fence back
\* or opens a lease under an old one, provided point reads are current.
THEOREM FencesOnlyGrow ==
  ASSUME StaleReads = FALSE
  PROVE  Spec => FenceMonotone
<1>1. Init => TInv
  BY TrackedInitial
<1>2. TInv /\ [Next]_vars => TInv'
  BY TrackedInductive
<1>3. TInv /\ [Next]_vars => [FenceStep]_vars
  BY FenceSteps
<1> QED
  BY <1>1, <1>2, <1>3, PTL DEF Spec, FenceMonotone, FenceStep

-----------------------------------------------------------------------------
(* Refinement                                                              *)

\* A transaction that is applied is a step of the contract.
LEMMA AppliedContract ==
  ASSUME TInv, NEW tx, Pending(tx), GoodTx(tx), Applied(tx)
  PROVE  [Contract!Next]_(Contract!vars)
<1> DEFINE j == tx.job
           status == [i \in Jobs |-> rows[i].job.state]
           epoch == [i \in Jobs |-> rows[i].op.fence]
           wanted == [i \in Jobs |-> rows[i].canc]
           from == rows[j].job.state
           to == rows'[j].job.state
           asked == rows[j].canc
           asks == rows'[j].canc
           high == rows[j].op.fence
           next == rows'[j].op.fence
<1>1. IInv /\ j \in Jobs /\ RowOK(rows[j]) /\ Moves(tx.kind, rows[j], rows'[j])
      /\ \A i \in Jobs \ {j} : rows'[i] = rows[i]
  BY AppliedFacts DEF Outcome, TInv, UInv
<1>2. /\ asked \in BOOLEAN /\ asks \in BOOLEAN
  <2>1. rows[j] \in Row /\ tx \in Tx
    BY <1>1 DEF IInv, TypeOK, GoodTx
  <2>2. rows'[j] \in Row
    BY <1>1, <2>1, RowAfterType, AppliedFacts
  <2> QED
    BY <2>1, <2>2 DEF Row
<1>3. /\ status' = [status EXCEPT ![j] = to]
      /\ epoch' = [epoch EXCEPT ![j] = next]
      /\ wanted' = [wanted EXCEPT ![j] = asks]
  BY <1>1
<1>4. status[j] = from /\ epoch[j] = high /\ wanted[j] = asked
  BY <1>1
<1>5. /\ to = from => status' = status
      /\ next = high => epoch' = epoch
      /\ asks = asked => wanted' = wanted
  BY <1>1, <1>3
<1> HIDE DEF status, epoch, wanted, from, to, asked, asks, high, next
<1>6. (asks = asked /\ next = high /\ to = from) \/ Contract!Next
  <2>1. CASE tx.kind = "claim"
    <3>1. next = high + 1
      BY <2>1, ClaimOpensNext DEF high, next
    <3>2. from \in {"scheduled", "leased"} /\ to = "leased" /\ ~asked /\ ~asks
      BY <1>1, <2>1 DEF Moves, from, to, asked, asks
    <3>3. Contract!Claim(j)
      BY <1>2, <1>3, <1>4, <1>5, <3>1, <3>2 DEF Contract!Claim, Contract!Move, status, epoch, wanted
    <3> QED
      BY <1>1, <3>3 DEF Contract!Next
  <2>2. CASE tx.kind # "claim"
    <3>1. /\ next = high
          /\ \/ to = from /\ (asks <=> asked)
             \/ from = "leased" /\ to = "leased" /\ asks
             \/ /\ ~asked /\ ~asks
                /\ \/ from \in {"absent", "leased", "suspended", "dead"} /\ to = "scheduled"
                   \/ from = "leased" /\ to = "absent"
                   \/ from = "scheduled" /\ to = "suspended"
             \/ /\ ~asks
                /\ \/ from \in {"scheduled", "leased", "suspended"} /\ to = "cancelled"
                   \/ from \in {"scheduled", "leased"} /\ to = "dead"
      BY <1>1, <2>2 DEF Moves, from, to, asked, asks, high, next
    <3>2. epoch' = epoch
      BY <1>5, <3>1
    <3>3. CASE to = from /\ (asks <=> asked)
      BY <1>2, <3>1, <3>3
    <3>4. CASE from = "leased" /\ to = "leased" /\ asks
      <4>1. Contract!RequestCancellation(j)
        BY <1>2, <1>3, <1>4, <1>5, <3>2, <3>4
           DEF Contract!RequestCancellation, status, epoch, wanted
      <4> QED
        BY <1>1, <4>1 DEF Contract!Next
    <3>5. CASE ~asked /\ ~asks /\ from = "absent" /\ to = "scheduled"
      <4>1. Contract!Submit(j)
        BY <1>2, <1>3, <1>4, <1>5, <3>2, <3>5
           DEF Contract!Submit, Contract!Move, status, epoch, wanted
      <4> QED
        BY <1>1, <4>1 DEF Contract!Next
    <3>6. CASE ~asked /\ ~asks /\ from = "leased" /\ to \in {"scheduled", "absent"}
      <4>1. Contract!Settle(j)
        BY <1>2, <1>3, <1>4, <1>5, <3>2, <3>6
           DEF Contract!Settle, Contract!Move, status, epoch, wanted
      <4> QED
        BY <1>1, <4>1 DEF Contract!Next
    <3>7. CASE /\ ~asked /\ ~asks
               /\ \/ from \in {"suspended", "dead"} /\ to = "scheduled"
                  \/ from = "scheduled" /\ to = "suspended"
      <4>1. Contract!Park(j)
        BY <1>2, <1>3, <1>4, <1>5, <3>2, <3>7
           DEF Contract!Park, Contract!Move, status, epoch, wanted
      <4> QED
        BY <1>1, <4>1 DEF Contract!Next
    <3>8. CASE /\ ~asks
               /\ \/ from \in {"scheduled", "leased", "suspended"} /\ to = "cancelled"
                  \/ from \in {"scheduled", "leased"} /\ to = "dead"
      <4>1. Contract!End(j)
        BY <1>2, <1>3, <1>4, <1>5, <3>2, <3>8
           DEF Contract!End, Contract!Move, status, epoch, wanted
      <4> QED
        BY <1>1, <4>1 DEF Contract!Next
    <3> QED
      BY <3>1, <3>3, <3>4, <3>5, <3>6, <3>7, <3>8
  <2> QED
    BY <2>1, <2>2
<1> QED
  BY <1>5, <1>6 DEF Contract!vars, status, epoch, wanted

\* Every step of the engine is a step of the contract or leaves its view alone.
LEMMA ContractSteps ==
  ASSUME TInv, [Next]_vars
  PROVE  [Contract!Next]_(Contract!vars)
<1>1. IInv
  BY DEF TInv, UInv
<1>2. CASE Still
  BY <1>2 DEF Still, Contract!vars
<1> QED
  BY <1>1, <1>2, StoreSteps, AppliedContract

\* At first every job is absent, at epoch 0 and not to be cancelled.
LEMMA ContractInitial == Init => Contract!Init
  BY DEF Init, Contract!Init, EmptyRow, NoJob, NoOp

\* The engine implements the contract, for any number of jobs, processes,
\* permits and failures, provided point reads are current: each committed
\* transaction is one contract step, and a claim opens exactly the next epoch.
THEOREM EngineImplementsContract ==
  ASSUME StaleReads = FALSE
  PROVE  Spec => ImplementsContract
<1>1. Init => TInv /\ Contract!Init
  BY TrackedInitial, ContractInitial
<1>2. TInv /\ [Next]_vars => TInv'
  BY TrackedInductive
<1>3. TInv /\ [Next]_vars => [Contract!Next]_(Contract!vars)
  BY ContractSteps
<1> QED
  BY <1>1, <1>2, <1>3, PTL DEF Spec, ImplementsContract, Contract!Spec

-----------------------------------------------------------------------------
(* Cancellation                                                            *)

\* The identity was claimed once; its payload is damaged for good, for as long
\* as identities are not reused.
Known(j) == rows[j].op # NoOp
Damaged(j) == Known(j) /\ ~rows[j].payload

\* A quarantine is about a damaged payload and an enqueue about a new identity.
TxMarked(tx) ==
  /\ tx.kind = "quarantine" => Damaged(tx.job)
  /\ tx.kind \in {"enqueue", "seed"} => tx.op.old = NoOp

CallMarked(c) ==
  /\ c.phase = "loading" => Known(c.claim.job)
  /\ c.phase = "corrupt" => Damaged(c.job)
  /\ c.phase \in CommitPhases =>
       TxMarked(c.tx) /\ (c.tx.kind = "claim" /\ c.est = "committed" => Known(c.tx.job))

LateMarked(tx) == tx # NoTx => TxMarked(tx)

Marked == \A p \in Procs : CallMarked(call[p]) /\ LateMarked(limbo[p])

\* Marks are not taken back.
MarksStay == \A j \in Jobs : (Known(j) => Known(j)') /\ (Damaged(j) => Damaged(j)')

\* A step that leaves the rows alone keeps every mark.
LEMMA StillMarks ==
  ASSUME Still
  PROVE  MarksStay
  BY DEF Still, MarksStay, Known, Damaged

\* So does an applied transaction, and a claim that is applied marks its job.
LEMMA AppliedMarks ==
  ASSUME IInv, NEW tx, GoodTx(tx), Applied(tx), TxMarked(tx)
  PROVE  MarksStay /\ (tx.kind = "claim" => Known(tx.job)')
<1>1. /\ tx.job \in Jobs /\ rows[tx.job] \in Row /\ Moves(tx.kind, rows[tx.job], rows'[tx.job])
      /\ RowOK(rows'[tx.job]) /\ RowFits(rows[tx.job], tx) /\ Identity(tx)
      /\ \A j \in Jobs \ {tx.job} : rows'[j] = rows[j]
  BY AppliedFacts DEF Outcome
<1>2. \A j \in Jobs : Known(j) => Known(j)'
  BY <1>1 DEF Known, Moves
<1>3. ASSUME Damaged(tx.job) PROVE ~rows'[tx.job].payload
  <2>1. tx.kind \notin {"enqueue", "seed"}
    BY <1>1, <1>3 DEF TxMarked, RowFits, Identity, Damaged, Known
  <2> QED
    BY <1>1, <1>3, <2>1 DEF Moves, Damaged
<1>4. \A j \in Jobs : Damaged(j) => Damaged(j)'
  BY <1>1, <1>2, <1>3 DEF Damaged
<1>5. tx.kind = "claim" => Known(tx.job)'
  BY <1>1 DEF Moves, RowOK, Known, NoOp
<1> QED
  BY <1>2, <1>4, <1>5 DEF MarksStay

\* A probe that finds the claim finds it marked.
LEMMA ReachedKnown ==
  ASSUME IInv, NEW tx, GoodTx(tx), tx.kind = "claim", Reached(tx)
  PROVE  Known(tx.job)
<1>1. tx.job \in Jobs /\ tx.probe = "job" /\ tx.new.state = "leased"
  BY DEF GoodTx, Identity, Tx
<1>2. rows[tx.job].job = tx.new /\ RowOK(rows[tx.job])
  BY <1>1 DEF Reached, IInv, RowsCoherent
<1> QED
  BY <1>1, <1>2 DEF RowOK, Known, NoOp

\* What is marked stays marked.
LEMMA TxMarkedOn ==
  ASSUME MarksStay, NEW tx \in Tx, TxMarked(tx)
  PROVE  TxMarked(tx)'
  BY DEF MarksStay, TxMarked, Tx

\* Marks that are kept keep a transaction left behind marked.
LEMMA LateMarkedOn ==
  ASSUME MarksStay, NEW late \in Tx \cup {NoTx}, LateMarked(late)
  PROVE  LateMarked(late)'
  BY TxMarkedOn DEF LateMarked

\* Marks that are kept keep a call marked.
LEMMA CallMarkedOn ==
  ASSUME MarksStay, NEW c \in Calls, CallMarked(c)
  PROVE  CallMarked(c)'
<1>0. c.phase = "loading" => c \in [phase : {"loading"}, claim : Claim]
  BY DEF Calls, Idle, CommitPhases
<1>1. c.phase = "loading" => c.claim.job \in Jobs
  BY <1>0 DEF Claim
<1>2. c.phase = "corrupt" => c.job \in Jobs
  BY DEF Calls, Idle, CommitPhases
<1>3. c.phase \in CommitPhases => c.tx \in Tx
  BY DEF Calls, Idle, CommitPhases
<1>4. c.tx \in Tx => c.tx.job \in Jobs
  BY DEF Tx
<1> QED
  BY <1>1, <1>2, <1>3, <1>4, TxMarkedOn DEF MarksStay, CallMarked

\* A step of the commit protocol.
LEMMA ShapedMarked ==
  ASSUME IInv, Marked, NEW p \in Procs, Shaped(p)
  PROVE  Marked'
<1>1. /\ Touches(p) /\ Inherits(p) /\ Only(p) /\ call[p] \in Calls
      /\ CallMarked(call[p]) /\ LateMarked(limbo[p])
  BY ShapedTouches DEF Marked, Shaped, IInv, TypeOK
<1>2. MarksStay
  <2>1. SameStore => Still
    BY DEF SameStore, Still
  <2>2. InFlight(call[p]) /\ Applied(call[p].tx) => MarksStay
    BY <1>1, SlotsGood, AppliedMarks DEF CallMarked, InFlight
  <2>3. limbo[p] # NoTx /\ Applied(limbo[p]) => MarksStay
    BY <1>1, SlotsGood, AppliedMarks DEF LateMarked
  <2> QED
    BY <1>1, <2>1, <2>2, <2>3, StillMarks DEF Touches
<1>3. ASSUME NEW q \in Procs, NEW c \in Calls, call'[q] = c, CallMarked(c)
      PROVE  CallMarked(call[q])'
  <2>1. CallMarked(c)'
    BY <1>2, <1>3, CallMarkedOn
  <2> QED
    BY <1>3, <2>1
<1>4. ASSUME NEW q \in Procs, NEW late \in Tx \cup {NoTx}, limbo'[q] = late, LateMarked(late)
      PROVE  LateMarked(limbo[q])'
  <2>1. LateMarked(late)'
    BY <1>2, <1>4, LateMarkedOn
  <2> QED
    BY <1>4, <2>1
<1>5. \A q \in Procs \ {p} : CallMarked(call[q])' /\ LateMarked(limbo[q])'
  BY <1>1, <1>3, <1>4 DEF Only, Marked, IInv, TypeOK
<1>6. LateMarked(limbo[p])'
  <2>1. CASE limbo'[p] = NoTx
    BY <2>1 DEF LateMarked
  <2>2. CASE limbo'[p] = limbo[p]
    BY <1>1, <1>4, <2>2 DEF IInv, TypeOK
  <2>3. CASE InFlight(call[p]) /\ limbo'[p] = call[p].tx
    <3>1. call[p].tx \in Tx /\ TxMarked(call[p].tx)
      BY <1>1, <2>3, SlotsGood DEF CallMarked, InFlight, GoodTx
    <3> QED
      BY <1>4, <2>3, <3>1 DEF LateMarked
  <2> QED
    BY <1>1, <2>1, <2>2, <2>3 DEF Inherits
<1>7. ASSUME call[p].phase \in CommitPhases
      PROVE  /\ call[p].tx \in Tx /\ call[p].tx.job \in Jobs
             /\ TxMarked(call[p].tx) /\ GoodTx(call[p].tx)
  BY <1>1, <1>7 DEF IInv, PendingOK, GoodTx, CallMarked, Tx
<1>8. ASSUME call'[p].phase \in CommitPhases, call[p].phase \in CommitPhases,
             Like(call'[p].tx, call[p].tx)
      PROVE  TxMarked(call[p].tx)'
  <2>1. ASSUME NEW tx \in Tx, tx = call[p].tx PROVE TxMarked(tx)'
    BY <1>2, <1>7, <1>8, <2>1, TxMarkedOn
  <2>2. ASSUME NEW tx, NEW other, TxMarked(tx)', Like(other, tx) PROVE TxMarked(other)'
    BY <2>2 DEF TxMarked, Like
  <2> QED
    BY <1>7, <1>8, <2>1, <2>2
<1>9. CallMarked(call[p])'
  <2>1. CASE call'[p] = Idle \/ call'[p].phase = "claiming"
    BY <2>1 DEF CallMarked, Idle, CommitPhases
  <2>2. CASE call'[p] = call[p]
    BY <1>1, <1>3, <2>2
  <2>3. CASE Opens(p) /\ call'[p] # Idle
    <3>1. /\ call'[p] = Corrupt(call[p].claim.job) /\ Known(call[p].claim.job)
          /\ ~rows[call[p].claim.job].payload /\ rows' = rows
      BY <1>1, <2>3 DEF Opens, CallMarked, SameStore
    <3> QED
      BY <3>1 DEF CallMarked, Corrupt, CommitPhases, Damaged, Known
  <2>4. CASE Keeps(p)
    <3>1. /\ call[p].phase \in CommitPhases /\ call'[p].phase \in CommitPhases
          /\ Like(call'[p].tx, call[p].tx) /\ rows' = rows
          /\ call'[p].est = "committed" <=> call[p].est = "committed"
      BY <2>4 DEF Keeps, SameStore
    <3>2. call'[p].tx.kind = "claim" /\ call'[p].est = "committed" => Known(call'[p].tx.job)
      BY <1>1, <3>1 DEF CallMarked, Like
    <3> QED
      BY <1>8, <3>1, <3>2 DEF CallMarked, CommitPhases, Known
  <2>5. CASE Lands(p)
    <3>1. /\ call[p].phase \in CommitPhases /\ call'[p].phase \in CommitPhases
          /\ call'[p].tx = call[p].tx /\ Applied(call[p].tx)
      BY <2>5 DEF Lands, InFlight
    <3>2. ASSUME NEW tx, tx = call[p].tx, tx.kind = "claim" PROVE Known(tx.job)'
      BY <1>7, <3>1, <3>2, AppliedMarks
    <3> QED
      BY <1>8, <3>1, <3>2 DEF CallMarked, CommitPhases, Like
  <2>6. CASE Answers(p) /\ call'[p] # Idle
    <3>1. /\ call[p].phase \in CommitPhases /\ call[p].tx.kind = "claim"
          /\ call'[p] = Loading(ClaimOf(call[p].tx))
      BY <2>6 DEF Answers, Granted
    <3>2. ASSUME NEW tx, tx = call[p].tx PROVE Known(tx.job)'
      <4>1. CASE call[p].est = "committed"
        BY <1>1, <1>2, <1>7, <3>1, <3>2, <4>1 DEF CallMarked, MarksStay
      <4>2. CASE Applied(tx)
        BY <1>7, <3>1, <3>2, <4>2, AppliedMarks
      <4>3. CASE Reached(tx)
        BY <1>2, <1>7, <3>1, <3>2, <4>3, ReachedKnown DEF MarksStay
      <4> QED
        BY <2>6, <3>2, <4>1, <4>2, <4>3 DEF Answers
    <3>3. call'[p].claim.job = call[p].tx.job /\ call'[p].phase = "loading"
      BY <3>1 DEF Loading, ClaimOf
    <3> QED
      BY <3>2, <3>3 DEF CallMarked, CommitPhases
  <2>7. Loads(p) => call'[p].phase = "claiming"
    BY DEF Loads, Claiming
  <2>8. \/ call'[p] = call[p] \/ call'[p] = Idle \/ call'[p].phase = "claiming"
        \/ Opens(p) \/ Keeps(p) \/ Lands(p) \/ Answers(p)
    BY <2>7 DEF Shaped, Drops, LandsLate, Fails, Stops
  <2> QED
    BY <2>1, <2>2, <2>3, <2>4, <2>5, <2>6, <2>8
<1> QED
  BY <1>5, <1>6, <1>9 DEF Marked

\* A transaction that is built.
LEMMA BuiltMarked ==
  ASSUME IInv, Marked, NEW p \in Procs, NEW tx, Built(p, tx), Begins(p, tx), "reuse" \notin Ops
  PROVE  Marked'
<1>1. Only(p) /\ rows' = rows /\ limbo'[p] = limbo[p] /\ call'[p] = Committing(tx)
  BY DEF Begins, SameStore
<1>2. TxMarked(tx)
  BY DEF Built, FromClaim, FromRow, FromCandidate, TxMarked, Marked, CallMarked
<1>3. \A c, late : (CallMarked(c)' <=> CallMarked(c)) /\ (LateMarked(late)' <=> LateMarked(late))
  BY <1>1 DEF CallMarked, LateMarked, TxMarked, Damaged, Known
<1>4. CallMarked(Committing(tx))
  BY <1>2 DEF CallMarked, Committing, CommitPhases
<1> QED
  BY <1>1, <1>3, <1>4 DEF Marked, Only

\* One step of CancellationPrecedence.
PrecedenceStep ==
  \A j \in Jobs :
    rows[j].canc =>
      \/ rows'[j].canc /\ rows'[j].job.lease.token = rows[j].job.lease.token
      \/ rows'[j].job.state = "cancelled"
      \/ rows'[j].job.state = "dead" /\ ~rows[j].payload

\* A requested cancellation outlives every step but the ones that end the lease for it.
LEMMA PrecedenceSteps == ASSUME IInv, Marked, [Next]_vars PROVE PrecedenceStep
<1>1. CASE Still
  BY <1>1 DEF Still, PrecedenceStep
<1>2. ASSUME NEW tx, Pending(tx), GoodTx(tx), Applied(tx)
      PROVE  PrecedenceStep
  <2>1. /\ tx.job \in Jobs /\ Moves(tx.kind, rows[tx.job], rows'[tx.job]) /\ RowOK(rows[tx.job])
        /\ \A j \in Jobs \ {tx.job} : rows'[j] = rows[j]
    BY <1>2, AppliedFacts DEF Outcome
  <2>2. tx.kind = "quarantine" => ~rows[tx.job].payload
    BY <1>2 DEF Marked, Pending, CallMarked, LateMarked, TxMarked, InFlight, Damaged
  <2> QED
    BY <2>1, <2>2 DEF Moves, RowOK, PrecedenceStep
<1> QED
  BY <1>1, <1>2, StoreSteps

MInv == IInv /\ Marked

\* No call is under way at first, so every one is marked.
LEMMA MarkedInitial == Init => MInv
<1> SUFFICES ASSUME Init PROVE MInv
  OBVIOUS
<1>1. \A p \in Procs : call[p] = Idle /\ limbo[p] = NoTx
  BY DEF Init
<1>2. Marked
  BY <1>1 DEF Marked, CallMarked, LateMarked, Idle, CommitPhases
<1> QED
  BY <1>2, Initial DEF MInv

\* Every step keeps the calls and the transactions left behind marked.
LEMMA MarkedInductive ==
  ASSUME "reuse" \notin Ops, MInv, [Next]_vars
  PROVE  MInv'
<1>1. IInv' /\ IInv /\ Marked
  BY Inductive DEF MInv
<1>2. ASSUME (\E j \in Jobs : Damages(j)) \/ Waits
      PROVE  Marked'
  <2>1. call' = call /\ limbo' = limbo /\ Still
    BY <1>1, <1>2 DEF IInv, TypeOK, Row, Damages, Waits, SameStore, Still
  <2>2. \A p \in Procs : call[p] \in Calls /\ limbo[p] \in Tx \cup {NoTx}
    BY <1>1 DEF IInv, TypeOK
  <2>3. ASSUME NEW p \in Procs PROVE CallMarked(call[p])' /\ LateMarked(limbo[p])'
    <3>1. CallMarked(call[p]) /\ LateMarked(limbo[p]) /\ call'[p] = call[p] /\ limbo'[p] = limbo[p]
      BY <1>1, <2>1 DEF Marked
    <3> QED
      BY <2>1, <2>2, <3>1, StillMarks, CallMarkedOn, LateMarkedOn
  <2> QED
    BY <2>3 DEF Marked
<1>3. Marked'
  BY <1>1, <1>2, Shapes, ShapedMarked, BuiltMarked
<1> QED
  BY <1>1, <1>3 DEF MInv

\* A durable request is never lost to a completion, a retry, a new claim or an
\* exhaustion, and dead-letters only a job whose payload is damaged, provided
\* completed identities are not used again: a quarantine finds its job by
\* identity alone and would otherwise meet a successor.
THEOREM RequestsTakePrecedence ==
  ASSUME "reuse" \notin Ops
  PROVE  Spec => CancellationPrecedence
<1>1. Init => MInv
  BY MarkedInitial
<1>2. MInv /\ [Next]_vars => MInv'
  BY MarkedInductive
<1>3. MInv /\ [Next]_vars => [PrecedenceStep]_vars
  BY PrecedenceSteps DEF MInv
<1> QED
  BY <1>1, <1>2, <1>3, PTL DEF Spec, CancellationPrecedence, PrecedenceStep

=============================================================================
