------------------------- MODULE JobLifecycleProofs -------------------------
(***************************************************************************)
(* Type correctness and coherence of the durable keys, for any jobs,       *)
(* processes, permits, policies and bounds.  RowsCoherent alone is not     *)
(* inductive: a transaction built long ago, in flight or abandoned, may be *)
(* applied in this step, so the invariant carries what was established     *)
(* when it was built.                                                      *)
(*                                                                         *)
(* The module also says where a transaction comes from (Built) and sorts   *)
(* the steps of the engine into those that build one and those of the      *)
(* commit protocol (Sorted): the later proofs argue about these alone.     *)
(***************************************************************************)
EXTENDS JobTransactionProofs

\* Every transaction that may still be applied is good, a renewal belongs to a
\* claim, and only a known conflict is looked at again.
PendingOK ==
  /\ \A p \in Procs : call[p].phase \in CommitPhases =>
       /\ GoodTx(call[p].tx)
       /\ call[p].tx.kind = "renew" => claim[p].held
       /\ call[p].phase = "refresh" => call[p].est = "conflict"
  /\ \A p \in Procs : limbo[p] # NoTx => GoodTx(limbo[p])

IInv == TypeOK /\ RowsCoherent /\ PendingOK

-----------------------------------------------------------------------------
(* Where a transaction comes from                                          *)

\* The identities a transaction brings in.
Novel(tx) == RecordIds(tx.new) \ (RecordIds(tx.old) \cup {NoId})

\* A transaction of a claim holder is made from the claim.
FromClaim(p, tx) ==
  /\ tx.kind \in {"renew", "settle", "request"}
  /\ claim[p].held /\ call[p] = Idle
  /\ tx.job = claim[p].job /\ tx.old = claim[p].rec
  /\ tx.op.check /\ tx.op.old = claim[p].op
  /\ tx.permits.keys = claim[p].keys
  /\ tx.kind = "renew" \/ tx.probe = "op" => CurrentLease(claim[p], now)

\* That of a producer or an administrator from the row as it is; of the leased
\* jobs it only ends those whose lease has run out or whose payload is damaged.
FromRow(p, tx) ==
  /\ tx.kind \in {"enqueue", "seed", "admin", "quarantine"}
  /\ tx.old = rows[tx.job].job
  /\ tx.op.check /\ tx.op.old = rows[tx.job].op
  /\ tx.kind \in {"enqueue", "seed"} => tx.op.old = NoOp \/ "reuse" \in Ops
  /\ IF tx.kind = "quarantine" THEN call[p].phase = "corrupt" /\ call[p].job = tx.job
     ELSE call[p] = Idle
  /\ tx.old.state = "leased" /\ tx.new # tx.old =>
       /\ tx.permits.keys = OwnedKeys(tx.job)
       /\ tx.kind = "quarantine" \/ tx.old.lease.until <= now

\* A claim from a candidate read before, with the fence read now.
FromCandidate(p, tx) ==
  /\ tx.kind = "claim" /\ call[p].phase = "claiming"
  /\ tx.job = call[p].job /\ tx.old = call[p].old
  /\ \E high \in FenceReads(tx.job) : tx.new.lease.fence = NextFence(tx.old, high)
  /\ tx.old.state = "leased" => tx.old.lease.until <= call[p].at

Built(p, tx) ==
  /\ GoodTx(tx) /\ Novel(tx) \subseteq FreshIds
  /\ FromClaim(p, tx) \/ FromRow(p, tx) \/ FromCandidate(p, tx)

Builds(p) == \E tx : Built(p, tx) /\ Begin(p, tx)

-----------------------------------------------------------------------------
(* What the type invariant says of one process                             *)

CommitCall ==
  [phase : CommitPhases, tx : Tx, attempt : {0, 1}, est : Estimates, refreshed : BOOLEAN]

\* The fields of a call by its phase.
LEMMA CallFields ==
  ASSUME TypeOK, NEW p \in Procs
  PROVE  /\ call[p].phase \in CommitPhases => call[p] \in CommitCall
         /\ call[p].phase = "claiming" =>
              call[p] \in [phase : {"claiming"}, job : Jobs, old : Record,
                           viaDue : BOOLEAN, at : Int]
         /\ call[p].phase = "loading" => call[p] \in [phase : {"loading"}, claim : Claim]
         /\ call[p].phase = "corrupt" => call[p] \in [phase : {"corrupt"}, job : Jobs]
  BY DEF TypeOK, Calls, CommitCall, CommitPhases, Idle

\* A held claim is a claim.
LEMMA HeldClaim ==
  ASSUME TypeOK, NEW p \in Procs, claim[p].held
  PROVE  claim[p] \in Claim /\ claim[p].rec \in Record
<1>1. claim[p] \in Claim
  BY DEF TypeOK, NoClaim
<1> QED
  BY <1>1 DEF Claim

\* A fresh identity is a number other than NoId that no row and no candidate
\* names.
LEMMA FreshId ==
  ASSUME NEW id \in FreshIds
  PROVE  /\ id \in Nat \ {0} /\ id \in Nat
         /\ \A j \in Jobs : id \notin RecordIds(rows[j].job)
         /\ \A p \in Procs : call[p].phase = "claiming" => id \notin RecordIds(call[p].old)
<1>1. id \in Ids /\ id \notin UsedIds
  BY DEF FreshIds
<1>2. id \in Nat \ {0} /\ id \in Nat
  BY <1>1, IdAssumption
<1>3. ASSUME NEW j \in Jobs PROVE id \notin RecordIds(rows[j].job)
  <2>1. RecordIds(rows[j].job) \subseteq UNION {RecordIds(rows[i].job) \cup {rows[i].op.id} : i \in Jobs}
    OBVIOUS
  <2> QED
    BY <1>1, <2>1 DEF UsedIds
<1>4. ASSUME NEW p \in Procs, call[p].phase = "claiming" PROVE id \notin RecordIds(call[p].old)
  <2>1. CallIds(call[p]) = RecordIds(call[p].old)
    BY <1>4 DEF CallIds, CommitPhases
  <2>2. CallIds(call[p]) \subseteq
          UNION {ClaimIds(claim[q]) \cup CallIds(call[q]) \cup TxIds(limbo[q]) : q \in Procs}
    OBVIOUS
  <2> QED
    BY <1>1, <2>1, <2>2 DEF UsedIds
<1> QED
  BY <1>2, <1>3, <1>4

\* A settled record names no new identity.
LEMMA SettledIds ==
  ASSUME NEW tx, Settles(tx.old, tx.new)
  PROVE  Novel(tx) = {}
  BY DEF Settles, Follows, Novel, RecordIds, NoLease, NoId

\* The wake plan of a settlement or an administrative call.
LEMMA ReconcileType ==
  ASSUME TypeOK, NEW skip, NEW include \in SUBSET Int
  PROVE  Reconcile(skip, include) \in Plan
  BY WakeReconcileType DEF TypeOK, Reconcile

-----------------------------------------------------------------------------
(* Steps that build a transaction                                          *)

\* Submission.
LEMMA EnqueueBuilds ==
  ASSUME IInv, NEW p \in Procs, NEW j \in Jobs, Enqueue(p, j)
  PROVE  Builds(p)
<1>1. PICK kind \in {"enqueue", "seed"}, d \in Delays, e \in Expiries, id \in FreshIds :
        LET at == now + d
            new == NewRecord(id, at, IF e = NoTime THEN NoTime ELSE at + e, now)
        IN Begin(p, EnqueueTx(kind, j, new, rows[j].op, WakeLower(wake, at)))
  BY DEF Enqueue
<1> DEFINE at == now + d
           ex == IF e = NoTime THEN NoTime ELSE at + e
           new == NewRecord(id, at, ex, now)
           tx == EnqueueTx(kind, j, new, rows[j].op, WakeLower(wake, at))
<1>2. now \in Int /\ at \in Int /\ ex \in Int /\ wake \in Int
  BY EnvironmentAssumption DEF IInv, TypeOK
<1>3. rows[j] \in Row /\ RowOK(rows[j]) /\ rows[j].job = NoJob /\ (rows[j].op # NoOp => "reuse" \in Ops)
  BY DEF IInv, TypeOK, RowsCoherent, Enqueue
<1>4. new \in Record /\ new.state = "scheduled" /\ new.exec = id /\ new.exec # NoId /\ new.lease = NoLease
  <2>1. id \in Nat /\ id # NoId
    BY FreshId DEF NoId
  <2>2. new \in Record
    BY <1>2, <2>1, NewRecordType
  <2>3. new.state = "scheduled" /\ new.exec = id /\ new.lease = NoLease
    BY DEF NewRecord
  <2> QED
    BY <2>1, <2>2, <2>3
<1>5. WakeLower(wake, at) \in Plan
  BY <1>2, WakeUpdateType
<1> HIDE DEF new, at
<1>6. GoodTx(tx)
  BY <1>3, <1>4, <1>5, EnqueueGood
<1>7. FromRow(p, tx)
  BY <1>3 DEF FromRow, Enqueue, Available, EnqueueTx, NoJob, Swap, Permits, NoPermit
<1>8. Novel(tx) \subseteq FreshIds
  BY <1>4 DEF Novel, RecordIds, EnqueueTx, NoLease
<1>9. Begin(p, tx)
  BY <1>1 DEF new, at
<1> QED
  BY <1>6, <1>7, <1>8, <1>9 DEF Builds, Built

\* The claim of any candidate under a fresh token.
LEMMA ClaimBuilt ==
  ASSUME NEW j \in Jobs, NEW r \in Record, NEW id \in Nat \ {0}, NEW fence \in Nat,
         NEW until \in Int, NEW at \in Int, NEW viaDue \in BOOLEAN,
         NEW keys \in PermitSets[j], id \notin RecordIds(r)
  PROVE  LET tx == ClaimTx(j, r, ClaimedRecord(r, id, fence, until, at), id, viaDue, keys)
         IN /\ GoodTx(tx) /\ Novel(tx) \subseteq {id}
            /\ tx.kind = "claim" /\ tx.job = j /\ tx.old = r /\ tx.new.lease.fence = fence
<1> DEFINE new == ClaimedRecord(r, id, fence, until, at)
           tx == ClaimTx(j, r, new, id, viaDue, keys)
<1>1. id \in Nat
  OBVIOUS
<1>2. Follows(r, new) /\ new.state = "leased" /\ new.lease.token = id /\ new.lease.fence = fence
  BY <1>1, ClaimedRecordType
<1> HIDE DEF new
<1>3. GoodTx(tx)
  BY <1>2, ClaimGood
<1>4. tx.kind = "claim" /\ tx.job = j /\ tx.old = r /\ tx.new = new
  BY DEF ClaimTx
<1>5. Novel(tx) \subseteq {id}
  BY <1>2, <1>4 DEF Novel, RecordIds, Follows
<1> QED
  BY <1>2, <1>3, <1>4, <1>5 DEF new

\* The claim transaction.
LEMMA PrepareClaimBuilds ==
  ASSUME IInv, NEW p \in Procs, PrepareClaim(p)
  PROVE  Builds(p)
<1> DEFINE j == call[p].job
           r == call[p].old
           at == call[p].at
           viaDue == call[p].viaDue
<1>1. TypeOK /\ call[p].phase = "claiming" /\ Claimable(r, at)
  BY DEF IInv, PrepareClaim
<1>2. j \in Jobs /\ r \in Record /\ at \in Int /\ viaDue \in BOOLEAN
  BY <1>1, CallFields
<1>3. PICK high \in FenceReads(j), keys \in PermitSets[j], id \in FreshIds,
           until \in at + 1 .. MinOf(at + LeaseTimeout, MaxTime) :
        Begin(p, ClaimTx(j, r, ClaimedRecord(r, id, NextFence(r, high), until, at),
                         id, viaDue, keys))
  BY DEF PrepareClaim
<1> DEFINE fence == NextFence(r, high)
           tx == ClaimTx(j, r, ClaimedRecord(r, id, fence, until, at), id, viaDue, keys)
<1>4. high \in Nat
  BY <1>1, <1>2 DEF FenceReads, TypeOK, Row, Operation
<1>5. id \in Nat \ {0} /\ until \in Int /\ fence \in Nat /\ id \notin RecordIds(r)
  BY <1>1, <1>2, <1>4, FreshId, NextFenceType
<1>6. Begin(p, tx) /\ keys \in PermitSets[j] /\ id \in FreshIds /\ high \in FenceReads(j)
  BY <1>3
<1>7. /\ call[p].phase = "claiming" /\ call[p].job = j /\ call[p].old = r /\ call[p].at = at
      /\ fence = NextFence(r, high) /\ Claimable(r, at)
  BY <1>1
<1> HIDE DEF j, r, at, viaDue, fence
<1>8. /\ GoodTx(tx) /\ Novel(tx) \subseteq {id}
      /\ tx.kind = "claim" /\ tx.job = j /\ tx.old = r /\ tx.new.lease.fence = fence
  BY <1>2, <1>5, <1>6, ClaimBuilt
<1> HIDE DEF tx
<1>9. FromCandidate(p, tx)
  BY <1>6, <1>7, <1>8 DEF FromCandidate, Claimable
<1>10. Novel(tx) \subseteq FreshIds
  BY <1>6, <1>8
<1> QED
  BY <1>6, <1>8, <1>9, <1>10 DEF Builds, Built

\* The permit keys a record owns.
LEMMA OwnedKeysType ==
  ASSUME NEW j \in Jobs
  PROVE  OwnedKeys(j) \in SUBSET PermitKeys
  BY PermitAssumption DEF OwnedKeys, PermitKeys

\* Quarantine.
LEMMA QuarantineBuilds ==
  ASSUME IInv, NEW p \in Procs, Quarantine(p)
  PROVE  Builds(p)
<1> DEFINE j == call[p].job
<1>1. TypeOK /\ call[p].phase = "corrupt"
  BY DEF IInv, Quarantine
<1>2. j \in Jobs /\ now \in Int
  BY <1>1, CallFields DEF TypeOK
<1>3. PICK id \in FreshIds :
        Begin(p, QuarantineTx(j, rows[j], id, now, OwnedKeys(j), Reconcile({}, {})))
  BY DEF Quarantine
<1> DEFINE tx == QuarantineTx(j, rows[j], id, now, OwnedKeys(j), Reconcile({}, {}))
<1>4. rows[j] \in Row /\ rows[j].job \in Record
  BY <1>1, <1>2 DEF TypeOK, Row
<1>5. Reconcile({}, {}) \in Plan
  BY <1>1, ReconcileType
<1>6. GoodTx(tx)
  BY <1>2, <1>4, <1>5, FreshId, OwnedKeysType, QuarantineGood
<1>7. FromRow(p, tx)
  BY <1>1 DEF FromRow, QuarantineTx, Swap, Permits, NoPermit
<1>8. Novel(tx) = {}
  BY <1>2, <1>4, DeadRecordType, SettledIds DEF QuarantineTx
<1> QED
  BY <1>3, <1>6, <1>7, <1>8 DEF Builds, Built

\* A dead letter by the claim holder: a call of its own, and the exit of a
\* continuation or a retry that is exhausted.
LEMMA DeadLetterBuilds ==
  ASSUME IInv, NEW p \in Procs, Available(p), claim[p].held, DeadLetterClaim(p)
  PROVE  Builds(p)
<1> DEFINE c == claim[p]
<1>0. TypeOK /\ now \in Int
  BY DEF IInv, TypeOK
<1>1. c \in Claim /\ c.rec \in Record
  BY <1>0, HeldClaim
<1>2. PICK id \in FreshIds :
        Begin(p, TerminalTx(c, DeadRecord(c.rec, now), id, FALSE, Reconcile(Route(c), {})))
  BY DEF DeadLetterClaim, Settle
<1> DEFINE tx == TerminalTx(c, DeadRecord(c.rec, now), id, FALSE, Reconcile(Route(c), {}))
<1>3. Reconcile(Route(c), {}) \in Plan
  BY <1>0, ReconcileType
<1>4. Settles(c.rec, DeadRecord(c.rec, now)) /\ DeadRecord(c.rec, now).state = "dead"
  BY <1>0, <1>1, DeadRecordType
<1>5. GoodTx(tx)
  BY <1>1, <1>3, <1>4, FreshId, TerminalGood
<1>6. FromClaim(p, tx)
  BY DEF FromClaim, Available, TerminalTx, Swap, Permits, NoPermit
<1>7. Novel(tx) = {}
  BY <1>4, SettledIds DEF TerminalTx
<1> QED
  BY <1>2, <1>5, <1>6, <1>7 DEF Builds, Built

\* A continuation or a retry that is scheduled again.
LEMMA RescheduleBuilds ==
  ASSUME IInv, NEW p \in Procs, Available(p), claim[p].held, NEW new, Settles(claim[p].rec, new),
         new.state = "scheduled", NEW id \in FreshIds, NEW at \in Int,
         Begin(p, ScheduleTx(claim[p], new, id, Reconcile(Route(claim[p]), {at})))
  PROVE  Builds(p)
<1> DEFINE tx == ScheduleTx(claim[p], new, id, Reconcile(Route(claim[p]), {at}))
<1>1. TypeOK /\ claim[p] \in Claim
  BY HeldClaim DEF IInv
<1>2. Reconcile(Route(claim[p]), {at}) \in Plan
  BY <1>1, ReconcileType
<1>3. GoodTx(tx)
  BY <1>1, <1>2, FreshId, ScheduleGood
<1>4. FromClaim(p, tx)
  BY DEF FromClaim, Available, ScheduleTx, Swap, Permits, NoPermit
<1>5. Novel(tx) = {}
  BY SettledIds DEF ScheduleTx
<1> QED
  BY <1>3, <1>4, <1>5 DEF Builds, Built

\* Continuation, also of a worker that is shutting down.
LEMMA ContinueBuilds ==
  ASSUME IInv, NEW p \in Procs, Available(p), claim[p].held, NEW notBefore \in Int, ContinueAt(p, notBefore)
  PROVE  Builds(p)
<1> DEFINE c == claim[p]
           new == ContinuedRecord(c.rec, notBefore, now)
<1>1. CASE DeadLetterClaim(p)
  BY <1>1, DeadLetterBuilds
<1>2. CASE ~DeadLetterClaim(p)
  <2>1. PICK id \in FreshIds :
          Begin(p, ScheduleTx(c, new, id, Reconcile(Route(c), {new.sched})))
    BY <1>2 DEF ContinueAt, Settle
  <2>2. c.rec \in Record /\ now \in Int
    <3>1. TypeOK /\ now \in Int
      BY DEF IInv, TypeOK
    <3> QED
      BY <3>1, HeldClaim
  <2>3. Settles(c.rec, new) /\ new.state = "scheduled"
    BY <2>2, RescheduledRecordType, 0 \in Nat
  <2> HIDE DEF new
  <2>4. new.sched \in Int
    BY <2>3 DEF Settles, Follows, Record
  <2> QED
    BY <2>1, <2>3, <2>4, RescheduleBuilds
<1> QED
  BY <1>1, <1>2

\* Retry.
LEMMA RetryBuilds ==
  ASSUME IInv, NEW p \in Procs, Retry(p)
  PROVE  Builds(p)
<1> DEFINE c == claim[p]
<1>1. claim[p].held
  BY DEF Retry, Holding
<1>2. CASE DeadLetterClaim(p)
  BY <1>1, <1>2, DeadLetterBuilds DEF Retry, Holding
<1>3. CASE ~DeadLetterClaim(p)
  <2>1. PICK at \in MaxOf(now, c.rec.sched) .. MaxOf(now + BackoffCap, c.rec.sched),
             id \in FreshIds :
          Begin(p, ScheduleTx(c, RetriedRecord(c.rec, at, now), id, Reconcile(Route(c), {at})))
    BY <1>3 DEF Retry, Settle
  <2>2. c.rec \in Record /\ now \in Int /\ at \in Int
    <3>1. TypeOK /\ now \in Int
      BY DEF IInv, TypeOK
    <3> QED
      BY <1>1, <3>1, HeldClaim
  <2>3. Settles(c.rec, RetriedRecord(c.rec, at, now)) /\ RetriedRecord(c.rec, at, now).state = "scheduled"
    BY <2>2, RescheduledRecordType, 0 \in Nat
  <2> QED
    BY <1>1, <2>1, <2>2, <2>3, RescheduleBuilds DEF Retry, Holding
<1> QED
  BY <1>2, <1>3

\* The record of a current lease is written anew.
LEMMA RewriteBuilds ==
  ASSUME IInv, NEW p \in Procs, Available(p), claim[p].held, CurrentLease(claim[p], now),
         NEW until \in Int, Rewrite(p, until)
  PROVE  Builds(p)
<1> DEFINE c == claim[p]
           new == RenewedRecord(c.rec, until)
<1>1. TypeOK
  BY DEF IInv
<1>2. c \in Claim /\ c.rec \in Record
  BY <1>1, HeldClaim
<1>3. PICK id \in FreshIds : Begin(p, RenewTx(c, new, id))
  BY DEF Rewrite
<1> DEFINE tx == RenewTx(c, new, id)
<1>4. /\ Follows(c.rec, new) /\ new.state = c.rec.state
      /\ new.lease.token = c.rec.lease.token /\ new.lease.fence = c.rec.lease.fence
  BY <1>2, RenewedRecordType
<1> HIDE DEF new
<1>5. GoodTx(tx)
  BY <1>2, <1>4, FreshId, RenewGood DEF CurrentLease, LeaseAt
<1>6. FromClaim(p, tx)
  BY DEF FromClaim, Available, RenewTx, Swap, Permits, NoPermit
<1>7. Novel(tx) = {}
  BY <1>4 DEF RenewTx, Novel, RecordIds, Follows
<1> QED
  BY <1>3, <1>5, <1>6, <1>7 DEF Builds, Built

\* Renewal and checkpoint.
LEMMA RenewBuilds ==
  ASSUME IInv, NEW p \in Procs, Renew(p) \/ Checkpoint(p)
  PROVE  Builds(p) \/ (Holding(p) /\ LoseAuthority(p))
<1> DEFINE until == claim[p].rec.lease.until
<1>1. TypeOK /\ claim[p].held /\ Holding(p)
  BY DEF IInv, Renew, Checkpoint, Holding
<1>2. until \in Int
  BY <1>1, HeldClaim DEF Record, Lease
<1>3. LoseAuthority(p) \/ (CurrentLease(claim[p], now) /\ \E new \in Int : Rewrite(p, new))
  BY <1>2 DEF Renew, Checkpoint
<1> QED
  BY <1>1, <1>3, RewriteBuilds DEF Holding

\* Completion.
LEMMA CompleteBuilds ==
  ASSUME IInv, NEW p \in Procs, Complete(p)
  PROVE  Builds(p)
<1> DEFINE c == claim[p]
           tx == CompleteTx(c, Reconcile(Route(c), {}))
<1>1. TypeOK /\ c.held /\ Begin(p, tx)
  BY DEF IInv, Complete, Holding, Settle
<1>2. c \in Claim /\ Reconcile(Route(c), {}) \in Plan
  BY <1>1, HeldClaim, ReconcileType
<1>3. GoodTx(tx)
  BY <1>2, CompleteGood DEF Complete, CurrentLease, LeaseAt
<1>4. FromClaim(p, tx)
  BY <1>1 DEF FromClaim, Complete, Holding, Available, CompleteTx, Swap, Permits, NoPermit
<1>5. Novel(tx) = {}
  BY DEF CompleteTx, Novel, RecordIds, NoJob, NoLease
<1> QED
  BY <1>1, <1>3, <1>4, <1>5 DEF Builds, Built

\* Cancellation by the worker, and the continuation of one that shuts down.
LEMMA CancelClaimBuilds ==
  ASSUME IInv, NEW p \in Procs, CancelClaim(p)
  PROVE  Builds(p)
<1> DEFINE c == claim[p]
           requested == rows[c.job].canc
           cancelled == Released(c.rec, "cancelled")
<1>1. TypeOK /\ now \in Int /\ c.held
  BY DEF IInv, TypeOK, CancelClaim, Holding
<1>2. CASE ContinueAt(p, now)
  BY <1>1, <1>2, ContinueBuilds DEF CancelClaim, Holding
<1>3. CASE ~ContinueAt(p, now)
  <2>1. PICK id \in FreshIds :
          Begin(p, TerminalTx(c, cancelled, id, requested, Reconcile(Route(c), {})))
    BY <1>3 DEF CancelClaim, Settle
  <2> DEFINE tx == TerminalTx(c, cancelled, id, requested, Reconcile(Route(c), {}))
  <2>2. c \in Claim /\ c.rec \in Record /\ Reconcile(Route(c), {}) \in Plan
    BY <1>1, HeldClaim, ReconcileType
  <2>3. requested \in BOOLEAN
    BY <1>1, <2>2 DEF TypeOK, Claim, Row
  <2>4. Settles(c.rec, cancelled) /\ cancelled.state = "cancelled"
    BY <2>2, ReleasedRecord DEF JobStates
  <2> HIDE DEF cancelled, requested
  <2>5. GoodTx(tx)
    BY <2>2, <2>3, <2>4, FreshId, TerminalGood
  <2>6. FromClaim(p, tx)
    BY <1>1 DEF FromClaim, CancelClaim, Holding, Available, TerminalTx, Swap, Permits, NoPermit
  <2>7. Novel(tx) = {}
    BY <2>4, SettledIds DEF TerminalTx
  <2> QED
    BY <2>1, <2>5, <2>6, <2>7 DEF Builds, Built
<1> QED
  BY <1>2, <1>3

\* A durable request by the claim holder.
LEMMA RequestBuilds ==
  ASSUME IInv, NEW p \in Procs, RequestCancellation(p)
  PROVE  Builds(p)
<1> DEFINE c == claim[p]
           tx == RequestTx(c, rows[c.job].canc)
<1>1. TypeOK /\ c.held /\ Begin(p, tx)
  BY DEF IInv, RequestCancellation, Holding
<1>2. c \in Claim
  BY <1>1, HeldClaim
<1>3. rows[c.job].canc \in BOOLEAN
  BY <1>1, <1>2 DEF TypeOK, Claim, Row
<1>4. GoodTx(tx)
  BY <1>2, <1>3, RequestGood
<1>5. FromClaim(p, tx)
  BY <1>1 DEF FromClaim, RequestCancellation, Holding, Available, RequestTx, Swap, Permits, NoPermit
<1>6. Novel(tx) = {}
  BY DEF RequestTx, Novel
<1> QED
  BY <1>1, <1>4, <1>5, <1>6 DEF Builds, Built

-----------------------------------------------------------------------------
(* Administrative calls                                                    *)

\* What an administrative call has read.
LEMMA AdminReads ==
  ASSUME IInv, NEW j \in Jobs
  PROVE  /\ TypeOK /\ now \in Int /\ rows[j] \in Row /\ RowOK(rows[j])
         /\ rows[j].job \in Record /\ rows[j].job.sched \in Int /\ rows[j].canc \in BOOLEAN
  BY DEF IInv, TypeOK, RowsCoherent, Row, Record

\* Cancellation, suspension or expiry of a scheduled job.
LEMMA InactivateBuilds ==
  ASSUME IInv, NEW p \in Procs, Available(p), NEW j \in Jobs, NEW new, Settles(rows[j].job, new),
         new.state \in {"dead", "cancelled", "suspended"}, Inactivate(p, j, new)
  PROVE  Builds(p)
<1> DEFINE w == Reconcile({<<j, rows[j].job.sched>>}, {})
<1>1. PICK id \in FreshIds : Begin(p, InactivateTx(j, rows[j], new, id, w))
  BY DEF Inactivate
<1> DEFINE tx == InactivateTx(j, rows[j], new, id, w)
<1>2. TypeOK /\ rows[j] \in Row /\ rows[j].job.state = "scheduled"
  BY AdminReads DEF Inactivate, ScheduledMarkers
<1>3. w \in Plan
  BY <1>2, ReconcileType
<1> HIDE DEF w
<1>4. GoodTx(tx)
  BY <1>2, <1>3, FreshId, InactivateGood
<1>5. FromRow(p, tx)
  BY <1>2 DEF FromRow, Available, InactivateTx, Swap, Permits, NoPermit
<1>6. Novel(tx) = {}
  BY SettledIds DEF InactivateTx
<1> QED
  BY <1>1, <1>4, <1>5, <1>6 DEF Builds, Built

\* Cancellation by an administrator.
LEMMA CancelJobBuilds ==
  ASSUME IInv, NEW p \in Procs, NEW j \in Jobs, CancelJob(p, j)
  PROVE  Builds(p)
<1>1. rows[j] \in Row /\ rows[j].job \in Record
  BY AdminReads
<1>2. CASE Begin(p, SignalTx(j, rows[j]))
  <2> DEFINE tx == SignalTx(j, rows[j])
  <2>1. GoodTx(tx)
    BY <1>1, SignalGood
  <2>2. FromRow(p, tx)
    BY DEF FromRow, CancelJob, Administers, Available, SignalTx, Swap, Permits, NoPermit
  <2>3. Novel(tx) = {}
    BY DEF SignalTx, Novel
  <2> QED
    BY <1>2, <2>1, <2>2, <2>3 DEF Builds, Built
<1>3. CASE Inactivate(p, j, Released(rows[j].job, "cancelled"))
  <2>1. Settles(rows[j].job, Released(rows[j].job, "cancelled"))
        /\ Released(rows[j].job, "cancelled").state = "cancelled"
    BY <1>1, ReleasedRecord DEF JobStates
  <2> QED
    BY <1>3, <2>1, InactivateBuilds DEF CancelJob, Administers
<1>4. ASSUME rows[j].job.state = "suspended", NEW id \in FreshIds,
             Begin(p, CancelSuspendedTx(j, rows[j], id))
      PROVE  Builds(p)
  <2> DEFINE tx == CancelSuspendedTx(j, rows[j], id)
  <2>1. GoodTx(tx)
    BY <1>1, <1>4, FreshId, CancelSuspendedGood
  <2>2. FromRow(p, tx)
    BY <1>4 DEF FromRow, CancelJob, Administers, Available, CancelSuspendedTx, Swap, Permits, NoPermit
  <2>3. Novel(tx) = {}
    BY <1>1, ReleasedRecord, SettledIds DEF CancelSuspendedTx, JobStates
  <2> QED
    BY <1>4, <2>1, <2>2, <2>3 DEF Builds, Built
<1> QED
  BY <1>2, <1>3, <1>4 DEF CancelJob

\* Suspension.
LEMMA SuspendBuilds ==
  ASSUME IInv, NEW p \in Procs, NEW j \in Jobs, SuspendJob(p, j)
  PROVE  Builds(p)
<1>1. rows[j].job \in Record
  BY AdminReads
<1>2. Settles(rows[j].job, Released(rows[j].job, "suspended"))
      /\ Released(rows[j].job, "suspended").state = "suspended"
  BY <1>1, ReleasedRecord DEF JobStates
<1> QED
  BY <1>2, InactivateBuilds DEF SuspendJob, Administers

\* Resumption.
LEMMA ResumeBuilds ==
  ASSUME IInv, NEW p \in Procs, NEW j \in Jobs, ResumeJob(p, j)
  PROVE  Builds(p)
<1> DEFINE w == Reconcile({}, {rows[j].job.sched})
<1>1. PICK id \in FreshIds : Begin(p, ResumeTx(j, rows[j], id, w))
  BY DEF ResumeJob
<1> DEFINE tx == ResumeTx(j, rows[j], id, w)
<1>2. /\ TypeOK /\ rows[j] \in Row /\ rows[j].job \in Record /\ rows[j].job.sched \in Int
      /\ rows[j].job.state = "suspended"
  BY AdminReads DEF ResumeJob
<1>3. w \in Plan
  BY <1>2, ReconcileType
<1> HIDE DEF w
<1>4. GoodTx(tx)
  BY <1>2, <1>3, FreshId, ResumeGood
<1>5. FromRow(p, tx)
  BY <1>2 DEF FromRow, ResumeJob, Administers, Available, ResumeTx, Swap, Permits, NoPermit
<1>6. Novel(tx) = {}
  BY <1>2, ReleasedRecord, SettledIds DEF ResumeTx, JobStates
<1> QED
  BY <1>1, <1>4, <1>5, <1>6 DEF Builds, Built

\* Recovery of an expired lease.
LEMMA ExpireLeaseBuilds ==
  ASSUME IInv, NEW p \in Procs, Available(p), NEW j \in Jobs, ExpireLease(p, j)
  PROVE  Builds(p)
<1> DEFINE new == RecoveredRecord(rows[j].job, rows[j].canc, now)
           include == IF new.state = "scheduled" THEN {now} ELSE {}
           w == Reconcile({}, include)
<1>1. PICK id \in FreshIds : Begin(p, ExpireLeaseTx(j, rows[j], new, id, OwnedKeys(j), w))
  BY DEF ExpireLease
<1> DEFINE tx == ExpireLeaseTx(j, rows[j], new, id, OwnedKeys(j), w)
<1>2. /\ TypeOK /\ rows[j] \in Row /\ rows[j].job \in Record /\ rows[j].canc \in BOOLEAN
      /\ now \in Int /\ rows[j].job.lease.until <= now
  BY AdminReads DEF ExpireLease
<1>3. Settles(rows[j].job, new) /\ new.state \in {"scheduled", "dead", "cancelled"}
  BY <1>2, RecoveredRecordType
<1> HIDE DEF new
<1>4. w \in Plan
  BY <1>2, ReconcileType
<1> HIDE DEF w
<1>5. GoodTx(tx)
  BY <1>2, <1>3, <1>4, FreshId, OwnedKeysType, ExpireLeaseGood
<1>6. FromRow(p, tx)
  BY <1>2 DEF FromRow, Available, ExpireLeaseTx, Swap, Permits, NoPermit
<1>7. Novel(tx) = {}
  BY <1>3, SettledIds DEF ExpireLeaseTx
<1> QED
  BY <1>1, <1>5, <1>6, <1>7 DEF Builds, Built

\* Expiry of a job, leased or scheduled.
LEMMA ExpireBuilds ==
  ASSUME IInv, NEW p \in Procs, NEW j \in Jobs, ExpireJob(p, j)
  PROVE  Builds(p)
<1>1. rows[j].job \in Record /\ now \in Int
  BY AdminReads
<1>2. Settles(rows[j].job, DeadRecord(rows[j].job, now)) /\ DeadRecord(rows[j].job, now).state = "dead"
  BY <1>1, DeadRecordType
<1> QED
  BY <1>2, InactivateBuilds, ExpireLeaseBuilds DEF ExpireJob, Administers

\* Redrive of a dead letter.
LEMMA RedriveBuilds ==
  ASSUME IInv, NEW p \in Procs, NEW j \in Jobs, RedriveJob(p, j)
  PROVE  Builds(p)
<1>1. PICK d \in Delays, id \in FreshIds, reuse \in BOOLEAN :
        LET exec == IF reuse THEN rows[j].job.exec ELSE id
            new == RedrivenRecord(rows[j].job, exec, now + d)
        IN Begin(p, RedriveTx(j, rows[j], new, id, Reconcile({}, {new.sched})))
  BY DEF RedriveJob
<1> DEFINE exec == IF reuse THEN rows[j].job.exec ELSE id
           at == now + d
           new == RedrivenRecord(rows[j].job, exec, at)
           w == Reconcile({}, {new.sched})
           tx == RedriveTx(j, rows[j], new, id, w)
<1>2. TypeOK /\ rows[j] \in Row /\ rows[j].job \in Record /\ now \in Int
      /\ rows[j].job.state = "dead"
  BY AdminReads DEF RedriveJob
<1>3. /\ exec \in Nat /\ at \in Int
      /\ exec = rows[j].job.exec \/ (exec = id /\ exec \notin RecordIds(rows[j].job) \cup {NoId})
  <2>1. id \in Nat /\ id # NoId /\ id \notin RecordIds(rows[j].job)
    BY FreshId DEF NoId
  <2> QED
    BY <1>2, <2>1, EnvironmentAssumption DEF Record
<1>4. Begin(p, tx)
  BY <1>1
<1> HIDE DEF exec, at
<1>5. /\ new \in Record /\ new.state = "scheduled" /\ new.rev = rows[j].job.rev + 1
      /\ new.exec = exec /\ new.lease = NoLease
  <2>1. rows[j].job \in Record /\ at \in Int /\ now \in Int /\ exec \in Nat
    BY <1>2, <1>3
  <2> QED
    BY <2>1, RescheduledRecordType, ZenonT(60)
<1> HIDE DEF new
<1>6. w \in Plan
  <2>1. new.sched \in Int
    BY <1>5 DEF Record
  <2> QED
    BY <1>2, <2>1, ReconcileType
<1> HIDE DEF w
<1>7. GoodTx(tx)
  BY <1>2, <1>3, <1>5, <1>6, FreshId, RedriveGood
<1>8. FromRow(p, tx)
  BY <1>2 DEF FromRow, RedriveJob, Administers, Available, RedriveTx, Swap, Permits, NoPermit
<1>9. Novel(tx) \subseteq FreshIds
  BY <1>3, <1>5 DEF Novel, RecordIds, RedriveTx, NoLease
<1> QED
  BY <1>4, <1>7, <1>8, <1>9 DEF Builds, Built

\* Repair of the routes of a scheduled job.
LEMMA RepairBuilds ==
  ASSUME IInv, NEW p \in Procs, NEW j \in Jobs, RepairJob(p, j)
  PROVE  Builds(p)
<1> DEFINE w == Reconcile({}, {rows[j].job.sched})
           tx == RepairTx(j, rows[j], w)
<1>1. Begin(p, tx) /\ rows[j].job.state = "scheduled" /\ rows[j].op.kind = "live"
  BY DEF RepairJob
<1>2. TypeOK /\ rows[j] \in Row /\ rows[j].job \in Record /\ rows[j].job.sched \in Int
  BY AdminReads
<1>3. w \in Plan
  BY <1>2, ReconcileType
<1> HIDE DEF w
<1>4. GoodTx(tx)
  BY <1>1, <1>2, <1>3, RepairGood
<1>5. FromRow(p, tx)
  BY <1>1 DEF FromRow, RepairJob, Administers, Available, RepairTx, Swap, Permits, NoPermit
<1>6. Novel(tx) = {}
  BY <1>2, ReleasedRecord, SettledIds DEF RepairTx, JobStates
<1> QED
  BY <1>1, <1>4, <1>5, <1>6 DEF Builds, Built

-----------------------------------------------------------------------------
(* The steps, sorted                                                       *)

\* A step of process p that does not build a transaction.
Other(p) ==
  \/ \E j \in Jobs : LoadCandidate(p, j)
  \/ FinishClaim(p)
  \/ Holding(p) /\ LoseAuthority(p)
  \/ Forfeit(p)
  \/ CommitKnown(p) \/ CommitUnknown(p) \/ Probe(p) \/ RefreshWake(p)
  \/ Land(p) \/ LandLate(p) \/ FailCall(p) \/ Crash(p)

\* Every call of a producer, a worker or an administrator either builds a
\* transaction from what it has read or is a step of the protocol.
LEMMA Sorted ==
  ASSUME IInv, [Next]_vars
  PROVE  \/ \E p \in Procs : Builds(p) \/ Other(p)
         \/ \E j \in Jobs : CorruptPayload(j)
         \/ Tick \/ UNCHANGED vars
<1>1. ASSUME NEW p \in Procs, NEW j \in Jobs,
             Enqueue(p, j) \/ LoadCandidate(p, j) \/ AdminCall(p, j)
      PROVE  Builds(p) \/ Other(p)
  BY <1>1, EnqueueBuilds, CancelJobBuilds, SuspendBuilds, ResumeBuilds,
     ExpireBuilds, RedriveBuilds, RepairBuilds DEF AdminCall, Other
<1>2. ASSUME NEW p \in Procs, ClaimCall(p)
      PROVE  Builds(p) \/ Other(p)
  BY <1>2, PrepareClaimBuilds, QuarantineBuilds DEF ClaimCall, Other
<1>3. ASSUME NEW p \in Procs, WorkerCall(p)
      PROVE  Builds(p) \/ Other(p)
  <2>1. CASE Continue(p)
    <3>1. PICK d \in Delays : ContinueAt(p, now + d)
      BY <2>1 DEF Continue
    <3>2. now + d \in Int /\ claim[p].held
      BY <2>1, EnvironmentAssumption DEF Continue, Holding, IInv, TypeOK
    <3> QED
      BY <2>1, <3>1, <3>2, ContinueBuilds DEF Continue, Holding
  <2>2. CASE DeadLetter(p)
    BY <2>2, DeadLetterBuilds DEF DeadLetter, Holding
  <2>3. CASE Renew(p) \/ Checkpoint(p)
    BY <2>3, RenewBuilds DEF Other
  <2>4. CASE Forfeit(p)
    BY <2>4 DEF Other
  <2> QED
    BY <1>3, <2>1, <2>2, <2>3, <2>4, CompleteBuilds, RetryBuilds, CancelClaimBuilds,
       RequestBuilds DEF WorkerCall
<1>4. ASSUME NEW p \in Procs,
             Commit(p) \/ Land(p) \/ LandLate(p) \/ FailCall(p) \/ Crash(p)
      PROVE  Other(p)
  BY <1>4 DEF Commit, Other
<1> QED
  BY <1>1, <1>2, <1>3, <1>4 DEF Next, Step

-----------------------------------------------------------------------------
(* The three ways a step changes the state                                 *)

\* A call that begins with a good transaction.
LEMMA BeginStep ==
  ASSUME IInv, NEW p \in Procs, NEW tx, GoodTx(tx), Begin(p, tx),
         tx.kind = "renew" => claim[p].held
  PROVE  IInv'
<1>1. Committing(tx) \in CommitCall /\ Committing(tx).phase = "commit" /\ Committing(tx).tx = tx
  BY DEF GoodTx, Committing, CommitCall, CommitPhases, Estimates
<1>2. TypeOK'
  BY <1>1 DEF IInv, TypeOK, Begin, store, Calls, CommitCall
<1>3. RowsCoherent'
  BY DEF IInv, RowsCoherent, Begin, store
<1>4. PendingOK'
  BY <1>1 DEF IInv, TypeOK, PendingOK, GoodTx, Begin, store
<1> QED
  BY <1>2, <1>3, <1>4 DEF IInv

\* The store applies a good transaction, or refuses it.
LEMMA EvaluateStep ==
  ASSUME TypeOK, RowsCoherent, NEW tx, GoodTx(tx), Evaluate(tx)
  PROVE  /\ rows' \in [Jobs -> Row] /\ permits' \in [PermitKeys -> Nat] /\ wake' \in Int
         /\ RowsCoherent'
<1>1. CASE ~Fits(tx)
  BY <1>1 DEF Evaluate, TypeOK, RowsCoherent, store
<1>2. CASE Fits(tx)
  <2>1. tx \in Tx /\ tx.job \in Jobs
    BY DEF GoodTx, Tx
  <2>2. rows[tx.job] \in Row /\ RowOK(rows[tx.job]) /\ RowFits(rows[tx.job], tx)
    BY <1>2, <2>1 DEF TypeOK, RowsCoherent, Fits
  <2>3. RowAfter(rows[tx.job], tx) \in Row /\ RowOK(RowAfter(rows[tx.job], tx))
    BY <2>1, <2>2, RowAfterType DEF GoodTx, Preserving, Outcome
  <2>4. rows' = [rows EXCEPT ![tx.job] = RowAfter(rows[tx.job], tx)]
    BY <1>2 DEF Evaluate
  <2>5. rows' \in [Jobs -> Row]
    BY <2>1, <2>3, <2>4 DEF TypeOK
  <2>6. RowsCoherent'
    BY <2>1, <2>3, <2>4 DEF RowsCoherent, TypeOK
  <2>7. permits' \in [PermitKeys -> Nat]
    BY <1>2, <2>1 DEF Evaluate, PermitsAfter, TypeOK, Tx
  <2>8. wake' \in Int
    BY <1>2, <2>1 DEF Evaluate, WakeAfter, TypeOK, Tx
  <2> QED
    BY <2>5, <2>6, <2>7, <2>8
<1> QED
  BY <1>1, <1>2

\* A call that returns leaves no transaction of its own in flight.
LEMMA ReturnStep ==
  ASSUME IInv, NEW p \in Procs, NEW ok \in BOOLEAN, Return(p, ok)
  PROVE  /\ claim' \in [Procs -> Claim \cup {NoClaim}] /\ call' \in [Procs -> Calls]
         /\ call'[p].phase \notin CommitPhases
         /\ \A q \in Procs \ {p} : call'[q] = call[q] /\ claim'[q] = claim[q]
<1> DEFINE kind == IF call[p].phase \in CommitPhases THEN call[p].tx.kind ELSE "none"
<1>0. TypeOK
  BY DEF IInv
<1>1. kind # "none" => call[p] \in CommitCall /\ call[p].tx \in Tx
  BY <1>0, CallFields DEF CommitCall, TxKinds
<1>2. kind = "renew" => claim[p] \in Claim
  BY <1>0, HeldClaim DEF IInv, PendingOK
<1>3. kind = "claim" => ClaimOf(call[p].tx) \in Claim
  BY <1>1 DEF ClaimOf, Claim, Tx, Marks
<1>4. /\ call' \in [Procs -> Calls] /\ call'[p].phase \notin CommitPhases
      /\ \A q \in Procs \ {p} : call'[q] = call[q]
  BY <1>0, <1>3 DEF Return, TypeOK, Calls, Loading, Idle, CommitPhases
<1>5. /\ claim' \in [Procs -> Claim \cup {NoClaim}]
      /\ \A q \in Procs \ {p} : claim'[q] = claim[q]
  <2>1. CASE kind = "renew" /\ ok
    <3>1. claim' = [claim EXCEPT ![p] = [claim[p] EXCEPT !.rec = call[p].tx.new,
                                                        !.op = call[p].tx.op.new]]
      BY <2>1 DEF Return
    <3>2. [claim[p] EXCEPT !.rec = call[p].tx.new, !.op = call[p].tx.op.new] \in Claim
      BY <1>1, <1>2, <2>1 DEF Claim, Tx
    <3> QED
      BY <1>0, <3>1, <3>2 DEF TypeOK
  <2>2. CASE kind = "renew" /\ ~ok
    <3>1. claim' = [claim EXCEPT ![p] = [claim[p] EXCEPT !.lost = TRUE]]
      BY <2>2 DEF Return
    <3>2. [claim[p] EXCEPT !.lost = TRUE] \in Claim
      BY <1>2, <2>2 DEF Claim
    <3> QED
      BY <1>0, <3>1, <3>2 DEF TypeOK
  <2>3. CASE kind = "settle"
    BY <1>0, <2>3 DEF Return, TypeOK
  <2>4. CASE kind \notin {"renew", "settle"}
    BY <1>0, <2>4 DEF Return, TypeOK
  <2> QED
    BY <2>1, <2>2, <2>3, <2>4
<1> QED
  BY <1>4, <1>5

-----------------------------------------------------------------------------
(* Steps that leave the store alone                                        *)

\* What one process does is all that has to be looked at.
LEMMA FrameStep ==
  ASSUME IInv, NEW p \in Procs, TypeOK', RowsCoherent',
         \A q \in Procs \ {p} : call'[q] = call[q] /\ claim'[q] = claim[q] /\ limbo'[q] = limbo[q],
         call'[p].phase \in CommitPhases =>
           /\ GoodTx(call'[p].tx)
           /\ call'[p].tx.kind = "renew" => claim'[p].held
           /\ call'[p].phase = "refresh" => call'[p].est = "conflict",
         limbo'[p] # NoTx => GoodTx(limbo'[p])
  PROVE  IInv'
<1>1. PendingOK'
  BY DEF IInv, PendingOK
<1> QED
  BY <1>1 DEF IInv

\* Discovery of a candidate.
LEMMA LoadCandidateStep ==
  ASSUME IInv, NEW p \in Procs, NEW j \in Jobs, LoadCandidate(p, j)
  PROVE  IInv'
<1> DEFINE c == Claiming(j, rows[j].job, rows[j].job.sched \in rows[j].due, now)
<1>1. call' = [call EXCEPT ![p] = c] /\ UNCHANGED <<now, rows, permits, wake, claim, limbo>>
  BY DEF LoadCandidate, store
<1>2. c \in Calls /\ c.phase = "claiming"
  <2>1. rows[j].job \in Record /\ now \in Int
    BY AdminReads
  <2> QED
    BY <2>1 DEF Claiming, Calls
<1> HIDE DEF c
<1>3. TypeOK'
  BY <1>1, <1>2 DEF IInv, TypeOK
<1>4. RowsCoherent'
  BY <1>1 DEF IInv, RowsCoherent
<1>5. call'[p].phase \notin CommitPhases
  BY <1>1, <1>2 DEF IInv, TypeOK, CommitPhases
<1>6. /\ \A q \in Procs \ {p} : call'[q] = call[q] /\ claim'[q] = claim[q] /\ limbo'[q] = limbo[q]
      /\ limbo'[p] # NoTx => GoodTx(limbo'[p])
  BY <1>1 DEF IInv, TypeOK, PendingOK
<1> QED
  BY <1>3, <1>4, <1>5, <1>6, FrameStep

\* The payload of a committed claim is read.
LEMMA FinishClaimStep ==
  ASSUME IInv, NEW p \in Procs, FinishClaim(p)
  PROVE  IInv'
<1> DEFINE c == call[p].claim
<1>1. TypeOK /\ call[p].phase = "loading" /\ UNCHANGED <<now, rows, permits, wake, limbo>>
  BY DEF IInv, FinishClaim, store
<1>2. c \in Claim /\ c.job \in Jobs
  BY <1>1, CallFields DEF Claim
<1>3. Idle \in Calls /\ Idle.phase \notin CommitPhases
      /\ Corrupt(c.job) \in Calls /\ Corrupt(c.job).phase \notin CommitPhases
  BY <1>2 DEF Calls, Idle, Corrupt, CommitPhases
<1>4. /\ claim' \in [Procs -> Claim \cup {NoClaim}] /\ call' \in [Procs -> Calls]
      /\ call'[p].phase \notin CommitPhases
      /\ \A q \in Procs \ {p} : call'[q] = call[q] /\ claim'[q] = claim[q]
  <2>1. CASE rows[c.job].payload
    BY <1>1, <1>2, <1>3, <2>1 DEF FinishClaim, TypeOK
  <2>2. CASE ~rows[c.job].payload
    BY <1>1, <1>2, <1>3, <2>2 DEF FinishClaim, TypeOK
  <2> QED
    BY <2>1, <2>2
<1>5. TypeOK'
  BY <1>1, <1>4 DEF TypeOK
<1>6. RowsCoherent'
  BY <1>1 DEF IInv, RowsCoherent
<1>7. limbo' = limbo /\ (limbo'[p] # NoTx => GoodTx(limbo'[p]))
  BY <1>1 DEF IInv, PendingOK
<1> QED
  BY <1>4, <1>5, <1>6, <1>7, FrameStep

\* A claim loses its authority.
LEMMA LoseAuthorityStep ==
  ASSUME IInv, NEW p \in Procs, claim[p].held, LoseAuthority(p)
  PROVE  IInv'
<1> DEFINE c == [claim[p] EXCEPT !.lost = TRUE]
<1>1. TypeOK
  BY DEF IInv
<1>2. claim' = [claim EXCEPT ![p] = c] /\ UNCHANGED <<now, rows, permits, wake, call, limbo>>
  BY DEF LoseAuthority, store
<1>3. c \in Claim /\ c.held
  BY <1>1, HeldClaim DEF Claim
<1>4. TypeOK'
  BY <1>1, <1>2, <1>3 DEF TypeOK
<1>5. RowsCoherent'
  BY <1>2 DEF IInv, RowsCoherent
<1>6. PendingOK'
  BY <1>1, <1>2, <1>3 DEF IInv, PendingOK, TypeOK
<1> QED
  BY <1>4, <1>5, <1>6 DEF IInv

\* A claim that is given up.
LEMMA ForfeitStep ==
  ASSUME IInv, NEW p \in Procs, Forfeit(p)
  PROVE  IInv'
<1>1. claim' = [claim EXCEPT ![p] = NoClaim] /\ UNCHANGED <<now, rows, permits, wake, call, limbo>>
      /\ call[p] = Idle
  BY DEF Forfeit, store, Holding, Available
<1>2. TypeOK'
  BY <1>1 DEF IInv, TypeOK
<1>3. RowsCoherent'
  BY <1>1 DEF IInv, RowsCoherent
<1>4. call'[p].phase \notin CommitPhases
  BY <1>1 DEF Idle, CommitPhases
<1>5. /\ \A q \in Procs \ {p} : call'[q] = call[q] /\ claim'[q] = claim[q] /\ limbo'[q] = limbo[q]
      /\ limbo'[p] # NoTx => GoodTx(limbo'[p])
  BY <1>1 DEF IInv, TypeOK, PendingOK
<1> QED
  BY <1>2, <1>3, <1>4, <1>5, FrameStep

-----------------------------------------------------------------------------
(* The commit protocol                                                     *)

\* A transaction left behind is one that was good.
LEMMA LeaveBehindStep ==
  ASSUME IInv, NEW p \in Procs, NEW maybe, LeaveBehind(p, maybe)
  PROVE  /\ limbo' \in [Procs -> Tx \cup {NoTx}]
         /\ \A q \in Procs \ {p} : limbo'[q] = limbo[q]
         /\ limbo'[p] # NoTx => GoodTx(limbo'[p])
<1>1. CASE limbo' = limbo
  BY <1>1 DEF IInv, TypeOK, PendingOK
<1>2. CASE limbo' # limbo
  <2>1. call[p].phase \in CommitPhases /\ limbo' = [limbo EXCEPT ![p] = call[p].tx]
    BY <1>2 DEF LeaveBehind
  <2>2. call[p].tx \in Tx /\ GoodTx(call[p].tx)
    BY <2>1, CallFields DEF IInv, PendingOK, CommitCall
  <2> QED
    BY <2>1, <2>2 DEF IInv, TypeOK
<1> QED
  BY <1>1, <1>2

\* A call returns, whatever the store has done in the same step.
LEMMA ReturnedStep ==
  ASSUME IInv, NEW p \in Procs, NEW ok \in BOOLEAN, Return(p, ok), now' = now,
         rows' \in [Jobs -> Row], permits' \in [PermitKeys -> Nat], wake' \in Int, RowsCoherent',
         limbo' \in [Procs -> Tx \cup {NoTx}],
         \A q \in Procs \ {p} : limbo'[q] = limbo[q],
         limbo'[p] # NoTx => GoodTx(limbo'[p])
  PROVE  IInv'
<1>1. /\ claim' \in [Procs -> Claim \cup {NoClaim}] /\ call' \in [Procs -> Calls]
      /\ call'[p].phase \notin CommitPhases
      /\ \A q \in Procs \ {p} : call'[q] = call[q] /\ claim'[q] = claim[q]
  BY ReturnStep
<1>2. TypeOK'
  BY <1>1 DEF IInv, TypeOK
<1> QED
  BY <1>1, <1>2, FrameStep

\* The call of a process stays in the commit protocol with its transaction.
LEMMA ProtocolStep ==
  ASSUME IInv, NEW p \in Procs, NEW c \in CommitCall, call[p].phase \in CommitPhases,
         c.phase = "refresh" => c.est = "conflict", c.tx = call[p].tx, call' = [call EXCEPT ![p] = c], now' = now, claim' = claim, limbo' = limbo,
         rows' \in [Jobs -> Row], permits' \in [PermitKeys -> Nat], wake' \in Int, RowsCoherent'
  PROVE  IInv'
<1>1. TypeOK'
  BY DEF IInv, TypeOK, Calls, CommitCall
<1>2. call'[p] = c /\ \A q \in Procs \ {p} : call'[q] = call[q]
  BY DEF IInv, TypeOK
<1>3. GoodTx(c.tx) /\ (c.tx.kind = "renew" => claim[p].held)
  BY DEF IInv, PendingOK
<1>4. limbo'[p] # NoTx => GoodTx(limbo'[p])
  BY DEF IInv, PendingOK
<1> QED
  BY <1>1, <1>2, <1>3, <1>4, FrameStep

\* The transaction of a call in the protocol is good.
LEMMA CallTx ==
  ASSUME IInv, NEW p \in Procs, call[p].phase \in CommitPhases
  PROVE  call[p] \in CommitCall /\ GoodTx(call[p].tx)
<1>1. TypeOK
  BY DEF IInv
<1>2. call[p] \in CommitCall
  BY <1>1, CallFields
<1> QED
  BY <1>2 DEF IInv, PendingOK

\* A known outcome.
LEMMA CommitKnownStep ==
  ASSUME IInv, NEW p \in Procs, CommitKnown(p)
  PROVE  IInv'
<1> DEFINE c == call[p]
           committed == c.est = "committed" \/ (c.est = "open" /\ Fits(c.tx))
<1>1. c.phase \in CommitPhases /\ now' = now /\ limbo' = limbo
  BY DEF CommitKnown, CommitPhases
<1>2. c \in CommitCall /\ GoodTx(c.tx)
  BY <1>1, CallTx
<1>3. /\ rows' \in [Jobs -> Row] /\ permits' \in [PermitKeys -> Nat] /\ wake' \in Int
      /\ RowsCoherent'
  <2>1. CASE c.est = "open"
    BY <1>2, <2>1, EvaluateStep DEF CommitKnown, IInv
  <2>2. CASE c.est # "open"
    BY <2>2 DEF CommitKnown, IInv, TypeOK, RowsCoherent, store
  <2> QED
    BY <2>1, <2>2
<1>4. /\ limbo' \in [Procs -> Tx \cup {NoTx}] /\ \A q \in Procs \ {p} : limbo'[q] = limbo[q]
      /\ limbo'[p] # NoTx => GoodTx(limbo'[p])
  BY <1>1 DEF IInv, TypeOK, PendingOK
<1>5. ASSUME NEW ok \in BOOLEAN, Return(p, ok)
      PROVE  IInv'
  BY <1>1, <1>3, <1>4, <1>5, ReturnedStep
<1>6. CASE committed
  BY <1>5, <1>6 DEF CommitKnown
<1>7. CASE ~committed
  <2>1. OnConflict(p)
    BY <1>7 DEF CommitKnown
  <2>2. CASE Return(p, FALSE)
    BY <1>5, <2>2
  <2>3. CASE ~Return(p, FALSE)
    <3> DEFINE d == [c EXCEPT !.phase = "refresh", !.est = "conflict"]
    <3>1. call' = [call EXCEPT ![p] = d] /\ claim' = claim
      BY <2>1, <2>3 DEF OnConflict
    <3>2. d \in CommitCall /\ d.tx = c.tx /\ d.est = "conflict"
      BY <1>2 DEF CommitCall, CommitPhases, Estimates
    <3> HIDE DEF d
    <3> QED
      BY <1>1, <1>3, <3>1, <3>2, ProtocolStep
  <2> QED
    BY <2>2, <2>3
<1> QED
  BY <1>6, <1>7

\* An unknown outcome.
LEMMA CommitUnknownStep ==
  ASSUME IInv, NEW p \in Procs, CommitUnknown(p)
  PROVE  IInv'
<1> DEFINE d == [call[p] EXCEPT !.phase = "probe"]
<1>1. /\ call[p].phase \in CommitPhases /\ call' = [call EXCEPT ![p] = d]
      /\ UNCHANGED <<now, rows, permits, wake, claim, limbo>>
  BY DEF CommitUnknown, CommitPhases, store
<1>2. d \in CommitCall /\ d.tx = call[p].tx /\ d.phase = "probe"
  BY <1>1, CallTx DEF CommitCall, CommitPhases
<1>3. /\ rows' \in [Jobs -> Row] /\ permits' \in [PermitKeys -> Nat] /\ wake' \in Int
      /\ RowsCoherent'
  BY <1>1 DEF IInv, TypeOK, RowsCoherent
<1> HIDE DEF d
<1> QED
  BY <1>1, <1>2, <1>3, ProtocolStep

\* A transaction is settled while its caller is in doubt.
LEMMA LandStep ==
  ASSUME IInv, NEW p \in Procs, Land(p)
  PROVE  IInv'
<1> DEFINE d == [call[p] EXCEPT !.est = IF Fits(call[p].tx) THEN "committed" ELSE "conflict"]
<1>1. /\ call[p].phase \in CommitPhases /\ call' = [call EXCEPT ![p] = d] /\ call[p].est = "open"
      /\ Evaluate(call[p].tx) /\ now' = now /\ claim' = claim /\ limbo' = limbo
  BY DEF Land, Sent, CommitPhases
<1>2. call[p] \in CommitCall /\ GoodTx(call[p].tx)
  BY <1>1, CallTx
<1>3. d \in CommitCall /\ d.tx = call[p].tx /\ d.phase # "refresh"
  BY <1>1, <1>2 DEF CommitCall, Estimates, IInv, PendingOK
<1>4. /\ rows' \in [Jobs -> Row] /\ permits' \in [PermitKeys -> Nat] /\ wake' \in Int
      /\ RowsCoherent'
  BY <1>1, <1>2, EvaluateStep DEF IInv
<1> HIDE DEF d
<1> QED
  BY <1>1, <1>3, <1>4, ProtocolStep

\* A transaction is settled after its caller has given up.
LEMMA LandLateStep ==
  ASSUME IInv, NEW p \in Procs, LandLate(p)
  PROVE  IInv'
<1>1. /\ limbo[p] # NoTx /\ Evaluate(limbo[p]) /\ limbo' = [limbo EXCEPT ![p] = NoTx]
      /\ now' = now /\ claim' = claim /\ call' = call
  BY DEF LandLate
<1>2. GoodTx(limbo[p])
  BY <1>1 DEF IInv, PendingOK
<1>3. /\ rows' \in [Jobs -> Row] /\ permits' \in [PermitKeys -> Nat] /\ wake' \in Int
      /\ RowsCoherent'
  BY <1>1, <1>2, EvaluateStep DEF IInv
<1>4. TypeOK'
  BY <1>1, <1>3 DEF IInv, TypeOK
<1>5. PendingOK'
  BY <1>1 DEF IInv, PendingOK, TypeOK
<1> QED
  BY <1>3, <1>4, <1>5 DEF IInv

\* The probe of an unknown outcome.
LEMMA ProbeStep ==
  ASSUME IInv, NEW p \in Procs, Probe(p)
  PROVE  IInv'
<1> DEFINE d == [call[p] EXCEPT !.phase = "commit", !.attempt = 1]
           again == ~Reached(call[p].tx) /\ Untouched(call[p].tx) /\ call[p].attempt = 0
<1>1. call[p].phase \in CommitPhases /\ UNCHANGED <<now, rows, permits, wake>>
  BY DEF Probe, CommitPhases, store
<1>2. /\ rows' \in [Jobs -> Row] /\ permits' \in [PermitKeys -> Nat] /\ wake' \in Int
      /\ RowsCoherent'
  BY <1>1 DEF IInv, TypeOK, RowsCoherent
<1>3. CASE again
  <2>1. call' = [call EXCEPT ![p] = d] /\ claim' = claim /\ limbo' = limbo
    BY <1>3 DEF Probe
  <2>2. d \in CommitCall /\ d.tx = call[p].tx /\ d.phase = "commit"
    BY <1>1, CallTx DEF CommitCall, CommitPhases
  <2> HIDE DEF d
  <2> QED
    BY <1>1, <1>2, <2>1, <2>2, ProtocolStep
<1>4. CASE ~again
  <2>1. Return(p, Reached(call[p].tx)) /\ LeaveBehind(p, TRUE)
    BY <1>4 DEF Probe
  <2>2. Return(p, TRUE) \/ Return(p, FALSE)
    BY <2>1 DEF Return
  <2> QED
    BY <1>1, <1>2, <2>1, <2>2, LeaveBehindStep, ReturnedStep
<1> QED
  BY <1>3, <1>4

\* The wake watermark of a conflicting transaction is read again.
LEMMA RefreshWakeStep ==
  ASSUME IInv, NEW p \in Procs, RefreshWake(p)
  PROVE  IInv'
<1> DEFINE re == RefreshedTx(call[p].tx, wake)
           d == [Committing(re) EXCEPT !.refreshed = TRUE]
<1>1. call[p].phase \in CommitPhases /\ UNCHANGED <<now, rows, permits, wake, limbo>>
  BY DEF RefreshWake, CommitPhases, store
<1>2. /\ rows' \in [Jobs -> Row] /\ permits' \in [PermitKeys -> Nat] /\ wake' \in Int
      /\ wake \in Int /\ RowsCoherent'
  BY <1>1 DEF IInv, TypeOK, RowsCoherent
<1>3. /\ limbo' \in [Procs -> Tx \cup {NoTx}] /\ \A q \in Procs \ {p} : limbo'[q] = limbo[q]
      /\ limbo'[p] # NoTx => GoodTx(limbo'[p])
  BY <1>1 DEF IInv, TypeOK, PendingOK
<1>4. CASE wake = call[p].tx.wake.old
  <2>1. Return(p, FALSE)
    BY <1>4 DEF RefreshWake
  <2> QED
    BY <1>1, <1>2, <1>3, <2>1, ReturnedStep
<1>5. CASE wake # call[p].tx.wake.old
  <2>1. call' = [call EXCEPT ![p] = d] /\ claim' = claim
    BY <1>5 DEF RefreshWake
  <2>2. call[p].tx \in Tx /\ GoodTx(call[p].tx)
    BY <1>1, CallTx DEF GoodTx
  <2>3. GoodTx(re) /\ re.kind = call[p].tx.kind
    <3>1. GoodTx(re) /\ re = [call[p].tx EXCEPT !.wake = re.wake]
      BY <1>2, <2>2, RefreshedGood
    <3> QED
      BY <2>2, <3>1 DEF Tx
  <2> HIDE DEF re
  <2>4. d \in CommitCall /\ d.tx = re /\ d.phase = "commit"
    BY <2>3 DEF Committing, CommitCall, CommitPhases, Estimates, GoodTx
  <2> HIDE DEF d
  <2>5. TypeOK'
    BY <1>1, <2>1, <2>4 DEF IInv, TypeOK, Calls, CommitCall
  <2>6. call'[p] = d /\ \A q \in Procs \ {p} : call'[q] = call[q]
    BY <2>1 DEF IInv, TypeOK
  <2>7. GoodTx(d.tx) /\ (d.tx.kind = "renew" => claim[p].held)
    BY <1>1, <2>3, <2>4 DEF IInv, PendingOK
  <2> QED
    BY <1>2, <1>3, <2>1, <2>4, <2>5, <2>6, <2>7, FrameStep
<1> QED
  BY <1>4, <1>5

\* A call that fails.
LEMMA FailCallStep ==
  ASSUME IInv, NEW p \in Procs, FailCall(p)
  PROVE  IInv'
<1>1. /\ UNCHANGED <<now, rows, permits, wake>> /\ Return(p, FALSE)
      /\ LeaveBehind(p, Sent(call[p]))
  BY DEF FailCall, store
<1>2. /\ rows' \in [Jobs -> Row] /\ permits' \in [PermitKeys -> Nat] /\ wake' \in Int
      /\ RowsCoherent'
  BY <1>1 DEF IInv, TypeOK, RowsCoherent
<1> QED
  BY <1>1, <1>2, LeaveBehindStep, ReturnedStep

\* A crash.
LEMMA CrashStep ==
  ASSUME IInv, NEW p \in Procs, Crash(p)
  PROVE  IInv'
<1>1. /\ UNCHANGED <<now, rows, permits, wake>>
      /\ call' = [call EXCEPT ![p] = Idle] /\ claim' = [claim EXCEPT ![p] = NoClaim]
      /\ LeaveBehind(p, MayDoubt(p))
  BY DEF Crash, store
<1>2. /\ limbo' \in [Procs -> Tx \cup {NoTx}] /\ \A q \in Procs \ {p} : limbo'[q] = limbo[q]
      /\ limbo'[p] # NoTx => GoodTx(limbo'[p])
  BY <1>1, LeaveBehindStep
<1>3. Idle \in Calls /\ Idle.phase \notin CommitPhases
  BY DEF Idle, Calls, CommitPhases
<1>4. TypeOK'
  BY <1>1, <1>2, <1>3 DEF IInv, TypeOK
<1>5. RowsCoherent'
  BY <1>1 DEF IInv, RowsCoherent
<1>6. /\ call'[p].phase \notin CommitPhases
      /\ \A q \in Procs \ {p} : call'[q] = call[q] /\ claim'[q] = claim[q]
  BY <1>1, <1>3 DEF IInv, TypeOK
<1> QED
  BY <1>2, <1>4, <1>5, <1>6, FrameStep

\* Damage to a payload.
LEMMA CorruptPayloadStep ==
  ASSUME IInv, NEW j \in Jobs, CorruptPayload(j)
  PROVE  IInv'
<1> DEFINE row == [rows[j] EXCEPT !.payload = FALSE]
<1>1. rows' = [rows EXCEPT ![j] = row] /\ UNCHANGED <<now, permits, wake, claim, call, limbo>>
  BY DEF CorruptPayload
<1>2. row \in Row /\ RowOK(row)
  BY AdminReads DEF Row, RowOK
<1> HIDE DEF row
<1>3. TypeOK'
  BY <1>1, <1>2 DEF IInv, TypeOK
<1>4. RowsCoherent'
  BY <1>1, <1>2 DEF IInv, TypeOK, RowsCoherent
<1>5. PendingOK'
  BY <1>1 DEF IInv, PendingOK
<1> QED
  BY <1>3, <1>4, <1>5 DEF IInv

-----------------------------------------------------------------------------
(* The theorems                                                            *)

\* The empty store is coherent and nothing is pending.
LEMMA Initial == Init => IInv
<1> SUFFICES ASSUME Init PROVE IInv
  OBVIOUS
<1>1. NoJob \in Record
  BY DEF NoJob, NoAttempts, NoLease, Record, JobStates, AttemptHistory, Lease, NoId, NoTime
<1>2. EmptyRow \in Row /\ RowOK(EmptyRow)
  <2>1. EmptyRow \in Row
    BY <1>1 DEF EmptyRow, Row, NoOp, Operation, OpKinds, NoId
  <2>2. RowOK(EmptyRow)
    BY DEF EmptyRow, RowOK, NoJob, NoOp
  <2> QED
    BY <2>1, <2>2
<1>3. TypeOK
  BY <1>2 DEF Init, TypeOK, Calls, Idle, NoId, NoTime
<1>4. RowsCoherent
  BY <1>2 DEF Init, RowsCoherent
<1>5. PendingOK
  BY DEF Init, PendingOK, Idle, CommitPhases
<1> QED
  BY <1>3, <1>4, <1>5 DEF IInv

\* A transaction that is built keeps the invariant.
LEMMA BuildsStep ==
  ASSUME IInv, NEW p \in Procs, Builds(p)
  PROVE  IInv'
<1>1. PICK tx : Built(p, tx) /\ Begin(p, tx)
  BY DEF Builds
<1>2. GoodTx(tx) /\ (tx.kind = "renew" => claim[p].held)
  BY <1>1 DEF Built, FromClaim, FromRow, FromCandidate
<1> QED
  BY <1>1, <1>2, BeginStep

\* Every step of every process keeps the invariant.
LEMMA Inductive == IInv /\ [Next]_vars => IInv'
<1> SUFFICES ASSUME IInv, [Next]_vars PROVE IInv'
  OBVIOUS
<1>1. ASSUME NEW p \in Procs, Other(p)
      PROVE  IInv'
  BY <1>1, LoadCandidateStep, FinishClaimStep, LoseAuthorityStep, ForfeitStep, CommitKnownStep,
     CommitUnknownStep, ProbeStep, RefreshWakeStep, LandStep, LandLateStep, FailCallStep,
     CrashStep DEF Other, Holding
<1>2. CASE Tick \/ UNCHANGED vars
  <2>1. now' \in Nat /\ UNCHANGED <<rows, permits, wake, claim, call, limbo>>
    BY <1>2 DEF Tick, vars, store, IInv, TypeOK
  <2>2. TypeOK'
    BY <2>1 DEF IInv, TypeOK
  <2>3. RowsCoherent'
    BY <2>1 DEF IInv, RowsCoherent
  <2>4. PendingOK'
    BY <2>1 DEF IInv, PendingOK
  <2> QED
    BY <2>2, <2>3, <2>4 DEF IInv
<1> QED
  BY <1>1, <1>2, Sorted, BuildsStep, CorruptPayloadStep

\* The invariant of the engine: types, coherent rows, and pending transactions
\* that keep the rows coherent whenever the store applies them.
THEOREM Invariant == Spec => []IInv
  BY Initial, Inductive, PTL DEF Spec

\* Every variable keeps its type in every behaviour of the engine, for all
\* jobs, processes, permit sets, policies and bounds.
THEOREM TypeCorrect == Spec => []TypeOK
<1>1. IInv => TypeOK
  BY DEF IInv
<1> QED
  BY <1>1, Invariant, PTL

\* The due, fair-ready, lease, dead-letter, cancellation and operation keys of
\* every job agree with its job value at all times: whichever calls race,
\* however late an unacknowledged transaction is applied, wherever a process
\* stops, and even where point reads are stale.
THEOREM Coherent == Spec => []RowsCoherent
<1>1. IInv => RowsCoherent
  BY DEF IInv
<1> QED
  BY <1>1, Invariant, PTL

-----------------------------------------------------------------------------
(***************************************************************************)
(* The steps of the engine seen from the store and from one process.       *)
(*                                                                         *)
(* Sorted leaves the steps that build a transaction and those of the       *)
(* commit protocol.  Here the latter are reduced to nine shapes, each an   *)
(* equation for what one process holds and for the rows and permits, in    *)
(* which the protocol's details no longer occur.  From the shapes follows  *)
(* that identities are handed out once: an identity a pending transaction  *)
(* brings in is named nowhere else until that transaction is applied.      *)
(***************************************************************************)

\* A transaction in the protocol that the store may still apply.
InFlight(c) == c.phase \in CommitPhases /\ c.est # "committed"

\* The same transaction up to its wake plan.
Like(tx, other) ==
  /\ tx.kind = other.kind /\ tx.job = other.job /\ tx.old = other.old /\ tx.new = other.new
  /\ tx.op = other.op /\ tx.permits = other.permits /\ tx.probe = other.probe

SameStore == rows' = rows /\ permits' = permits

Applied(tx) ==
  /\ RowFits(rows[tx.job], tx) /\ PermitsFit(permits, tx)
  /\ rows' = [rows EXCEPT ![tx.job] = RowAfter(rows[tx.job], tx)]
  /\ permits' = PermitsAfter(permits, tx)

\* What the other processes hold stays as it is.
Only(p) ==
  /\ now' = now
  /\ \A q \in Procs \ {p} : call'[q] = call[q] /\ claim'[q] = claim[q] /\ limbo'[q] = limbo[q]

\* A candidate is read.
Loads(p) ==
  /\ SameStore /\ claim'[p] = claim[p] /\ limbo'[p] = limbo[p]
  /\ ~claim[p].held
  /\ \E j \in Jobs, viaDue \in BOOLEAN :
       rows[j].job # NoJob /\ call'[p] = Claiming(j, rows[j].job, viaDue, now)

\* The payload of a committed claim is read.
Opens(p) ==
  /\ SameStore /\ limbo'[p] = limbo[p]
  /\ call[p].phase = "loading"
  /\ \/ call'[p] = Idle /\ claim'[p] = call[p].claim
     \/ /\ ~rows[call[p].claim.job].payload
        /\ call'[p] = Corrupt(call[p].claim.job) /\ claim'[p] = claim[p]

\* A claim loses its authority or is given up.
Drops(p) ==
  /\ SameStore /\ limbo'[p] = limbo[p] /\ call[p] = Idle /\ call'[p] = Idle
  /\ claim[p].held
  /\ claim'[p] = NoClaim \/ claim'[p] = [claim[p] EXCEPT !.lost = TRUE]

\* The transaction stays in the protocol.
Keeps(p) ==
  /\ SameStore /\ limbo'[p] = limbo[p] /\ claim'[p] = claim[p]
  /\ call[p].phase \in CommitPhases /\ call'[p].phase \in CommitPhases
  /\ Like(call'[p].tx, call[p].tx)
  /\ call'[p].est = "committed" <=> call[p].est = "committed"

\* It is applied while its caller waits.
Lands(p) ==
  /\ limbo'[p] = limbo[p] /\ claim'[p] = claim[p]
  /\ InFlight(call[p]) /\ Applied(call[p].tx)
  /\ call'[p].phase \in CommitPhases /\ call'[p].est = "committed"
  /\ call'[p].tx = call[p].tx

\* A transaction that was given up is applied or refused.
LandsLate(p) ==
  /\ claim'[p] = claim[p] /\ call'[p] = call[p]
  /\ limbo[p] # NoTx /\ limbo'[p] = NoTx
  /\ SameStore \/ Applied(limbo[p])

\* The claim a process holds after its call.
Keeping(p, ok) ==
  LET kind == IF call[p].phase \in CommitPhases THEN call[p].tx.kind ELSE "none"
  IN CASE kind = "settle" -> NoClaim
       [] kind = "renew" /\ ok ->
            [claim[p] EXCEPT !.rec = call[p].tx.new, !.op = call[p].tx.op.new]
       [] kind = "renew" /\ ~ok -> [claim[p] EXCEPT !.lost = TRUE]
       [] OTHER -> claim[p]

Granted(p) == call[p].phase \in CommitPhases /\ call[p].tx.kind = "claim"

\* The call succeeds: its transaction was applied before or is applied now, or
\* the value it was to write is there.
Answers(p) ==
  /\ call[p].phase \in CommitPhases
  /\ claim'[p] = Keeping(p, TRUE)
  /\ call'[p] = IF Granted(p) THEN Loading(ClaimOf(call[p].tx)) ELSE Idle
  /\ \/ call[p].est = "committed" /\ SameStore /\ limbo'[p] = limbo[p]
     \/ InFlight(call[p]) /\ Applied(call[p].tx) /\ limbo'[p] = limbo[p]
     \/ /\ InFlight(call[p]) /\ Reached(call[p].tx) /\ SameStore
        /\ limbo'[p] = limbo[p] \/ limbo'[p] = call[p].tx

\* The call fails; its transaction may be left behind.
Fails(p) ==
  /\ SameStore
  /\ claim'[p] = Keeping(p, FALSE) /\ call'[p] = Idle
  /\ limbo'[p] = limbo[p] \/ (InFlight(call[p]) /\ limbo'[p] = call[p].tx)

\* The process stops.
Stops(p) ==
  /\ SameStore
  /\ claim'[p] = NoClaim /\ call'[p] = Idle
  /\ limbo'[p] = limbo[p] \/ (InFlight(call[p]) /\ limbo'[p] = call[p].tx)

Shaped(p) ==
  /\ Only(p)
  /\ \/ Loads(p) \/ Opens(p) \/ Drops(p) \/ Keeps(p)
     \/ Lands(p) \/ LandsLate(p) \/ Answers(p) \/ Fails(p) \/ Stops(p)

-----------------------------------------------------------------------------
(* Every step of the protocol has one of the shapes                        *)

\* The store applies a transaction, or leaves rows and permits alone.
LEMMA EvaluateShape ==
  ASSUME NEW tx, Evaluate(tx)
  PROVE  IF Fits(tx) THEN Applied(tx) ELSE SameStore
  BY DEF Evaluate, Fits, Applied, SameStore, store

\* What a returning call leaves its process with.
LEMMA ReturnShape ==
  ASSUME IInv, NEW p \in Procs, NEW ok \in BOOLEAN, Return(p, ok)
  PROVE  /\ claim'[p] = Keeping(p, ok)
         /\ call'[p] = IF Granted(p) /\ ok THEN Loading(ClaimOf(call[p].tx)) ELSE Idle
         /\ \A q \in Procs \ {p} : call'[q] = call[q] /\ claim'[q] = claim[q]
<1> DEFINE kind == IF call[p].phase \in CommitPhases THEN call[p].tx.kind ELSE "none"
<1>1. call \in [Procs -> Calls] /\ claim \in [Procs -> Claim \cup {NoClaim}]
  BY DEF IInv, TypeOK
<1>2. call' = [call EXCEPT ![p] =
                 IF kind = "claim" /\ ok THEN Loading(ClaimOf(call[p].tx)) ELSE Idle]
  BY DEF Return
<1>3. kind = "claim" <=> Granted(p)
  BY DEF Granted
<1>4. \A q \in Procs \ {p} : call'[q] = call[q] /\ claim'[q] = claim[q]
  BY ReturnStep
<1>5. claim'[p] = Keeping(p, ok)
  <2>1. CASE kind = "settle"
    BY <1>1, <2>1 DEF Return, Keeping
  <2>2. CASE kind = "renew" /\ ok
    BY <1>1, <2>2 DEF Return, Keeping
  <2>3. CASE kind = "renew" /\ ~ok
    BY <1>1, <2>3 DEF Return, Keeping
  <2>4. CASE kind \notin {"settle", "renew"}
    BY <1>1, <2>4 DEF Return, Keeping
  <2> QED
    BY <2>1, <2>2, <2>3, <2>4
<1> QED
  BY <1>1, <1>2, <1>3, <1>4, <1>5

\* A transaction is left behind only while its outcome is open.
LEMMA LeaveShape ==
  ASSUME IInv, NEW p \in Procs, NEW maybe, LeaveBehind(p, maybe)
  PROVE  /\ limbo'[p] = limbo[p] \/ (InFlight(call[p]) /\ limbo'[p] = call[p].tx)
         /\ \A q \in Procs \ {p} : limbo'[q] = limbo[q]
<1>1. limbo \in [Procs -> Tx \cup {NoTx}]
  BY DEF IInv, TypeOK
<1> QED
  BY <1>1 DEF LeaveBehind, InFlight

\* The probe answers, or sends the transaction once more.
LEMMA ProbeShape ==
  ASSUME IInv, NEW p \in Procs, Probe(p)
  PROVE  Shaped(p)
<1> DEFINE tx == call[p].tx
           again == ~Reached(tx) /\ Untouched(tx) /\ call[p].attempt = 0
<1>1. call[p].phase \in CommitPhases /\ now' = now /\ SameStore
  BY DEF Probe, CommitPhases, store, SameStore
<1>2. call[p] \in CommitCall /\ tx \in Tx
  BY <1>1, CallTx DEF GoodTx
<1>3. CASE again
  <2> DEFINE d == [call[p] EXCEPT !.phase = "commit", !.attempt = 1]
  <2>1. call' = [call EXCEPT ![p] = d] /\ claim' = claim /\ limbo' = limbo
    BY <1>3 DEF Probe
  <2>2. d.phase \in CommitPhases /\ d.tx = tx /\ d.est = call[p].est
    BY <1>2 DEF CommitCall, CommitPhases
  <2>3. call'[p] = d /\ \A q \in Procs \ {p} : call'[q] = call[q]
    BY <2>1 DEF IInv, TypeOK
  <2>4. Only(p)
    BY <1>1, <2>1, <2>3 DEF Only
  <2>5. Keeps(p)
    BY <1>1, <2>1, <2>2, <2>3 DEF Keeps, Like
  <2> QED
    BY <2>4, <2>5 DEF Shaped
<1>4. CASE ~again
  <2>1. Return(p, Reached(tx)) /\ LeaveBehind(p, TRUE)
    BY <1>4 DEF Probe
  <2>2. /\ limbo'[p] = limbo[p] \/ (InFlight(call[p]) /\ limbo'[p] = tx)
        /\ \A q \in Procs \ {p} : limbo'[q] = limbo[q]
    BY <2>1, LeaveShape
  <2>3. CASE Reached(tx)
    <3>1. Return(p, TRUE)
      BY <2>1, <2>3 DEF Return
    <3>2. Only(p)
      BY <1>1, <2>2, <3>1, ReturnShape DEF Only
    <3>3. claim'[p] = Keeping(p, TRUE) /\ call'[p] = IF Granted(p) THEN Loading(ClaimOf(tx)) ELSE Idle
      BY <3>1, ReturnShape
    <3>4. Answers(p)
      BY <1>1, <1>2, <2>2, <2>3, <3>3 DEF Answers, InFlight
    <3> QED
      BY <3>2, <3>4 DEF Shaped
  <2>4. CASE ~Reached(tx)
    <3>1. Return(p, FALSE)
      BY <2>1, <2>4 DEF Return
    <3>2. Only(p) /\ claim'[p] = Keeping(p, FALSE) /\ call'[p] = Idle
      BY <1>1, <2>2, <3>1, ReturnShape DEF Only
    <3> QED
      BY <1>1, <2>2, <3>2 DEF Shaped, Fails
  <2> QED
    BY <2>3, <2>4
<1> QED
  BY <1>3, <1>4

\* A known outcome.
LEMMA CommitKnownShape ==
  ASSUME IInv, NEW p \in Procs, CommitKnown(p)
  PROVE  Shaped(p)
<1> DEFINE c == call[p]
           committed == c.est = "committed" \/ (c.est = "open" /\ Fits(c.tx))
<1>1. c.phase \in CommitPhases /\ now' = now /\ limbo' = limbo
  BY DEF CommitKnown, CommitPhases
<1>2. c \in CommitCall /\ c.tx \in Tx
  BY <1>1, CallTx DEF GoodTx
<1>3. CASE committed
  <2>1. Return(p, TRUE)
    BY <1>3 DEF CommitKnown
  <2>2. \/ c.est = "committed" /\ SameStore
        \/ InFlight(c) /\ Applied(c.tx)
    <3>1. CASE c.est = "open"
      BY <1>1, <1>3, <3>1, EvaluateShape DEF CommitKnown, InFlight
    <3>2. CASE c.est # "open"
      BY <1>3, <3>2 DEF CommitKnown, SameStore, store
    <3> QED
      BY <3>1, <3>2
  <2>3. Only(p) /\ claim'[p] = Keeping(p, TRUE)
        /\ call'[p] = IF Granted(p) THEN Loading(ClaimOf(c.tx)) ELSE Idle
    BY <1>1, <2>1, ReturnShape DEF Only
  <2> QED
    BY <1>1, <2>2, <2>3 DEF Shaped, Answers
<1>4. CASE ~committed
  <2>1. OnConflict(p)
    BY <1>4 DEF CommitKnown
  <2>2. SameStore
    BY <1>4, EvaluateShape DEF CommitKnown, SameStore, store
  <2>3. CASE Return(p, FALSE)
    <3>1. Only(p) /\ claim'[p] = Keeping(p, FALSE) /\ call'[p] = Idle
      BY <1>1, <2>3, ReturnShape DEF Only
    <3> QED
      BY <1>1, <2>2, <3>1 DEF Shaped, Fails
  <2>4. CASE ~Return(p, FALSE)
    <3> DEFINE d == [c EXCEPT !.phase = "refresh", !.est = "conflict"]
    <3>1. call' = [call EXCEPT ![p] = d] /\ claim' = claim
      BY <2>1, <2>4 DEF OnConflict
    <3>2. d.phase \in CommitPhases /\ d.tx = c.tx /\ d.est # "committed"
      BY <1>2 DEF CommitCall, CommitPhases
    <3>3. call'[p] = d /\ \A q \in Procs \ {p} : call'[q] = call[q]
      BY <3>1 DEF IInv, TypeOK
    <3>4. Only(p)
      BY <1>1, <3>1, <3>3 DEF Only
    <3>5. Keeps(p)
      BY <1>1, <1>4, <2>2, <3>1, <3>2, <3>3 DEF Keeps, Like
    <3> QED
      BY <3>4, <3>5 DEF Shaped
  <2> QED
    BY <2>3, <2>4
<1> QED
  BY <1>3, <1>4

\* An unknown outcome.
LEMMA CommitUnknownShape ==
  ASSUME IInv, NEW p \in Procs, CommitUnknown(p)
  PROVE  Shaped(p)
<1> DEFINE d == [call[p] EXCEPT !.phase = "probe"]
<1>1. /\ call[p].phase \in CommitPhases /\ call' = [call EXCEPT ![p] = d]
      /\ now' = now /\ claim' = claim /\ limbo' = limbo /\ SameStore
  BY DEF CommitUnknown, CommitPhases, store, SameStore
<1>2. d.phase \in CommitPhases /\ d.tx = call[p].tx /\ d.est = call[p].est
  BY <1>1, CallTx DEF CommitCall, CommitPhases
<1>3. call'[p] = d /\ \A q \in Procs \ {p} : call'[q] = call[q]
  BY <1>1 DEF IInv, TypeOK
<1>4. Only(p)
  BY <1>1, <1>3 DEF Only
<1>5. Keeps(p)
  BY <1>1, <1>2, <1>3 DEF Keeps, Like
<1> QED
  BY <1>4, <1>5 DEF Shaped

\* A transaction is settled while its caller is in doubt.
LEMMA LandShape ==
  ASSUME IInv, NEW p \in Procs, Land(p)
  PROVE  Shaped(p)
<1> DEFINE d == [call[p] EXCEPT !.est = IF Fits(call[p].tx) THEN "committed" ELSE "conflict"]
<1>1. /\ call[p].phase \in CommitPhases /\ call' = [call EXCEPT ![p] = d] /\ call[p].est = "open"
      /\ Evaluate(call[p].tx) /\ now' = now /\ claim' = claim /\ limbo' = limbo
  BY DEF Land, Sent, CommitPhases
<1>2. d.phase \in CommitPhases /\ d.tx = call[p].tx
      /\ d.est = IF Fits(call[p].tx) THEN "committed" ELSE "conflict"
  BY <1>1, CallTx DEF CommitCall
<1>3. call'[p] = d /\ \A q \in Procs \ {p} : call'[q] = call[q]
  BY <1>1 DEF IInv, TypeOK
<1> HIDE DEF d
<1>4. Only(p)
  BY <1>1, <1>3 DEF Only
<1>5. Lands(p) \/ Keeps(p)
  BY <1>1, <1>2, <1>3, EvaluateShape DEF Lands, Keeps, Like, InFlight
<1> QED
  BY <1>4, <1>5 DEF Shaped

\* The wake watermark of a conflicting transaction is read again.
LEMMA RefreshWakeShape ==
  ASSUME IInv, NEW p \in Procs, RefreshWake(p)
  PROVE  Shaped(p)
<1> DEFINE tx == call[p].tx
           re == RefreshedTx(tx, wake)
           d == [Committing(re) EXCEPT !.refreshed = TRUE]
<1>1. call[p].phase \in CommitPhases /\ now' = now /\ limbo' = limbo /\ SameStore
  BY DEF RefreshWake, CommitPhases, store, SameStore
<1>0. call[p].est # "committed"
  BY <1>1 DEF RefreshWake, IInv, PendingOK
<1>2. CASE wake = tx.wake.old
  <2>1. Return(p, FALSE)
    BY <1>2 DEF RefreshWake
  <2>2. Only(p) /\ claim'[p] = Keeping(p, FALSE) /\ call'[p] = Idle
    BY <1>1, <2>1, ReturnShape DEF Only
  <2> QED
    BY <1>1, <2>2 DEF Shaped, Fails
<1>3. CASE wake # tx.wake.old
  <2>1. call' = [call EXCEPT ![p] = d] /\ claim' = claim
    BY <1>3 DEF RefreshWake
  <2>2. GoodTx(tx) /\ tx \in Tx /\ wake \in Int
    BY <1>1, CallTx DEF GoodTx, IInv, TypeOK
  <2>3. Like(re, tx)
    <3>1. re = [tx EXCEPT !.wake = re.wake]
      BY <2>2, RefreshedGood
    <3> HIDE DEF re
    <3> QED
      BY <2>2, <3>1 DEF Like, Tx
  <2>4. d.tx = re /\ d.phase \in CommitPhases /\ d.est # "committed"
    BY DEF Committing, CommitPhases
  <2>5. call'[p] = d /\ \A q \in Procs \ {p} : call'[q] = call[q]
    BY <2>1 DEF IInv, TypeOK
  <2> HIDE DEF d, re
  <2>6. Only(p)
    BY <1>1, <2>1, <2>5 DEF Only
  <2>7. Keeps(p)
    BY <1>0, <1>1, <2>1, <2>3, <2>4, <2>5 DEF Keeps
  <2> QED
    BY <2>6, <2>7 DEF Shaped
<1> QED
  BY <1>2, <1>3

\* A candidate is read.
LEMMA LoadCandidateShape ==
  ASSUME IInv, NEW p \in Procs, NEW j \in Jobs, LoadCandidate(p, j)
  PROVE  Shaped(p)
<1> DEFINE viaDue == rows[j].job.sched \in rows[j].due
           c == Claiming(j, rows[j].job, viaDue, now)
<1>1. /\ ~claim[p].held /\ rows[j].job # NoJob /\ viaDue \in BOOLEAN
      /\ call' = [call EXCEPT ![p] = c] /\ now' = now /\ claim' = claim /\ limbo' = limbo
      /\ SameStore
  BY DEF LoadCandidate, store, SameStore
<1> HIDE DEF viaDue
<1>2. call'[p] = c /\ \A q \in Procs \ {p} : call'[q] = call[q]
  BY <1>1 DEF IInv, TypeOK
<1>3. Only(p)
  BY <1>1, <1>2 DEF Only
<1>4. Loads(p)
  BY <1>1, <1>2 DEF Loads
<1> QED
  BY <1>3, <1>4 DEF Shaped

\* The payload of a committed claim is read.
LEMMA FinishClaimShape ==
  ASSUME IInv, NEW p \in Procs, FinishClaim(p)
  PROVE  Shaped(p)
<1> DEFINE c == call[p].claim
<1>1. /\ call \in [Procs -> Calls] /\ claim \in [Procs -> Claim \cup {NoClaim}]
      /\ call[p].phase = "loading" /\ now' = now /\ limbo' = limbo /\ SameStore
  BY DEF IInv, TypeOK, FinishClaim, store, SameStore
<1>2. CASE rows[c.job].payload
  <2>1. claim' = [claim EXCEPT ![p] = c] /\ call' = [call EXCEPT ![p] = Idle]
    BY <1>2 DEF FinishClaim
  <2>2. /\ claim'[p] = c /\ call'[p] = Idle
        /\ \A q \in Procs \ {p} : call'[q] = call[q] /\ claim'[q] = claim[q]
    BY <1>1, <2>1
  <2> QED
    BY <1>1, <2>2 DEF Shaped, Opens, Only
<1>3. CASE ~rows[c.job].payload
  <2>1. claim' = claim /\ call' = [call EXCEPT ![p] = Corrupt(c.job)]
    BY <1>3 DEF FinishClaim
  <2>2. /\ claim'[p] = claim[p] /\ call'[p] = Corrupt(c.job)
        /\ \A q \in Procs \ {p} : call'[q] = call[q] /\ claim'[q] = claim[q]
    BY <1>1, <2>1
  <2> QED
    BY <1>1, <1>3, <2>2 DEF Shaped, Opens, Only
<1> QED
  BY <1>2, <1>3

\* A claim loses its authority or is given up.
LEMMA DropShape ==
  ASSUME IInv, NEW p \in Procs, Holding(p), LoseAuthority(p) \/ Forfeit(p)
  PROVE  Shaped(p)
<1>1. claim \in [Procs -> Claim \cup {NoClaim}]
  BY DEF IInv, TypeOK
<1>2. /\ now' = now /\ limbo' = limbo /\ call' = call /\ SameStore
      /\ call[p] = Idle /\ claim[p].held
      /\ claim' = [claim EXCEPT ![p] = NoClaim] \/ claim' = [claim EXCEPT ![p].lost = TRUE]
  BY DEF LoseAuthority, Forfeit, store, SameStore, Holding, Available
<1>3. /\ claim'[p] = NoClaim \/ claim'[p] = [claim[p] EXCEPT !.lost = TRUE]
      /\ \A q \in Procs \ {p} : claim'[q] = claim[q]
  BY <1>1, <1>2
<1> QED
  BY <1>2, <1>3 DEF Shaped, Drops, Only

\* A transaction is settled after its caller has given up.
LEMMA LandLateShape ==
  ASSUME IInv, NEW p \in Procs, LandLate(p)
  PROVE  Shaped(p)
<1>1. /\ limbo[p] # NoTx /\ Evaluate(limbo[p]) /\ limbo' = [limbo EXCEPT ![p] = NoTx]
      /\ now' = now /\ claim' = claim /\ call' = call
  BY DEF LandLate
<1>2. limbo'[p] = NoTx /\ \A q \in Procs \ {p} : limbo'[q] = limbo[q]
  BY <1>1 DEF IInv, TypeOK
<1>3. SameStore \/ Applied(limbo[p])
  BY <1>1, EvaluateShape
<1> QED
  BY <1>1, <1>2, <1>3 DEF Shaped, LandsLate, Only

\* A call fails.
LEMMA FailCallShape ==
  ASSUME IInv, NEW p \in Procs, FailCall(p)
  PROVE  Shaped(p)
<1>1. now' = now /\ SameStore /\ Return(p, FALSE) /\ LeaveBehind(p, Sent(call[p]))
  BY DEF FailCall, store, SameStore
<1>2. /\ limbo'[p] = limbo[p] \/ (InFlight(call[p]) /\ limbo'[p] = call[p].tx)
      /\ \A q \in Procs \ {p} : limbo'[q] = limbo[q]
  BY <1>1, LeaveShape
<1>3. /\ claim'[p] = Keeping(p, FALSE) /\ call'[p] = Idle
      /\ \A q \in Procs \ {p} : call'[q] = call[q] /\ claim'[q] = claim[q]
  BY <1>1, ReturnShape
<1> QED
  BY <1>1, <1>2, <1>3 DEF Shaped, Fails, Only

\* A process stops.
LEMMA CrashShape ==
  ASSUME IInv, NEW p \in Procs, Crash(p)
  PROVE  Shaped(p)
<1>1. /\ now' = now /\ SameStore /\ LeaveBehind(p, MayDoubt(p))
      /\ call' = [call EXCEPT ![p] = Idle] /\ claim' = [claim EXCEPT ![p] = NoClaim]
  BY DEF Crash, store, SameStore
<1>2. /\ limbo'[p] = limbo[p] \/ (InFlight(call[p]) /\ limbo'[p] = call[p].tx)
      /\ \A q \in Procs \ {p} : limbo'[q] = limbo[q]
  BY <1>1, LeaveShape
<1>3. /\ claim'[p] = NoClaim /\ call'[p] = Idle
      /\ \A q \in Procs \ {p} : call'[q] = call[q] /\ claim'[q] = claim[q]
  BY <1>1 DEF IInv, TypeOK
<1> QED
  BY <1>1, <1>2, <1>3 DEF Shaped, Stops, Only

\* A transaction is built and sent.
Begins(p, tx) ==
  /\ Only(p) /\ SameStore /\ claim'[p] = claim[p] /\ limbo'[p] = limbo[p]
  /\ call'[p] = Committing(tx)

\* A payload is damaged.
Damages(j) ==
  /\ "corrupt" \in Ops
  /\ rows' = [rows EXCEPT ![j].payload = FALSE] /\ permits' = permits
  /\ UNCHANGED <<now, claim, call, limbo>>

\* Time passes, at most.
Waits ==
  /\ now' \in Nat /\ now' >= now
  /\ SameStore /\ UNCHANGED <<claim, call, limbo>>

\* Every step builds a transaction or has one of the shapes.
LEMMA Shapes ==
  ASSUME IInv, [Next]_vars
  PROVE  \/ \E p \in Procs : Shaped(p) \/ \E tx : Built(p, tx) /\ Begins(p, tx)
         \/ \E j \in Jobs : Damages(j)
         \/ Waits
<1>1. ASSUME NEW p \in Procs, Other(p)
      PROVE  Shaped(p)
  BY <1>1, LoadCandidateShape, FinishClaimShape, DropShape, CommitKnownShape, CommitUnknownShape,
     ProbeShape, RefreshWakeShape, LandShape, LandLateShape, FailCallShape, CrashShape
     DEF Other, Forfeit, Holding
<1>2. ASSUME NEW p \in Procs, NEW tx, Begin(p, tx)
      PROVE  Begins(p, tx)
  BY <1>2 DEF IInv, TypeOK, Begin, Begins, Only, SameStore, store
<1>3. ASSUME NEW j \in Jobs, CorruptPayload(j)
      PROVE  Damages(j)
  BY <1>3 DEF CorruptPayload, Damages
<1>4. Tick \/ UNCHANGED vars => Waits
  BY DEF Tick, vars, store, Waits, SameStore, IInv, TypeOK
<1> QED
  BY <1>1, <1>2, <1>3, <1>4, Sorted DEF Builds

-----------------------------------------------------------------------------
(* Identities are handed out once                                          *)

\* Who names an identity as an execution or as a lease token.
NamedByCall(c, i) ==
  \/ c.phase = "claiming" /\ i \in RecordIds(c.old)
  \/ c.phase = "loading" /\ i \in RecordIds(c.claim.rec)
  \/ c.phase \in CommitPhases /\ i \in RecordIds(c.tx.old) \cup RecordIds(c.tx.new)
NamedByLate(tx, i) == tx # NoTx /\ i \in RecordIds(tx.old) \cup RecordIds(tx.new)
NamedByClaim(c, i) == c.held /\ i \in RecordIds(c.rec)
NamedByStore(i) ==
  \/ \E j \in Jobs : i \in RecordIds(rows[j].job)
  \/ \E k \in PermitKeys : permits[k] = i

\* A pending transaction brings the identity in.
BroughtByCall(c, i) == InFlight(c) /\ i \in Novel(c.tx)
BroughtByLate(tx, i) == tx # NoTx /\ i \in Novel(tx)

\* Neither the store nor another process names it.
Sole(p, i) ==
  /\ ~NamedByStore(i)
  /\ \A q \in Procs : ~NamedByClaim(claim[q], i)
  /\ \A q \in Procs \ {p} : ~NamedByCall(call[q], i) /\ ~NamedByLate(limbo[q], i)

\* An identity that a pending transaction brings in is named by it alone.
Unique ==
  \A p \in Procs, i \in Nat :
    /\ BroughtByCall(call[p], i) => Sole(p, i) /\ ~NamedByLate(limbo[p], i)
    /\ BroughtByLate(limbo[p], i) => Sole(p, i) /\ ~NamedByCall(call[p], i)

\* Process p or the store names it.
Mentions(p, i) ==
  \/ NamedByCall(call[p], i) \/ NamedByLate(limbo[p], i) \/ NamedByClaim(claim[p], i)
  \/ NamedByStore(i)

\* A fresh identity is named by nobody.
LEMMA FreshUnnamed ==
  ASSUME TypeOK, NEW i \in FreshIds
  PROVE  /\ ~NamedByStore(i)
         /\ \A q \in Procs : /\ ~NamedByCall(call[q], i) /\ ~NamedByLate(limbo[q], i)
                             /\ ~NamedByClaim(claim[q], i)
<1>1. i \notin UsedIds
  BY DEF FreshIds
<1>2. \A j \in Jobs : i \notin RecordIds(rows[j].job)
  BY FreshId
<1>3. \A k \in PermitKeys : permits[k] # i
  BY <1>1 DEF UsedIds
<1>4. ASSUME NEW q \in Procs
      PROVE  i \notin ClaimIds(claim[q]) /\ i \notin CallIds(call[q]) /\ i \notin TxIds(limbo[q])
  <2>1. ClaimIds(claim[q]) \cup CallIds(call[q]) \cup TxIds(limbo[q]) \subseteq
          UNION {ClaimIds(claim[r]) \cup CallIds(call[r]) \cup TxIds(limbo[r]) : r \in Procs}
    OBVIOUS
  <2> QED
    BY <1>1, <2>1 DEF UsedIds
<1>5. ASSUME NEW q \in Procs PROVE ~NamedByClaim(claim[q], i)
  BY <1>4 DEF NamedByClaim, ClaimIds, NoClaim
<1>6. ASSUME NEW q \in Procs PROVE ~NamedByLate(limbo[q], i)
  BY <1>4 DEF NamedByLate, TxIds
<1>7. ASSUME NEW q \in Procs PROVE ~NamedByCall(call[q], i)
  <2>1. CASE call[q].phase = "claiming"
    BY <1>4, <2>1 DEF NamedByCall, CallIds, CommitPhases
  <2>2. CASE call[q].phase = "loading"
    <3>1. i \notin ClaimIds(call[q].claim)
      BY <1>4, <2>2 DEF CallIds, CommitPhases
    <3>2. call[q].claim # NoClaim
      BY <2>2, CallFields DEF Claim, NoClaim
    <3> QED
      BY <2>2, <3>1, <3>2 DEF NamedByCall, ClaimIds, CommitPhases
  <2>3. CASE call[q].phase \in CommitPhases
    <3>1. i \notin TxIds(call[q].tx)
      BY <1>4, <2>3 DEF CallIds, CommitPhases
    <3>2. call[q].tx # NoTx
      BY <2>3, CallFields DEF CommitCall, Tx, TxKinds, NoTx
    <3> QED
      BY <2>3, <3>1, <3>2 DEF NamedByCall, TxIds, CommitPhases
  <2> QED
    BY <2>1, <2>2, <2>3 DEF NamedByCall
<1> QED
  BY <1>2, <1>3, <1>5, <1>6, <1>7 DEF NamedByStore

\* What the store knows when it applies a good transaction.
LEMMA AppliedFacts ==
  ASSUME IInv, NEW tx, GoodTx(tx), Applied(tx)
  PROVE  /\ tx \in Tx /\ tx.job \in Jobs /\ Identity(tx)
         /\ rows[tx.job] \in Row /\ RowOK(rows[tx.job]) /\ RowFits(rows[tx.job], tx)
         /\ Outcome(tx, rows[tx.job])
         /\ rows'[tx.job] = RowAfter(rows[tx.job], tx) /\ rows'[tx.job].job = tx.new
         /\ rows[tx.job].job = tx.old
         /\ \A j \in Jobs \ {tx.job} : rows'[j] = rows[j]
<1>1. tx \in Tx /\ tx.job \in Jobs /\ Identity(tx) /\ Preserving(tx)
  BY DEF GoodTx, Tx
<1>2. rows \in [Jobs -> Row] /\ RowOK(rows[tx.job])
  BY <1>1 DEF IInv, TypeOK, RowsCoherent
<1>3. /\ RowFits(rows[tx.job], tx)
      /\ rows' = [rows EXCEPT ![tx.job] = RowAfter(rows[tx.job], tx)]
  BY DEF Applied
<1>4. rows'[tx.job] = RowAfter(rows[tx.job], tx) /\ \A j \in Jobs \ {tx.job} : rows'[j] = rows[j]
  BY <1>1, <1>2, <1>3
<1>5. RowAfter(rows[tx.job], tx).job = tx.new
  BY DEF RowAfter
<1>6. rows[tx.job].job = tx.old
  BY <1>3 DEF RowFits
<1>7. Outcome(tx, rows[tx.job])
  BY <1>1, <1>2, <1>3 DEF Preserving
<1> QED
  BY <1>1, <1>2, <1>3, <1>4, <1>5, <1>6, <1>7

\* A transaction that is applied adds its own identities to the store.
LEMMA AppliedNames ==
  ASSUME IInv, NEW tx, GoodTx(tx), Applied(tx), NEW i \in Nat, i # NoId, NamedByStore(i)'
  PROVE  NamedByStore(i) \/ i \in RecordIds(tx.new)
<1>1. /\ tx.job \in Jobs /\ rows'[tx.job].job = tx.new /\ Outcome(tx, rows[tx.job])
      /\ \A j \in Jobs \ {tx.job} : rows'[j] = rows[j]
  BY AppliedFacts
<1>2. ASSUME NEW j \in Jobs, i \in RecordIds(rows'[j].job)
      PROVE  NamedByStore(i) \/ i \in RecordIds(tx.new)
  BY <1>1, <1>2 DEF NamedByStore
<1>3. ASSUME NEW k \in PermitKeys, permits'[k] = i, i \notin RecordIds(tx.new)
      PROVE  permits[k] = i
  <2>1. permits'[k] = IF k \in tx.permits.keys THEN tx.permits.new ELSE permits[k]
    BY DEF Applied, PermitsAfter
  <2>2. CASE k \notin tx.permits.keys
    BY <1>3, <2>1, <2>2
  <2>3. CASE k \in tx.permits.keys
    <3>1. tx.permits.new = i
      BY <1>3, <2>1, <2>3
    <3>2. tx.permits.check /\ tx.permits.old = tx.permits.new
      BY <1>1, <1>3, <2>3, <3>1 DEF Outcome, Hands, RecordIds
    <3> QED
      BY <2>3, <3>1, <3>2 DEF Applied, PermitsFit
  <2> QED
    BY <2>2, <2>3
<1>4. \/ \E j \in Jobs : i \in RecordIds(rows'[j].job)
      \/ \E k \in PermitKeys : permits'[k] = i
  BY DEF NamedByStore
<1> QED
  BY <1>2, <1>3, <1>4 DEF NamedByStore

\* The claim a process is left with names what the claim or the call named.
LEMMA KeepingNames ==
  ASSUME IInv, NEW p \in Procs, NEW ok \in BOOLEAN, NEW i, NamedByClaim(Keeping(p, ok), i)
  PROVE  \/ NamedByClaim(claim[p], i)
         \/ /\ ok /\ call[p].phase \in CommitPhases /\ call[p].tx.kind = "renew"
            /\ i \in RecordIds(call[p].tx.new)
<1> DEFINE kind == IF call[p].phase \in CommitPhases THEN call[p].tx.kind ELSE "none"
<1>1. CASE kind = "renew"
  <2>1. claim[p] \in Claim /\ claim[p].held /\ call[p].phase \in CommitPhases
    <3>1. TypeOK /\ claim[p].held /\ call[p].phase \in CommitPhases
      BY <1>1 DEF IInv, PendingOK
    <3> QED
      BY <3>1, HeldClaim
  <2>2. CASE ok
    <3>1. Keeping(p, ok).rec = call[p].tx.new
      BY <1>1, <2>1, <2>2 DEF Keeping, Claim
    <3> QED
      BY <1>1, <2>1, <2>2, <3>1 DEF NamedByClaim
  <2>3. CASE ~ok
    <3>1. Keeping(p, ok).rec = claim[p].rec
      BY <1>1, <2>1, <2>3 DEF Keeping, Claim
    <3> QED
      BY <2>1, <3>1 DEF NamedByClaim
  <2> QED
    BY <2>2, <2>3
<1>2. CASE kind = "settle"
  BY <1>2 DEF Keeping, NamedByClaim, NoClaim
<1>3. CASE kind \notin {"renew", "settle"}
  BY <1>3 DEF Keeping
<1> QED
  BY <1>1, <1>2, <1>3

\* A renewal, a settlement or a request brings no identity in.
LEMMA HolderNovel ==
  ASSUME NEW tx, Identity(tx), tx.kind \in {"renew", "settle", "request", "quarantine"}
  PROVE  Novel(tx) = {}
  BY DEF Identity, Novel, RecordIds, NoJob, NoLease

\* The transactions of one process are good.
LEMMA SlotsGood ==
  ASSUME IInv, NEW p \in Procs
  PROVE  /\ InFlight(call[p]) => GoodTx(call[p].tx) /\ Identity(call[p].tx)
         /\ limbo[p] # NoTx => GoodTx(limbo[p]) /\ Identity(limbo[p])
  BY DEF IInv, PendingOK, InFlight, GoodTx

\* The protocol passes identities on and makes none up.
LEMMA ShapedMentions ==
  ASSUME IInv, NEW p \in Procs, Shaped(p), NEW i \in Nat, i # NoId, Mentions(p, i)'
  PROVE  Mentions(p, i)
<1>0. Mentions(p, i)' = (\/ NamedByCall(call'[p], i) \/ NamedByLate(limbo'[p], i)
                         \/ NamedByClaim(claim'[p], i) \/ NamedByStore(i)')
  BY DEF Mentions, NamedByCall, NamedByLate, NamedByClaim
<1>1. SameStore => (NamedByStore(i)' <=> NamedByStore(i))
  BY DEF SameStore, NamedByStore
<1>2. ~NamedByCall(Idle, i)
  BY DEF NamedByCall, Idle, CommitPhases
<1>3. CASE Loads(p)
  <2>1. PICK j \in Jobs, viaDue \in BOOLEAN : call'[p] = Claiming(j, rows[j].job, viaDue, now)
    BY <1>3 DEF Loads
  <2>2. NamedByCall(call'[p], i) => NamedByStore(i)
    BY <2>1 DEF NamedByCall, Claiming, CommitPhases, NamedByStore
  <2> QED
    BY <1>0, <1>1, <1>3, <2>2 DEF Loads, Mentions
<1>4. CASE Opens(p)
  <2>1. ~NamedByCall(call'[p], i)
    BY <1>2, <1>4 DEF Opens, NamedByCall, Corrupt, CommitPhases
  <2>2. NamedByClaim(claim'[p], i) => NamedByClaim(claim[p], i) \/ NamedByCall(call[p], i)
    BY <1>4 DEF Opens, NamedByClaim, NamedByCall
  <2> QED
    BY <1>0, <1>1, <1>4, <2>1, <2>2 DEF Opens, Mentions
<1>5. CASE Drops(p)
  <2>1. claim[p] \in Claim
    BY <1>5, HeldClaim DEF Drops, IInv
  <2>2. NamedByClaim(claim'[p], i) => NamedByClaim(claim[p], i)
    <3>1. ~NamedByClaim(NoClaim, i)
      BY DEF NamedByClaim, NoClaim
    <3>2. [claim[p] EXCEPT !.lost = TRUE].rec = claim[p].rec
      BY <2>1 DEF Claim
    <3> QED
      BY <1>5, <3>1, <3>2 DEF Drops, NamedByClaim
  <2> QED
    BY <1>0, <1>1, <1>5, <2>2 DEF Drops, Mentions
<1>6. CASE Keeps(p)
  <2>1. NamedByCall(call'[p], i) => NamedByCall(call[p], i)
    BY <1>6 DEF Keeps, Like, NamedByCall, CommitPhases
  <2> QED
    BY <1>0, <1>1, <1>6, <2>1 DEF Keeps, Mentions
<1>7. CASE Lands(p)
  <2>1. InFlight(call[p]) /\ Applied(call[p].tx)
    BY <1>7 DEF Lands
  <2>2. NamedByStore(i)' => NamedByStore(i) \/ NamedByCall(call[p], i)
    BY <2>1, AppliedNames, SlotsGood DEF NamedByCall, InFlight
  <2>3. NamedByCall(call'[p], i) => NamedByCall(call[p], i)
    BY <1>7 DEF Lands, InFlight, NamedByCall, CommitPhases
  <2> QED
    BY <1>0, <1>7, <2>2, <2>3 DEF Lands, Mentions
<1>8. CASE LandsLate(p)
  <2>1. NamedByStore(i)' => NamedByStore(i) \/ NamedByLate(limbo[p], i)
    BY <1>1, <1>8, AppliedNames, SlotsGood DEF LandsLate, NamedByLate
  <2> QED
    BY <1>0, <1>8, <2>1 DEF LandsLate, Mentions, NamedByLate
<1>9. CASE Answers(p)
  <2>1. call[p].phase \in CommitPhases /\ claim'[p] = Keeping(p, TRUE)
    BY <1>9 DEF Answers
  <2>2. NamedByStore(i)' => NamedByStore(i) \/ NamedByCall(call[p], i)
    BY <1>1, <1>9, AppliedNames, SlotsGood DEF Answers, NamedByCall
  <2>3. NamedByCall(call'[p], i) => NamedByCall(call[p], i)
    BY <1>2, <1>9 DEF Answers, NamedByCall, Loading, ClaimOf, CommitPhases
  <2>4. NamedByClaim(claim'[p], i) => NamedByClaim(claim[p], i) \/ NamedByCall(call[p], i)
    BY <2>1, KeepingNames DEF NamedByCall
  <2>5. NamedByLate(limbo'[p], i) => NamedByLate(limbo[p], i) \/ NamedByCall(call[p], i)
    BY <1>9 DEF Answers, NamedByCall, NamedByLate
  <2> QED
    BY <1>0, <2>2, <2>3, <2>4, <2>5 DEF Mentions
<1>10. CASE Fails(p) \/ Stops(p)
  <2>1. NamedByClaim(claim'[p], i) => NamedByClaim(claim[p], i)
    <3>1. ~NamedByClaim(NoClaim, i)
      BY DEF NamedByClaim, NoClaim
    <3>2. NamedByClaim(Keeping(p, FALSE), i) => NamedByClaim(claim[p], i)
      BY KeepingNames
    <3> QED
      BY <1>10, <3>1, <3>2 DEF Fails, Stops
  <2>2. NamedByLate(limbo'[p], i) => NamedByLate(limbo[p], i) \/ NamedByCall(call[p], i)
    BY <1>10 DEF Fails, Stops, InFlight, NamedByCall, NamedByLate
  <2> QED
    BY <1>0, <1>1, <1>2, <1>10, <2>1, <2>2 DEF Fails, Stops, Mentions
<1> QED
  BY <1>3, <1>4, <1>5, <1>6, <1>7, <1>8, <1>9, <1>10 DEF Shaped

\* The other processes do not name it.
Apart(p, i) ==
  \A q \in Procs \ {p} : /\ ~NamedByClaim(claim[q], i)
                         /\ ~NamedByCall(call[q], i) /\ ~NamedByLate(limbo[q], i)

\* Uniqueness is kept when process p takes up only identities it knew or that
\* are fresh, and what its own transactions bring in stays with them.
LEMMA UniqueFrame ==
  ASSUME IInv, Unique, NEW p \in Procs, Only(p),
         \A i \in Nat : i # NoId /\ Mentions(p, i)' => Mentions(p, i) \/ i \in FreshIds,
         \A i \in Nat : BroughtByCall(call'[p], i) =>
           /\ Apart(p, i) /\ ~NamedByStore(i)'
           /\ ~NamedByClaim(claim'[p], i) /\ ~NamedByLate(limbo'[p], i),
         \A i \in Nat : BroughtByLate(limbo'[p], i) =>
           /\ Apart(p, i) /\ ~NamedByStore(i)'
           /\ ~NamedByClaim(claim'[p], i) /\ ~NamedByCall(call'[p], i)
  PROVE  Unique'
<1>1. ASSUME NEW q \in Procs
      PROVE  \A i : /\ NamedByClaim(claim[q], i)' <=> NamedByClaim(claim'[q], i)
                    /\ NamedByCall(call[q], i)' <=> NamedByCall(call'[q], i)
                    /\ NamedByLate(limbo[q], i)' <=> NamedByLate(limbo'[q], i)
                    /\ BroughtByCall(call[q], i)' <=> BroughtByCall(call'[q], i)
                    /\ BroughtByLate(limbo[q], i)' <=> BroughtByLate(limbo'[q], i)
  BY DEF NamedByClaim, NamedByCall, NamedByLate, BroughtByCall, BroughtByLate, InFlight, Novel
<1>2. \A q \in Procs \ {p} : call'[q] = call[q] /\ claim'[q] = claim[q] /\ limbo'[q] = limbo[q]
  BY DEF Only
<1>3. ASSUME NEW i \in Nat, Apart(p, i), ~NamedByStore(i)', ~NamedByClaim(claim'[p], i)
      PROVE  Sole(p, i)'
  BY <1>1, <1>2, <1>3 DEF Sole, Apart
<1>4. ASSUME NEW q \in Procs \ {p}, NEW i \in Nat,
             BroughtByCall(call[q], i) \/ BroughtByLate(limbo[q], i)
      PROVE  Sole(q, i)'
  <2>1. Sole(q, i) /\ i # NoId
    BY <1>4 DEF Unique, BroughtByCall, BroughtByLate, Novel
  <2>2. ~Mentions(p, i)
    BY <2>1 DEF Sole, Mentions
  <2>3. NamedByCall(call[q], i) \/ NamedByLate(limbo[q], i)
    BY <1>4 DEF BroughtByCall, BroughtByLate, InFlight, Novel, NamedByCall, NamedByLate
  <2>4. i \notin FreshIds
    BY <2>3, FreshUnnamed DEF IInv
  <2>5. ~Mentions(p, i)'
    BY <2>1, <2>2, <2>4
  <2>6. /\ ~NamedByStore(i)' /\ ~NamedByClaim(claim'[p], i) /\ ~NamedByCall(call'[p], i)
        /\ ~NamedByLate(limbo'[p], i)
    BY <1>1, <2>5 DEF Mentions
  <2> QED
    BY <1>1, <1>2, <2>1, <2>6 DEF Sole
<1>5. ASSUME NEW q \in Procs, NEW i \in Nat
      PROVE  /\ BroughtByCall(call[q], i)' => Sole(q, i)' /\ ~NamedByLate(limbo[q], i)'
             /\ BroughtByLate(limbo[q], i)' => Sole(q, i)' /\ ~NamedByCall(call[q], i)'
  <2>1. CASE q = p
    BY <1>1, <1>3, <2>1
  <2>2. CASE q # p
    BY <1>1, <1>2, <1>4, <2>2 DEF Unique
  <2> QED
    BY <2>1, <2>2
<1> QED
  BY <1>5 DEF Unique

\* What the transactions of one process bring in, before the step.
LEMMA Brought ==
  ASSUME Unique, NEW p \in Procs, NEW i \in Nat
  PROVE  /\ BroughtByCall(call[p], i) =>
              /\ Apart(p, i) /\ ~NamedByStore(i) /\ ~NamedByClaim(claim[p], i)
              /\ ~NamedByLate(limbo[p], i) /\ NamedByCall(call[p], i) /\ i # NoId
         /\ BroughtByLate(limbo[p], i) =>
              /\ Apart(p, i) /\ ~NamedByStore(i) /\ ~NamedByClaim(claim[p], i)
              /\ ~NamedByCall(call[p], i) /\ NamedByLate(limbo[p], i) /\ i # NoId
  BY DEF Unique, Sole, Apart, BroughtByCall, BroughtByLate, InFlight, Novel, NamedByCall, NamedByLate

\* The value of a claim in flight has not been written by anybody else.
LEMMA ReachedClaim ==
  ASSUME IInv, Unique, NEW p \in Procs, InFlight(call[p]), call[p].tx.kind = "claim"
  PROVE  ~Reached(call[p].tx)
<1> DEFINE tx == call[p].tx
           i == tx.new.lease.token
<1>1. GoodTx(tx) /\ Identity(tx) /\ tx \in Tx /\ tx.job \in Jobs
  BY SlotsGood DEF GoodTx, Tx
<1>2. i \in Nat /\ i \in Novel(tx)
  BY <1>1 DEF Identity, Novel, RecordIds, Tx, Record, Lease
<1>3. ~NamedByStore(i)
  BY <1>2, Brought DEF BroughtByCall
<1>4. rows[tx.job].job # tx.new
  BY <1>1, <1>3 DEF NamedByStore, RecordIds
<1> QED
  BY <1>1, <1>4 DEF Reached, Identity

\* The shapes keep identities unique.
LEMMA ShapedUnique ==
  ASSUME IInv, Unique, NEW p \in Procs, Shaped(p)
  PROVE  Unique'
<1>0. Only(p) /\ \A i \in Nat : i # NoId /\ Mentions(p, i)' => Mentions(p, i)
  BY ShapedMentions DEF Shaped
<1>1. SameStore => \A i : NamedByStore(i)' <=> NamedByStore(i)
  BY DEF SameStore, NamedByStore
<1>2. \A i : ~NamedByCall(Idle, i) /\ ~BroughtByCall(Idle, i)
  BY DEF NamedByCall, BroughtByCall, InFlight, Idle, CommitPhases
<1>3. \A i : BroughtByCall(call'[p], i) => call'[p].phase \in CommitPhases
  BY DEF BroughtByCall, InFlight
<1>4. ASSUME NEW i \in Nat, BroughtByCall(call'[p], i)
      PROVE  /\ Apart(p, i) /\ ~NamedByStore(i)'
             /\ ~NamedByClaim(claim'[p], i) /\ ~NamedByLate(limbo'[p], i)
  <2>1. CASE Keeps(p)
    <3>1. BroughtByCall(call[p], i)
      BY <1>4, <2>1 DEF Keeps, Like, BroughtByCall, InFlight, Novel
    <3> QED
      BY <1>1, <2>1, <3>1, Brought DEF Keeps
  <2>2. CASE LandsLate(p)
    <3>1. BroughtByCall(call[p], i)
      BY <1>4, <2>2 DEF LandsLate
    <3>2. ~NamedByStore(i)'
      BY <1>1, <2>2, <3>1, Brought, AppliedNames, SlotsGood DEF LandsLate, NamedByLate
    <3> QED
      BY <2>2, <3>1, <3>2, Brought DEF LandsLate, NamedByLate
  <2>3. CASE Drops(p)
    <3>1. BroughtByCall(call[p], i)
      BY <1>4, <2>3 DEF Drops
    <3>2. ~NamedByClaim(claim'[p], i)
      <4>1. claim[p] \in Claim /\ ~NamedByClaim(claim[p], i)
        BY <2>3, <3>1, HeldClaim, Brought DEF Drops, IInv
      <4>2. [claim[p] EXCEPT !.lost = TRUE].rec = claim[p].rec /\ claim[p].held
        BY <2>3, <4>1 DEF Claim, Drops
      <4>3. ~NamedByClaim(NoClaim, i)
        BY DEF NamedByClaim, NoClaim
      <4> QED
        BY <2>3, <4>1, <4>2, <4>3 DEF Drops, NamedByClaim
    <3> QED
      BY <1>1, <2>3, <3>1, <3>2, Brought DEF Drops
  <2>4. CASE Loads(p)
    BY <1>3, <1>4, <2>4 DEF Loads, Claiming, CommitPhases
  <2>5. CASE Opens(p)
    BY <1>3, <1>4, <2>5 DEF Opens, Idle, Corrupt, CommitPhases
  <2>6. CASE Lands(p)
    BY <1>4, <2>6 DEF Lands, BroughtByCall, InFlight
  <2>7. CASE Answers(p)
    BY <1>3, <1>4, <2>7 DEF Answers, Idle, Loading, CommitPhases
  <2>8. CASE Fails(p) \/ Stops(p)
    BY <1>2, <1>4, <2>8 DEF Fails, Stops
  <2> QED
    BY <2>1, <2>2, <2>3, <2>4, <2>5, <2>6, <2>7, <2>8 DEF Shaped
<1>5. ASSUME NEW i \in Nat, BroughtByLate(limbo'[p], i), limbo'[p] = limbo[p]
      PROVE  /\ Apart(p, i) /\ ~NamedByStore(i)'
             /\ ~NamedByClaim(claim'[p], i) /\ ~NamedByCall(call'[p], i)
  <2>1. /\ Apart(p, i) /\ ~NamedByStore(i) /\ ~NamedByClaim(claim[p], i)
        /\ ~NamedByCall(call[p], i) /\ NamedByLate(limbo[p], i) /\ i # NoId
    BY <1>5, Brought
  <2>2. CASE Loads(p)
    <3>1. ~NamedByCall(call'[p], i)
      BY <2>1, <2>2 DEF Loads, NamedByCall, Claiming, CommitPhases, NamedByStore
    <3> QED
      BY <1>1, <2>1, <2>2, <3>1 DEF Loads
  <2>3. CASE Opens(p)
    <3>1. ~NamedByClaim(claim'[p], i) /\ ~NamedByCall(call'[p], i)
      BY <1>2, <2>1, <2>3 DEF Opens, NamedByClaim, NamedByCall, Corrupt, CommitPhases
    <3> QED
      BY <1>1, <2>1, <2>3, <3>1 DEF Opens
  <2>4. CASE Drops(p)
    <3>1. claim[p] \in Claim
      BY <2>4, HeldClaim DEF Drops, IInv
    <3>2. ~NamedByClaim(claim'[p], i)
      <4>1. ~NamedByClaim(NoClaim, i)
        BY DEF NamedByClaim, NoClaim
      <4>2. [claim[p] EXCEPT !.lost = TRUE].rec = claim[p].rec
        BY <3>1 DEF Claim
      <4> QED
        BY <2>1, <2>4, <4>1, <4>2 DEF Drops, NamedByClaim
    <3> QED
      BY <1>1, <2>1, <2>4, <3>2 DEF Drops
  <2>5. CASE Keeps(p)
    <3>1. ~NamedByCall(call'[p], i)
      BY <2>1, <2>5 DEF Keeps, Like, NamedByCall, CommitPhases
    <3> QED
      BY <1>1, <2>1, <2>5, <3>1 DEF Keeps
  <2>6. CASE Lands(p)
    <3>1. ~NamedByStore(i)'
      BY <2>1, <2>6, AppliedNames, SlotsGood DEF Lands, InFlight, NamedByCall
    <3>2. ~NamedByCall(call'[p], i)
      BY <2>1, <2>6 DEF Lands, InFlight, NamedByCall, CommitPhases
    <3> QED
      BY <2>1, <2>6, <3>1, <3>2 DEF Lands
  <2>7. CASE LandsLate(p)
    BY <1>5, <2>7 DEF LandsLate, BroughtByLate
  <2>8. CASE Answers(p)
    <3>1. ~NamedByStore(i)'
      BY <1>1, <2>1, <2>8, AppliedNames, SlotsGood DEF Answers, NamedByCall
    <3>2. ~NamedByCall(call'[p], i)
      BY <1>2, <2>1, <2>8 DEF Answers, NamedByCall, Loading, ClaimOf, CommitPhases
    <3>3. ~NamedByClaim(claim'[p], i)
      <4>1. claim'[p] = Keeping(p, TRUE)
        BY <2>8 DEF Answers
      <4>2. NamedByClaim(Keeping(p, TRUE), i) => NamedByClaim(claim[p], i) \/ NamedByCall(call[p], i)
        BY KeepingNames DEF NamedByCall
      <4> QED
        BY <2>1, <4>1, <4>2
    <3> QED
      BY <2>1, <3>1, <3>2, <3>3
  <2>9. CASE Fails(p) \/ Stops(p)
    <3>1. ~NamedByClaim(NoClaim, i)
      BY DEF NamedByClaim, NoClaim
    <3>2. NamedByClaim(Keeping(p, FALSE), i) => NamedByClaim(claim[p], i)
      BY KeepingNames
    <3> QED
      BY <1>1, <1>2, <2>1, <2>9, <3>1, <3>2 DEF Fails, Stops
  <2> QED
    BY <2>2, <2>3, <2>4, <2>5, <2>6, <2>7, <2>8, <2>9 DEF Shaped
<1>6. ASSUME NEW i \in Nat, BroughtByLate(limbo'[p], i), limbo'[p] # limbo[p]
      PROVE  /\ Apart(p, i) /\ ~NamedByStore(i)'
             /\ ~NamedByClaim(claim'[p], i) /\ ~NamedByCall(call'[p], i)
  <2>1. /\ InFlight(call[p]) /\ limbo'[p] = call[p].tx /\ SameStore
        /\ (Answers(p) /\ Reached(call[p].tx)) \/ Fails(p) \/ Stops(p)
    <3>1. ~Loads(p) /\ ~Opens(p) /\ ~Drops(p) /\ ~Keeps(p) /\ ~Lands(p)
      BY <1>6 DEF Loads, Opens, Drops, Keeps, Lands
    <3>2. ~LandsLate(p)
      BY <1>6 DEF LandsLate, BroughtByLate
    <3>3. Answers(p) \/ Fails(p) \/ Stops(p)
      BY <3>1, <3>2 DEF Shaped
    <3> QED
      BY <1>6, <3>3 DEF Answers, Fails, Stops
  <2>2. BroughtByCall(call[p], i)
    BY <1>6, <2>1 DEF BroughtByLate, BroughtByCall
  <2>3. /\ Apart(p, i) /\ ~NamedByStore(i)' /\ ~NamedByClaim(claim[p], i)
    BY <1>1, <2>1, <2>2, Brought
  <2>4. CASE Fails(p) \/ Stops(p)
    <3>1. ~NamedByClaim(NoClaim, i)
      BY DEF NamedByClaim, NoClaim
    <3>2. NamedByClaim(Keeping(p, FALSE), i) => NamedByClaim(claim[p], i)
      BY KeepingNames
    <3> QED
      BY <1>2, <2>3, <2>4, <3>1, <3>2 DEF Fails, Stops
  <2>5. CASE Answers(p) /\ Reached(call[p].tx)
    <3>1. GoodTx(call[p].tx) /\ Identity(call[p].tx) /\ i \in Novel(call[p].tx)
      BY <2>1, <2>2, SlotsGood DEF BroughtByCall
    <3>2. call[p].tx.kind # "renew"
      BY <3>1, HolderNovel
    <3>3. ~Granted(p)
      BY <2>1, <2>5, ReachedClaim DEF Granted
    <3>4. claim'[p] = Keeping(p, TRUE) /\ call'[p] = Idle
      BY <2>5, <3>3 DEF Answers
    <3>5. NamedByClaim(Keeping(p, TRUE), i) => NamedByClaim(claim[p], i)
      BY <3>2, KeepingNames
    <3> QED
      BY <1>2, <2>3, <3>4, <3>5
  <2> QED
    BY <2>1, <2>4, <2>5
<1> QED
  BY <1>0, <1>4, <1>5, <1>6, UniqueFrame

\* A transaction that is built takes its old record from what the process knows
\* and its new identities fresh.
LEMMA BuiltUnique ==
  ASSUME IInv, Unique, NEW p \in Procs, NEW tx, Built(p, tx), Begins(p, tx)
  PROVE  Unique'
<1>1. /\ Only(p) /\ SameStore /\ claim'[p] = claim[p] /\ limbo'[p] = limbo[p]
      /\ call'[p] = Committing(tx) /\ GoodTx(tx) /\ Novel(tx) \subseteq FreshIds
  BY DEF Begins, Built
<1>2. \A i : NamedByStore(i)' <=> NamedByStore(i)
  BY <1>1 DEF SameStore, NamedByStore
<1>3. /\ Committing(tx).phase \in CommitPhases /\ Committing(tx).tx = tx
      /\ Committing(tx).phase \notin {"claiming", "loading"}
  BY DEF Committing, CommitPhases
<1>4. ASSUME NEW i \in RecordIds(tx.old)
      PROVE  NamedByClaim(claim[p], i) \/ NamedByStore(i) \/ NamedByCall(call[p], i)
  <2>1. CASE FromClaim(p, tx)
    BY <1>4, <2>1 DEF FromClaim, NamedByClaim
  <2>2. CASE FromRow(p, tx)
    BY <1>1, <1>4, <2>2 DEF FromRow, NamedByStore, GoodTx, Tx
  <2>3. CASE FromCandidate(p, tx)
    BY <1>4, <2>3 DEF FromCandidate, NamedByCall
  <2> QED
    BY <2>1, <2>2, <2>3 DEF Built
<1>5. ASSUME NEW i, i # NoId, NamedByCall(call'[p], i)
      PROVE  Mentions(p, i) \/ i \in FreshIds
  <2>1. i \in RecordIds(tx.old) \cup RecordIds(tx.new)
    BY <1>1, <1>3, <1>5 DEF NamedByCall
  <2>2. i \in RecordIds(tx.old) \/ i \in Novel(tx)
    BY <1>5, <2>1 DEF Novel
  <2> QED
    BY <1>1, <1>4, <2>2 DEF Mentions
<1>6. ASSUME NEW i \in Nat, i # NoId, Mentions(p, i)'
      PROVE  Mentions(p, i) \/ i \in FreshIds
  <2>1. \/ NamedByCall(call'[p], i) \/ NamedByLate(limbo'[p], i)
        \/ NamedByClaim(claim'[p], i) \/ NamedByStore(i)'
    BY <1>6 DEF Mentions, NamedByCall, NamedByLate, NamedByClaim
  <2> QED
    BY <1>1, <1>2, <1>5, <1>6, <2>1 DEF Mentions
<1>7. ASSUME NEW i \in Nat, BroughtByCall(call'[p], i)
      PROVE  /\ Apart(p, i) /\ ~NamedByStore(i)'
             /\ ~NamedByClaim(claim'[p], i) /\ ~NamedByLate(limbo'[p], i)
  <2>1. i \in FreshIds
    BY <1>1, <1>3, <1>7 DEF BroughtByCall
  <2> QED
    BY <1>1, <1>2, <2>1, FreshUnnamed DEF IInv, Apart
<1>8. ASSUME NEW i \in Nat, BroughtByLate(limbo'[p], i)
      PROVE  /\ Apart(p, i) /\ ~NamedByStore(i)'
             /\ ~NamedByClaim(claim'[p], i) /\ ~NamedByCall(call'[p], i)
  <2>1. /\ Apart(p, i) /\ ~NamedByStore(i) /\ ~NamedByClaim(claim[p], i)
        /\ ~NamedByCall(call[p], i) /\ NamedByLate(limbo[p], i) /\ i # NoId
    BY <1>1, <1>8, Brought
  <2>2. i \notin FreshIds
    BY <2>1, FreshUnnamed DEF IInv
  <2>3. i \notin RecordIds(tx.old) /\ i \notin Novel(tx)
    BY <1>1, <1>4, <2>1, <2>2
  <2>4. ~NamedByCall(call'[p], i)
    BY <1>1, <1>3, <2>1, <2>3 DEF NamedByCall, Novel
  <2> QED
    BY <1>1, <1>2, <2>1, <2>4
<1> QED
  BY <1>1, <1>6, <1>7, <1>8, UniqueFrame

-----------------------------------------------------------------------------
(* The invariant                                                           *)

UInv == IInv /\ Unique

\* Nothing is pending at first.
LEMMA UniqueInitial == Init => UInv
<1> SUFFICES ASSUME Init PROVE UInv
  OBVIOUS
<1>1. IInv
  BY Initial
<1>2. \A p \in Procs : call[p] = Idle /\ limbo[p] = NoTx
  BY DEF Init
<1>3. Unique
  BY <1>2 DEF Unique, BroughtByCall, BroughtByLate, InFlight, Idle, CommitPhases
<1> QED
  BY <1>1, <1>3 DEF UInv

\* Damage to a payload and the passage of time concern no identity.
LEMMA QuietUnique ==
  ASSUME IInv, Unique, (\E j \in Jobs : Damages(j)) \/ Waits
  PROVE  Unique'
<1>1. /\ call' = call /\ claim' = claim /\ limbo' = limbo /\ permits' = permits
      /\ \A j \in Jobs : rows'[j].job = rows[j].job
  BY DEF IInv, TypeOK, Row, Damages, Waits, SameStore
<1>2. \A i : NamedByStore(i)' <=> NamedByStore(i)
  BY <1>1 DEF NamedByStore
<1> QED
  BY <1>1, <1>2 DEF Unique, Sole, BroughtByCall, BroughtByLate, InFlight, NamedByCall,
     NamedByLate, NamedByClaim

\* Every step keeps it.
LEMMA UniqueInductive == UInv /\ [Next]_vars => UInv'
<1> SUFFICES ASSUME UInv, [Next]_vars PROVE UInv'
  OBVIOUS
<1>1. IInv' /\ IInv /\ Unique
  BY Inductive DEF UInv
<1>2. Unique'
  BY <1>1, Shapes, ShapedUnique, BuiltUnique, QuietUnique
<1> QED
  BY <1>1, <1>2 DEF UInv

\* An identity drawn for a transaction is named by nothing else until the
\* transaction is applied, however long it is in doubt: a probe that finds the
\* value of a claim has found that very claim.
THEOREM IdentitiesUnique == Spec => []UInv
  BY UniqueInitial, UniqueInductive, PTL DEF Spec

-----------------------------------------------------------------------------
(* How a step of the protocol meets the store and the pending transactions *)

\* The store is left alone, or applies the transaction of the call, which is no
\* longer in flight, or the one left behind, which is gone.
Touches(p) ==
  \/ SameStore
  \/ /\ InFlight(call[p]) /\ Applied(call[p].tx) /\ limbo'[p] = limbo[p]
     /\ ~InFlight(call'[p]) /\ call'[p].phase # "claiming"
  \/ limbo[p] # NoTx /\ Applied(limbo[p]) /\ limbo'[p] = NoTx /\ call'[p] = call[p]

\* What is pending afterwards was pending before.
Inherits(p) ==
  /\ call'[p].phase = "claiming" =>
       \/ call'[p] = call[p]
       \/ /\ SameStore
          /\ \E j \in Jobs, viaDue \in BOOLEAN :
               rows[j].job # NoJob /\ call'[p] = Claiming(j, rows[j].job, viaDue, now)
  /\ InFlight(call'[p]) => InFlight(call[p]) /\ Like(call'[p].tx, call[p].tx)
  /\ limbo'[p] # NoTx =>
       limbo'[p] = limbo[p] \/ (SameStore /\ InFlight(call[p]) /\ limbo'[p] = call[p].tx)

\* Every shape touches the store in one of these ways.
LEMMA ShapedTouches ==
  ASSUME IInv, NEW p \in Procs, Shaped(p)
  PROVE  Touches(p) /\ Inherits(p)
<1>1. ~InFlight(Idle) /\ Idle.phase # "claiming"
  BY DEF InFlight, Idle, CommitPhases
<1>2. CASE Loads(p)
  BY <1>2 DEF Loads, Touches, Inherits, Claiming, InFlight, CommitPhases
<1>3. CASE Opens(p)
  BY <1>1, <1>3 DEF Opens, Touches, Inherits, Corrupt, InFlight, CommitPhases
<1>4. CASE Drops(p)
  BY <1>4 DEF Drops, Touches, Inherits, Like
<1>5. CASE Keeps(p)
  BY <1>5 DEF Keeps, Touches, Inherits, InFlight, CommitPhases
<1>6. CASE Lands(p)
  BY <1>6 DEF Lands, Touches, Inherits, InFlight, CommitPhases
<1>7. CASE LandsLate(p)
  BY <1>7 DEF LandsLate, Touches, Inherits, Like
<1>8. CASE Answers(p)
  <2>1. ~InFlight(call'[p]) /\ call'[p].phase # "claiming"
    BY <1>1, <1>8 DEF Answers, InFlight, Loading, CommitPhases
  <2> QED
    BY <1>8, <2>1 DEF Answers, Touches, Inherits
<1>9. CASE Fails(p) \/ Stops(p)
  BY <1>1, <1>9 DEF Fails, Stops, Touches, Inherits
<1> QED
  BY <1>2, <1>3, <1>4, <1>5, <1>6, <1>7, <1>8, <1>9 DEF Shaped

\* Every transaction a process may still have applied brings in identities that
\* nothing else names.
LEMMA Foreign ==
  ASSUME UInv, NEW p \in Procs
  PROVE  /\ InFlight(call[p]) => \A i \in Novel(call[p].tx) :
              Sole(p, i) /\ ~NamedByLate(limbo[p], i)
         /\ limbo[p] # NoTx => \A i \in Novel(limbo[p]) :
              Sole(p, i) /\ ~NamedByCall(call[p], i)
<1>1. InFlight(call[p]) => call[p].tx \in Tx
  BY SlotsGood DEF UInv, GoodTx
<1>2. limbo[p] # NoTx => limbo[p] \in Tx
  BY SlotsGood DEF UInv, GoodTx
<1>3. ASSUME NEW tx \in Tx PROVE Novel(tx) \subseteq Nat
  BY DEF Novel, RecordIds, Tx, Record, Lease
<1> QED
  BY <1>1, <1>2, <1>3 DEF UInv, Unique, BroughtByCall, BroughtByLate

=============================================================================
