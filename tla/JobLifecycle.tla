---------------------------- MODULE JobLifecycle ----------------------------
(***************************************************************************)
(* The lifecycle engine of bg-jobs: producers, workers and administrators  *)
(* of one queue running concurrently against a shared checked store.       *)
(*                                                                         *)
(* A process makes one engine call at a time.  A call reads the store,     *)
(* builds one checked transaction and drives it through the commit         *)
(* protocol of transition/commit.rs, in which an acknowledgement may be    *)
(* lost.  Reads that the transaction checks again are taken in the step    *)
(* that builds it; reads it does not check have a step of their own.       *)
(***************************************************************************)
EXTENDS JobTransactions

CONSTANTS
  Procs,            \* processes that use the engine
  Ops,              \* the engine operations the environment calls
  Delays,           \* offsets from now that callers schedule at
  Expiries,         \* offsets of an expiry from the schedule (NoTime: none)
  MaxTime,          \* bound: the clock stops here and every lease has ended
  MaxInDoubt,       \* bound: commits whose outcome is unknown at one time
  StaleReads        \* whether a point read may return an older value

OpNames == {"enqueue", "seed", "reuse", "claim", "reclaim", "renew",
            "checkpoint", "complete", "continue", "retry", "deadletter", "cancelclaim", "request",
            "cancel", "suspend", "resume", "expire", "redrive", "repair",
            "corrupt", "crash"}

ASSUME EnvironmentAssumption ==
  /\ Ops \subseteq OpNames
  /\ Delays \subseteq Nat /\ Expiries \subseteq Nat \cup {NoTime}
  /\ MaxTime \in Nat /\ MaxInDoubt \in Nat
  /\ StaleReads \in BOOLEAN

VARIABLES
  now,      \* the wall clock every caller reads
  rows,     \* the durable keys of each job
  permits,  \* permit key -> lease token that holds it, NoId when absent
  wake,     \* the queue's wake watermark, NoTime when absent
  claim,    \* the ClaimedJob each process holds
  call,     \* the engine call each process is in
  limbo     \* a transaction a process gave up on that may still apply

store == <<rows, permits, wake>>
vars == <<now, rows, permits, wake, claim, call, limbo>>

Idle == [phase |-> "idle"]
NoTx == [kind |-> "none"]

Claiming(j, old, viaDue, at) ==
  [phase |-> "claiming", job |-> j, old |-> old, viaDue |-> viaDue, at |-> at]
Loading(c) == [phase |-> "loading", claim |-> c]
Corrupt(j) == [phase |-> "corrupt", job |-> j]
Committing(tx) ==
  [phase |-> "commit", tx |-> tx, attempt |-> 0, est |-> "open", refreshed |-> FALSE]

CommitPhases == {"commit", "probe", "refresh"}
Estimates == {"open", "committed", "conflict"}

Calls ==
  {Idle}
    \cup [phase : {"claiming"}, job : Jobs, old : Record, viaDue : BOOLEAN, at : Int]
    \cup [phase : {"loading"}, claim : Claim]
    \cup [phase : {"corrupt"}, job : Jobs]
    \cup [phase : CommitPhases, tx : Tx, attempt : {0, 1}, est : Estimates,
          refreshed : BOOLEAN]

TypeOK ==
  /\ now \in Nat
  /\ rows \in [Jobs -> Row]
  /\ permits \in [PermitKeys -> Nat]
  /\ wake \in Int
  /\ claim \in [Procs -> Claim \cup {NoClaim}]
  /\ call \in [Procs -> Calls]
  /\ limbo \in [Procs -> Tx \cup {NoTx}]

Init ==
  /\ now = 0
  /\ rows = [j \in Jobs |-> EmptyRow]
  /\ permits = [k \in PermitKeys |-> NoId]
  /\ wake = NoTime
  /\ claim = [p \in Procs |-> NoClaim]
  /\ call = [p \in Procs |-> Idle]
  /\ limbo = [p \in Procs |-> NoTx]

-----------------------------------------------------------------------------
(* Fresh identities.  An identity that no longer occurs anywhere may be    *)
(* drawn again: nothing can compare it with its earlier use.               *)

RecordIds(r) == {r.exec, r.lease.token}
TxIds(tx) ==
  IF tx = NoTx THEN {}
  ELSE RecordIds(tx.old) \cup RecordIds(tx.new)
         \cup {tx.op.old.id, tx.op.new.id, tx.permits.old, tx.permits.new}
ClaimIds(c) == IF c = NoClaim THEN {} ELSE RecordIds(c.rec) \cup {c.op.id}
CallIds(c) ==
  CASE c.phase = "claiming" -> RecordIds(c.old)
    [] c.phase = "loading" -> ClaimIds(c.claim)
    [] c.phase \in CommitPhases -> TxIds(c.tx)
    [] OTHER -> {}

UsedIds ==
  (UNION {RecordIds(rows[j].job) \cup {rows[j].op.id} : j \in Jobs})
    \cup {permits[k] : k \in PermitKeys}
    \cup (UNION {ClaimIds(claim[p]) \cup CallIds(call[p]) \cup TxIds(limbo[p]) : p \in Procs})

FreshIds ==
  {i \in Ids \ UsedIds : \A k \in Ids \ UsedIds : i <= k}

-----------------------------------------------------------------------------
(* Starting a call                                                         *)

Available(p) == call[p] = Idle
Holding(p) == Available(p) /\ claim[p].held

Begin(p, tx) ==
  /\ call' = [call EXCEPT ![p] = Committing(tx)]
  /\ UNCHANGED <<now, store, claim, limbo>>

Reconcile(skip, include) == WakeReconcile(rows, wake, skip, include)

\* next_revision does not overflow.
Advances(j) == rows[j].job.rev < MaxRevision

\* The due entry a claim removed, skipped when its settlement scans the index.
Route(c) == {<<c.job, c.route>>}

\* enqueue and ensure_seed.  An existing row, and the receipt that reserves a
\* completed seed, answer AlreadyPresent and change nothing.
Enqueue(p, j) ==
  /\ Available(p)
  /\ rows[j].job = NoJob
  /\ rows[j].op # NoOp => "reuse" \in Ops
  /\ rows[j].op # NoOp => rows[j].op.fence < MaxFence
  /\ \E kind \in {"enqueue", "seed"} \cap Ops, d \in Delays, e \in Expiries, id \in FreshIds :
       LET at == now + d
           new == NewRecord(id, at, IF e = NoTime THEN NoTime ELSE at + e, now)
       IN /\ kind = "seed" => rows[j].op.kind # "receipt"
          /\ Begin(p, EnqueueTx(kind, j, new, rows[j].op, WakeLower(wake, at)))

\* Discovery of a candidate and of the route to it: its due entry, or the lease
\* marker of an expired lease.  at is the time the whole claim works with.
LoadCandidate(p, j) ==
  /\ Available(p) /\ ~claim[p].held
  /\ LET r == rows[j].job
         viaDue == r.sched \in rows[j].due
     IN /\ r # NoJob
        /\ IF viaDue THEN "claim" \in Ops
           ELSE "reclaim" \in Ops /\ rows[j].lease /\ r.state = "leased" /\ r.lease.until <= now
        /\ call' = [call EXCEPT ![p] = Claiming(j, r, viaDue, now)]
  /\ UNCHANGED <<now, store, claim, limbo>>

\* The fence high water is read from the operation key and not checked by the
\* claim transaction, so with StaleReads it may be any earlier one.
FenceReads(j) == IF StaleReads THEN 0 .. rows[j].op.fence ELSE {rows[j].op.fence}

\* prepare_claim_record and claim_transaction.
PrepareClaim(p) ==
  /\ call[p].phase = "claiming"
  /\ LET j == call[p].job
         r == call[p].old
         at == call[p].at
         viaDue == call[p].viaDue
     IN /\ r.sched <= at /\ ~Expired(r, at) /\ Claimable(r, at)
        /\ ~HasExhaustedAttempts(r)
        /\ r.rev < MaxRevision
        /\ \E high \in FenceReads(j), keys \in PermitSets[j], id \in FreshIds,
              until \in at + 1 .. MinOf(at + LeaseTimeout, MaxTime) :
             /\ NextFence(r, high) <= MaxFence
             /\ \A k \in keys : permits[k] = IF viaDue THEN NoId ELSE r.lease.token
             /\ Begin(p, ClaimTx(j, r, ClaimedRecord(r, id, NextFence(r, high), until, at),
                                 id, viaDue, keys))

\* finish_claim: the payload is read after the claim has committed.
FinishClaim(p) ==
  /\ call[p].phase = "loading"
  /\ LET c == call[p].claim
     IN IF rows[c.job].payload
        THEN /\ claim' = [claim EXCEPT ![p] = c]
             /\ call' = [call EXCEPT ![p] = Idle]
        ELSE /\ call' = [call EXCEPT ![p] = Corrupt(c.job)]
             /\ UNCHANGED claim
  /\ UNCHANGED <<now, store, limbo>>

OwnedKeys(j) == {k \in UNION PermitSets[j] : permits[k] = rows[j].job.lease.token}

\* dead_letter_by_id: loads the job again, by its identity only.
Quarantine(p) ==
  /\ call[p].phase = "corrupt"
  /\ LET j == call[p].job
     IN /\ rows[j].job.state = "leased" /\ Advances(j)
        /\ rows[j].lease /\ rows[j].op.kind = "live"
        /\ \E id \in FreshIds :
             Begin(p, QuarantineTx(j, rows[j], id, now, OwnedKeys(j), Reconcile({}, {})))

-----------------------------------------------------------------------------
(* Calls of a claim holder                                                 *)

\* lose_authority: a claim whose lease is not current loses it for good.
LoseAuthority(p) ==
  /\ claim' = [claim EXCEPT ![p].lost = TRUE]
  /\ UNCHANGED <<now, store, call, limbo>>

\* lease_record_transaction: the lease stays, its record is written anew.
Rewrite(p, until) ==
  /\ claim[p].rec.rev < MaxRevision
  /\ \E id \in FreshIds :
       Begin(p, RenewTx(claim[p], RenewedRecord(claim[p].rec, until), id))

Renew(p) ==
  /\ Holding(p) /\ "renew" \in Ops
  /\ LET until == claim[p].rec.lease.until
     IN IF CurrentLease(claim[p], now)
        THEN \E new \in until .. MaxOf(until, MinOf(now + LeaseTimeout, MaxTime)) : Rewrite(p, new)
        ELSE LoseAuthority(p)

Checkpoint(p) ==
  /\ Holding(p) /\ "checkpoint" \in Ops
  /\ IF CurrentLease(claim[p], now)
     THEN Rewrite(p, claim[p].rec.lease.until)
     ELSE LoseAuthority(p)

Settle(p, tx) ==
  /\ claim[p].rec.rev < MaxRevision
  /\ Begin(p, tx)

DeadLetterClaim(p) ==
  /\ CurrentLease(claim[p], now)
  /\ \E id \in FreshIds :
       LET c == claim[p]
       IN Settle(p, TerminalTx(c, DeadRecord(c.rec, now), id, FALSE, Reconcile(Route(c), {})))

Complete(p) ==
  /\ Holding(p) /\ "complete" \in Ops
  /\ CurrentLease(claim[p], now)
  /\ Settle(p, CompleteTx(claim[p], Reconcile(Route(claim[p]), {})))

ContinueAt(p, notBefore) ==
  LET c == claim[p]
  IN /\ notBefore >= c.rec.attempts.last
     /\ IF c.rec.expires # NoTime /\ MaxOf(notBefore, now) >= c.rec.expires
        THEN DeadLetterClaim(p)
        ELSE /\ CurrentLease(c, now)
             /\ \E id \in FreshIds :
                  LET new == ContinuedRecord(c.rec, notBefore, now)
                  IN Settle(p, ScheduleTx(c, new, id, Reconcile(Route(c), {new.sched})))

Continue(p) ==
  /\ Holding(p) /\ "continue" \in Ops
  /\ \E d \in Delays : ContinueAt(p, now + d)

\* retry_claim: only its dead-letter exits ask for a current lease.
Retry(p) ==
  /\ Holding(p) /\ "retry" \in Ops
  /\ LET c == claim[p]
     IN IF RetryExhausted(c.rec, now)
        THEN DeadLetterClaim(p)
        ELSE \E at \in MaxOf(now, c.rec.sched) .. MaxOf(now + BackoffCap, c.rec.sched) :
               IF c.rec.expires # NoTime /\ at >= c.rec.expires
               THEN DeadLetterClaim(p)
               ELSE \E id \in FreshIds :
                      Settle(p, ScheduleTx(c, RetriedRecord(c.rec, at, now), id,
                                           Reconcile(Route(c), {at})))

DeadLetter(p) ==
  /\ Holding(p) /\ "deadletter" \in Ops
  /\ DeadLetterClaim(p)

\* cancel_claim_commit and cancel_claim.  Without a durable request a worker
\* that is shutting down continues the job instead of cancelling it.
CancelClaim(p) ==
  /\ Holding(p) /\ "cancelclaim" \in Ops
  /\ LET c == claim[p]
         requested == rows[c.job].canc
         cancelled == Released(c.rec, "cancelled")
     IN /\ LeaseAt(c, now)
        /\ \/ /\ ~requested
              /\ ContinueAt(p, now)
           \/ /\ requested \/ CurrentLease(c, now)
              /\ \E id \in FreshIds :
                   Settle(p, TerminalTx(c, cancelled, id, requested, Reconcile(Route(c), {})))

RequestCancellation(p) ==
  /\ Holding(p) /\ "request" \in Ops
  /\ LeaseAt(claim[p], now)
  /\ Begin(p, RequestTx(claim[p], rows[claim[p].job].canc))

\* A settlement takes the claim by value: refused, it is gone all the same.
Forfeit(p) ==
  /\ Holding(p)
  /\ ~CurrentLease(claim[p], now)
  /\ claim' = [claim EXCEPT ![p] = NoClaim]
  /\ UNCHANGED <<now, store, call, limbo>>

-----------------------------------------------------------------------------
(* Administrative calls                                                    *)

Administers(p, j, op) ==
  /\ Available(p) /\ op \in Ops
  /\ rows[j].job # NoJob

\* load_scheduled_markers: due and fair entries exist and the operation marker
\* is absent or live.
ScheduledMarkers(j) ==
  /\ rows[j].job.state = "scheduled"
  /\ rows[j].job.sched \in rows[j].due /\ rows[j].fair
  /\ rows[j].op.kind \in {"none", "live"}

Inactivate(p, j, new) ==
  /\ ScheduledMarkers(j) /\ Advances(j)
  /\ \E id \in FreshIds :
       Begin(p, InactivateTx(j, rows[j], new, id,
                             Reconcile({<<j, rows[j].job.sched>>}, {})))

CancelJob(p, j) ==
  /\ Administers(p, j, "cancel")
  /\ \/ /\ rows[j].job.state = "leased" /\ rows[j].job.lease.until > now
        /\ rows[j].lease /\ rows[j].op.kind = "live"
        /\ Begin(p, SignalTx(j, rows[j]))
     \/ Inactivate(p, j, Released(rows[j].job, "cancelled"))
     \/ /\ rows[j].job.state = "suspended" /\ rows[j].op.kind = "live" /\ Advances(j)
        /\ \E id \in FreshIds : Begin(p, CancelSuspendedTx(j, rows[j], id))

SuspendJob(p, j) ==
  /\ Administers(p, j, "suspend")
  /\ Inactivate(p, j, Released(rows[j].job, "suspended"))

ResumeJob(p, j) ==
  /\ Administers(p, j, "resume")
  /\ rows[j].job.state = "suspended" /\ rows[j].op.kind = "live" /\ Advances(j)
  /\ \E id \in FreshIds :
       Begin(p, ResumeTx(j, rows[j], id, Reconcile({}, {rows[j].job.sched})))

\* Mutant: recovery leaves a lease whose attempts are exhausted to its worker.
ExpireLease_SkipsExhausted(p, j) ==
  /\ rows[j].job.state = "leased" /\ rows[j].job.lease.until <= now
  /\ rows[j].lease /\ rows[j].op.kind = "live" /\ Advances(j)
  /\ ~HasExhaustedAttempts(rows[j].job)
  /\ LET new == RecoveredRecord(rows[j].job, rows[j].canc, now)
     IN \E id \in FreshIds :
          Begin(p, ExpireLeaseTx(j, rows[j], new, id, OwnedKeys(j), Reconcile({}, {now})))

ExpireLease(p, j) ==
  /\ rows[j].job.state = "leased" /\ rows[j].job.lease.until <= now
  /\ rows[j].lease /\ rows[j].op.kind = "live" /\ Advances(j)
  /\ LET new == RecoveredRecord(rows[j].job, rows[j].canc, now)
         include == IF new.state = "scheduled" THEN {now} ELSE {}
     IN \E id \in FreshIds :
          Begin(p, ExpireLeaseTx(j, rows[j], new, id, OwnedKeys(j), Reconcile({}, include)))

ExpireJob(p, j) ==
  /\ Administers(p, j, "expire")
  /\ \/ ExpireLease(p, j)
     \/ /\ Expired(rows[j].job, now)
        /\ Inactivate(p, j, DeadRecord(rows[j].job, now))

RedriveJob(p, j) ==
  /\ Administers(p, j, "redrive")
  /\ rows[j].job.state = "dead" /\ rows[j].op.kind = "live" /\ Advances(j)
  /\ \E d \in Delays, id \in FreshIds, reuse \in BOOLEAN :
       LET exec == IF reuse THEN rows[j].job.exec ELSE id
           new == RedrivenRecord(rows[j].job, exec, now + d)
       IN Begin(p, RedriveTx(j, rows[j], new, id, Reconcile({}, {new.sched})))

RepairJob(p, j) ==
  /\ Administers(p, j, "repair")
  /\ rows[j].job.state = "scheduled" /\ rows[j].op.kind = "live" /\ Advances(j)
  /\ Begin(p, RepairTx(j, rows[j], Reconcile({}, {rows[j].job.sched})))

-----------------------------------------------------------------------------
(* The commit protocol                                                     *)

Fits(tx) == RowFits(rows[tx.job], tx) /\ PermitsFit(permits, tx) /\ WakeFits(wake, tx)

\* The store evaluates the checks and applies the mutations, or neither.
Evaluate(tx) ==
  IF Fits(tx)
  THEN /\ rows' = [rows EXCEPT ![tx.job] = RowAfter(@, tx)]
       /\ permits' = PermitsAfter(permits, tx)
       /\ wake' = WakeAfter(wake, tx)
  ELSE UNCHANGED store

Sent(c) == c.phase = "probe" \/ (c.phase \in CommitPhases /\ c.attempt = 1)

MayDoubt(p) ==
  \/ Sent(call[p])
  \/ /\ limbo[p] = NoTx
     /\ Cardinality({q \in Procs : Sent(call[q]) \/ limbo[q] # NoTx}) < MaxInDoubt

\* A transaction the caller stops waiting for may still be applied later.
LeaveBehind(p, maybe) ==
  limbo' = IF maybe /\ call[p].phase \in CommitPhases /\ call[p].est = "open"
           THEN [limbo EXCEPT ![p] = call[p].tx] ELSE limbo

\* Mutant: a failed renewal leaves the claim its authority.
Return_KeepsAuthority(p, ok) ==
  LET kind == IF call[p].phase \in CommitPhases THEN call[p].tx.kind ELSE "none"
  IN /\ call' = [call EXCEPT ![p] =
                   IF kind = "claim" /\ ok THEN Loading(ClaimOf(call[p].tx)) ELSE Idle]
     /\ claim' = CASE kind = "settle" -> [claim EXCEPT ![p] = NoClaim]
                   [] kind = "renew" /\ ok ->
                        [claim EXCEPT ![p].rec = call[p].tx.new, ![p].op = call[p].tx.op.new]
                   [] OTHER -> claim

\* The engine call returns Ok or Err to its caller.
Return(p, ok) ==
  LET kind == IF call[p].phase \in CommitPhases THEN call[p].tx.kind ELSE "none"
  IN /\ call' = [call EXCEPT ![p] =
                   IF kind = "claim" /\ ok THEN Loading(ClaimOf(call[p].tx)) ELSE Idle]
     /\ claim' = CASE kind = "settle" -> [claim EXCEPT ![p] = NoClaim]
                   [] kind = "renew" /\ ok ->
                        [claim EXCEPT ![p].rec = call[p].tx.new, ![p].op = call[p].tx.op.new]
                   [] kind = "renew" /\ ~ok -> [claim EXCEPT ![p].lost = TRUE]
                   [] OTHER -> claim

\* Conflict: a stale wake watermark may be the only reason, so the transition
\* looks at it once; an enqueue does not.
OnConflict(p) ==
  IF call[p].tx.wake.check /\ ~call[p].refreshed /\ call[p].tx.kind \notin {"enqueue", "seed"}
  THEN /\ call' = [call EXCEPT ![p].phase = "refresh", ![p].est = "conflict"]
       /\ UNCHANGED claim
  ELSE Return(p, FALSE)

\* commit answers Committed or Conflict: the outcome already established for
\* this commit id, or the one of evaluating the transaction now.
CommitKnown(p) ==
  /\ call[p].phase = "commit"
  /\ LET c == call[p]
         committed == c.est = "committed" \/ (c.est = "open" /\ Fits(c.tx))
     IN /\ IF c.est = "open" THEN Evaluate(c.tx) ELSE UNCHANGED store
        /\ IF committed THEN Return(p, TRUE) ELSE OnConflict(p)
  /\ UNCHANGED <<now, limbo>>

\* commit answers Unknown.
CommitUnknown(p) ==
  /\ call[p].phase = "commit" /\ MayDoubt(p)
  /\ call' = [call EXCEPT ![p].phase = "probe"]
  /\ UNCHANGED <<now, store, claim, limbo>>

\* The store settles a transaction whose acknowledgement was lost.
Land(p) ==
  /\ Sent(call[p]) /\ call[p].est = "open"
  /\ Evaluate(call[p].tx)
  /\ call' = [call EXCEPT ![p].est = IF Fits(call[p].tx) THEN "committed" ELSE "conflict"]
  /\ UNCHANGED <<now, claim, limbo>>

LandLate(p) ==
  /\ limbo[p] # NoTx
  /\ Evaluate(limbo[p])
  /\ limbo' = [limbo EXCEPT ![p] = NoTx]
  /\ UNCHANGED <<now, claim, call>>

\* Mutant: the probe compares revisions instead of values.
Reached_SameRevision(tx) ==
  LET row == rows[tx.job]
  IN CASE tx.probe = "job" -> row.job.rev = tx.new.rev
       [] tx.probe = "op" -> row.op = tx.op.new
       [] tx.probe = "canc" -> row.canc
       [] tx.probe = "identity" -> row.job # NoJob

Reached(tx) ==
  LET row == rows[tx.job]
  IN CASE tx.probe = "job" -> row.job = tx.new
       [] tx.probe = "op" -> row.op = tx.op.new
       [] tx.probe = "canc" -> row.canc
       [] tx.probe = "identity" ->
            row.job # NoJob \/ (tx.kind = "seed" /\ row.op.kind = "receipt")

Untouched(tx) ==
  LET row == rows[tx.job]
  IN CASE tx.probe = "job" -> row.job = tx.old
       [] tx.probe = "op" -> row.op = tx.op.old
       [] tx.probe = "canc" -> ~row.canc
       [] tx.probe = "identity" -> tx.kind = "seed"

\* reconcile_unknown and reconcile_after_commit: read the probe key.
Probe(p) ==
  /\ call[p].phase = "probe"
  /\ LET c == call[p]
     IN IF ~Reached(c.tx) /\ Untouched(c.tx) /\ c.attempt = 0
        THEN /\ call' = [call EXCEPT ![p].phase = "commit", ![p].attempt = 1]
             /\ UNCHANGED <<claim, limbo>>
        ELSE /\ Return(p, Reached(c.tx))
             /\ LeaveBehind(p, TRUE)
  /\ UNCHANGED <<now, store>>

\* Mutant: every conflict is committed again as it is.
RefreshWake_Again(p) ==
  /\ call[p].phase = "refresh"
  /\ call' = [call EXCEPT ![p] = Committing(call[p].tx)]
  /\ UNCHANGED <<now, store, claim, limbo>>

\* refresh_conflicted_wake: only a known conflict permits a new commit id.
RefreshWake(p) ==
  /\ call[p].phase = "refresh"
  /\ IF wake = call[p].tx.wake.old
     THEN Return(p, FALSE)
     ELSE /\ call' = [call EXCEPT ![p] =
                        [Committing(RefreshedTx(call[p].tx, wake)) EXCEPT !.refreshed = TRUE]]
          /\ UNCHANGED claim
  /\ UNCHANGED <<now, store, limbo>>

\* A read or a commit fails with a store error, a read finds the operation
\* refused, or a committed claim is not published: the call returns an error.
FailCall(p) ==
  /\ call[p] # Idle
  /\ Return(p, FALSE)
  /\ LeaveBehind(p, Sent(call[p]))
  /\ UNCHANGED <<now, store>>

\* The process stops; it restarts without its call and its claim.
Crash(p) ==
  /\ "crash" \in Ops
  /\ call[p] # Idle \/ claim[p].held
  /\ call' = [call EXCEPT ![p] = Idle]
  /\ claim' = [claim EXCEPT ![p] = NoClaim]
  /\ LeaveBehind(p, MayDoubt(p))
  /\ UNCHANGED <<now, store>>

Tick ==
  /\ now < MaxTime
  /\ now' = now + 1
  /\ UNCHANGED <<store, claim, call, limbo>>

\* The payload chunks of a job are damaged in the store.
CorruptPayload(j) ==
  /\ "corrupt" \in Ops /\ rows[j].payload
  /\ rows' = [rows EXCEPT ![j].payload = FALSE]
  /\ UNCHANGED <<now, permits, wake, claim, call, limbo>>

-----------------------------------------------------------------------------

Commit(p) == CommitKnown(p) \/ CommitUnknown(p) \/ Probe(p) \/ RefreshWake(p)

WorkerCall(p) ==
  \/ Renew(p) \/ Checkpoint(p) \/ Complete(p) \/ Continue(p) \/ Retry(p)
  \/ DeadLetter(p) \/ CancelClaim(p) \/ RequestCancellation(p) \/ Forfeit(p)

AdminCall(p, j) ==
  \/ CancelJob(p, j) \/ SuspendJob(p, j) \/ ResumeJob(p, j)
  \/ ExpireJob(p, j) \/ RedriveJob(p, j) \/ RepairJob(p, j)

ClaimCall(p) == PrepareClaim(p) \/ FinishClaim(p) \/ Quarantine(p)

Step(p) ==
  \/ \E j \in Jobs : Enqueue(p, j) \/ LoadCandidate(p, j) \/ AdminCall(p, j)
  \/ ClaimCall(p) \/ WorkerCall(p) \/ Commit(p)
  \/ Land(p) \/ LandLate(p) \/ FailCall(p) \/ Crash(p)

Next ==
  \/ \E p \in Procs : Step(p)
  \/ \E j \in Jobs : CorruptPayload(j)
  \/ Tick

Spec == Init /\ [][Next]_vars

=============================================================================
