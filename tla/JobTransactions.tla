--------------------------- MODULE JobTransactions ---------------------------
(***************************************************************************)
(* What each lifecycle operation of bg-jobs computes: the next job record  *)
(* and the checked transaction that stores it.  Pure operators: w is the   *)
(* wake plan, id the fresh identity the operation draws, c the claim an    *)
(* operation consumes and row the keys an administrative one has read.     *)
(***************************************************************************)
EXTENDS JobStore

MaxOf(a, b) == IF a >= b THEN a ELSE b
MinOf(a, b) == IF a <= b THEN a ELSE b

\* ClaimedJob: the encoded authority a worker holds.  route is the due entry
\* the claim removed (NoTime when it replaced an expired lease).
Claim ==
  [held : {TRUE}, job : Jobs, rec : Record, op : Operation,
   keys : SUBSET PermitKeys, route : Int, lost : BOOLEAN]
NoClaim == [held |-> FALSE]

ClaimOf(tx) ==
  [held |-> TRUE, job |-> tx.job, rec |-> tx.new, op |-> tx.op.new,
   keys |-> tx.permits.keys,
   route |-> tx.marks.due.at,
   lost |-> FALSE]

LeaseAt(c, now) == c.rec.state = "leased" /\ c.rec.lease.until > now
CurrentLease(c, now) == ~c.lost /\ LeaseAt(c, now)

-----------------------------------------------------------------------------
(* Predicates and record updates                                           *)

HasExhaustedAttempts(r) == r.attempts.count >= MaxAttempts

Expired(r, now) == (r.expires # NoTime /\ r.expires <= now) \/ r.retention <= now

Claimable(r, at) ==
  \/ r.state = "scheduled"
  \/ r.state = "leased" /\ r.lease.until <= at

\* A settled record: the lease goes with the leased state.
Released(r, state) == [r EXCEPT !.state = state, !.rev = @ + 1, !.lease = NoLease]

NewRecord(id, at, expires, now) ==
  [state |-> "scheduled", rev |-> 0, exec |-> id, sched |-> at, expires |-> expires,
   retention |-> IF expires # NoTime THEN MaxOf(expires, now) ELSE MaxOf(at, now) + MaxAge,
   attempts |-> NoAttempts, lease |-> NoLease]

\* next_attempt.
NextAttempt(h, at) ==
  [count |-> h.count + 1, first |-> IF h.count = 0 THEN at ELSE h.first, last |-> at]

ClaimedRecord(r, id, fence, until, at) ==
  [r EXCEPT !.state = "leased", !.rev = @ + 1, !.attempts = NextAttempt(@, at),
     !.lease = [token |-> id, fence |-> fence, until |-> until]]

\* Mutant: the fence counts down.
NextFence_Decremented(r, highWater) == highWater - 1

NextFence(r, highWater) ==
  IF r.state = "leased" THEN MaxOf(r.lease.fence, highWater) + 1 ELSE highWater + 1

RenewedRecord(r, until) == [r EXCEPT !.rev = @ + 1, !.lease.until = until]

ContinuedRecord(r, notBefore, now) ==
  LET at == MaxOf(notBefore, r.sched)
  IN [Released(r, "scheduled") EXCEPT !.sched = at, !.attempts = NoAttempts,
        !.retention = IF r.expires # NoTime THEN @ ELSE MaxOf(at, now) + MaxAge]

RetriedRecord(r, at, now) ==
  [Released(r, "scheduled") EXCEPT !.sched = at, !.attempts.last = now]

DeadRecord(r, now) ==
  [Released(r, "dead") EXCEPT
     !.attempts.last = IF r.attempts.count = 0 THEN @ ELSE now]

RecoveredRecord(r, canc, now) ==
  CASE canc -> Released(r, "cancelled")
    [] ~canc /\ (Expired(r, now) \/ HasExhaustedAttempts(r)) -> DeadRecord(r, now)
    [] OTHER -> [Released(r, "scheduled") EXCEPT !.sched = now]

RedrivenRecord(r, exec, at) ==
  [Released(r, "scheduled") EXCEPT !.exec = exec, !.sched = at, !.attempts = NoAttempts,
     !.expires = IF r.expires # NoTime THEN at + MaxAge ELSE NoTime]

\* retry_claim: attempts or age are used up.
RetryExhausted(r, now) ==
  \/ now >= r.retention
  \/ now >= r.attempts.first /\ now - r.attempts.first >= MaxAge
  \/ HasExhaustedAttempts(r)

-----------------------------------------------------------------------------
(* Wake watermark planning                                                 *)

NoPlan == [check |-> FALSE, old |-> NoTime, new |-> NoTime]

WakeUpdate(wake, next) ==
  IF wake = next THEN NoPlan ELSE [check |-> TRUE, old |-> wake, new |-> next]

WakeLower(wake, at) ==
  IF wake # NoTime /\ wake <= at THEN NoPlan ELSE WakeUpdate(wake, at)

\* The first of some times, NoTime when there is none.
Earliest(times) ==
  IF \E t \in times : \A u \in times : t <= u
  THEN CHOOSE t \in times : \A u \in times : t <= u
  ELSE NoTime

\* The queue's earliest due entry, without one entry and with another.
NextDue(rows, skip, include) ==
  Earliest({t \in UNION {rows[j].due : j \in Jobs} :
              \E j \in Jobs : t \in rows[j].due /\ <<j, t>> \notin skip} \cup include)

WakeReconcile(rows, wake, skip, include) ==
  WakeUpdate(wake, NextDue(rows, skip, include))

\* refresh_conflicted_wake: a stale deletion keeps the current watermark, a
\* stale put may only lower it; every other condition survives.
RefreshedTx(tx, wake) ==
  LET next == IF tx.wake.new # NoTime THEN tx.wake.new ELSE wake
  IN [tx EXCEPT !.wake = IF next = NoTime THEN NoPlan ELSE WakeLower(wake, next)]

-----------------------------------------------------------------------------
(* Producer and claim transactions                                         *)

\* Mutant: a reused identity forgets the fence of its predecessor.
EnqueueTx_ForgetsFence(kind, j, new, op, w) ==
  [kind |-> kind, job |-> j, old |-> NoJob, new |-> new,
   marks |-> [payload |-> "put", due |-> Due(new.sched, Put), fair |-> Put,
              lease |-> Keep, canc |-> Keep, dlq |-> Keep],
   op |-> Swap(op, NoOp), permits |-> NoPermit, wake |-> w, probe |-> "identity"]

\* The identity has no job value; the fence of its last use is carried over.
EnqueueTx(kind, j, new, op, w) ==
  [kind |-> kind, job |-> j, old |-> NoJob, new |-> new,
   marks |-> [payload |-> "put", due |-> Due(new.sched, Put), fair |-> Put,
              lease |-> Keep, canc |-> Keep, dlq |-> Keep],
   op |-> Swap(op, IF op = NoOp THEN NoOp ELSE Watermark(op.fence)),
   permits |-> NoPermit, wake |-> w, probe |-> "identity"]

\* Mutant: the claim does not check that its permits are free.
ClaimTx_TakesPermits(j, old, new, id, viaDue, keys) ==
  [kind |-> "claim", job |-> j, old |-> old, new |-> new,
   marks |-> [payload |-> "keep",
              due |-> IF viaDue THEN Due(old.sched, Slot("present", "delete")) ELSE NoDue,
              fair |-> Delete,
              lease |-> Slot(IF viaDue THEN "any" ELSE "present", "put"),
              canc |-> Slot("absent", "keep"), dlq |-> Keep],
   op |-> [check |-> FALSE, old |-> NoOp, new |-> Live(id, new.lease.fence)],
   permits |-> [keys |-> keys, check |-> FALSE, old |-> NoId, new |-> id],
   wake |-> NoPlan, probe |-> "job"]

\* A claim through a due entry removes it and takes free permits; a claim of an
\* expired lease takes over the permits its previous token still holds.  The
\* operation key is overwritten without a check.
ClaimTx(j, old, new, id, viaDue, keys) ==
  [kind |-> "claim", job |-> j, old |-> old, new |-> new,
   marks |-> [payload |-> "keep",
              due |-> IF viaDue THEN Due(old.sched, Slot("present", "delete")) ELSE NoDue,
              fair |-> Delete,
              lease |-> Slot(IF viaDue THEN "any" ELSE "present", "put"),
              canc |-> Slot("absent", "keep"), dlq |-> Keep],
   op |-> [check |-> FALSE, old |-> NoOp, new |-> Live(id, new.lease.fence)],
   permits |-> Permits(keys, IF viaDue THEN NoId ELSE old.lease.token, id),
   wake |-> NoPlan, probe |-> "job"]

-----------------------------------------------------------------------------
(* Transactions of a claim holder.  authority_checks: job, lease marker,   *)
(* operation and permits are exactly the claim's.                          *)

RenewTx(c, new, id) ==
  [kind |-> "renew", job |-> c.job, old |-> c.rec, new |-> new,
   marks |-> [payload |-> "keep", due |-> NoDue, fair |-> Keep,
              lease |-> Slot("present", "keep"), canc |-> Slot("absent", "keep"),
              dlq |-> Keep],
   op |-> Swap(c.op, Live(id, new.lease.fence)),
   permits |-> Permits(c.keys, c.rec.lease.token, c.rec.lease.token),
   wake |-> NoPlan, probe |-> "job"]

\* Mutant: a retry does not look for a cancellation request.
ScheduleTx_IgnoresRequest(c, new, id, w) ==
  [kind |-> "settle", job |-> c.job, old |-> c.rec, new |-> new,
   marks |-> [payload |-> "keep", due |-> Due(new.sched, Put), fair |-> Put,
              lease |-> Slot("present", "delete"), canc |-> Keep, dlq |-> Keep],
   op |-> Swap(c.op, Live(id, c.op.fence)),
   permits |-> Permits(c.keys, c.rec.lease.token, NoId),
   wake |-> w, probe |-> "job"]

\* scheduled_transaction: continuation and retry.
ScheduleTx(c, new, id, w) ==
  [kind |-> "settle", job |-> c.job, old |-> c.rec, new |-> new,
   marks |-> [payload |-> "keep", due |-> Due(new.sched, Put), fair |-> Put,
              lease |-> Slot("present", "delete"), canc |-> Slot("absent", "keep"),
              dlq |-> Keep],
   op |-> Swap(c.op, Live(id, c.op.fence)),
   permits |-> Permits(c.keys, c.rec.lease.token, NoId),
   wake |-> w, probe |-> "job"]

\* terminal_transaction: dead letter, worker cancellation, or (acknowledged)
\* the consumption of a durable cancellation marker.
TerminalTx(c, new, id, acknowledged, w) ==
  [kind |-> "settle", job |-> c.job, old |-> c.rec, new |-> new,
   marks |-> [payload |-> "keep", due |-> Due(c.route, Delete), fair |-> Delete,
              lease |-> Slot("present", "delete"),
              canc |-> IF acknowledged THEN Slot("present", "delete")
                       ELSE Slot("absent", "keep"),
              dlq |-> IF new.state = "dead" THEN Put ELSE Keep],
   op |-> Swap(c.op, Live(id, c.op.fence)),
   permits |-> Permits(c.keys, c.rec.lease.token, NoId),
   wake |-> w, probe |-> "job"]

\* completion_transaction: removes the job and leaves a receipt.  It does not
\* check the permit values it deletes, and reconciles on the operation key.
CompleteTx(c, w) ==
  [kind |-> "settle", job |-> c.job, old |-> c.rec, new |-> NoJob,
   marks |-> [payload |-> "delete", due |-> Due(c.route, Delete), fair |-> Delete,
              lease |-> Slot("present", "delete"), canc |-> Slot("absent", "keep"),
              dlq |-> Keep],
   op |-> Swap(c.op, Receipt(c.op.id, c.op.fence)),
   permits |-> [keys |-> c.keys, check |-> FALSE, old |-> NoId, new |-> NoId],
   wake |-> w, probe |-> "op"]

\* request_job_cancellation; canc: the marker was there already.
RequestTx(c, canc) ==
  [kind |-> "request", job |-> c.job, old |-> c.rec, new |-> c.rec,
   marks |-> [payload |-> "keep", due |-> NoDue, fair |-> Keep,
              lease |-> Slot("present", "keep"),
              canc |-> Slot(IF canc THEN "present" ELSE "absent", "put"), dlq |-> Keep],
   op |-> Swap(c.op, c.op),
   permits |-> Permits(c.keys, c.rec.lease.token, c.rec.lease.token),
   wake |-> NoPlan, probe |-> "canc"]

-----------------------------------------------------------------------------
(* Administrative transactions                                             *)

\* leased_cancel_transaction.
SignalTx(j, row) ==
  [kind |-> "admin", job |-> j, old |-> row.job, new |-> row.job,
   marks |-> [payload |-> "keep", due |-> NoDue, fair |-> Keep,
              lease |-> Slot("present", "keep"), canc |-> Put, dlq |-> Keep],
   op |-> Swap(row.op, row.op), permits |-> NoPermit, wake |-> NoPlan,
   probe |-> "canc"]

\* Cancellation, suspension and expiry of a scheduled job.
InactivateTx(j, row, new, id, w) ==
  [kind |-> "admin", job |-> j, old |-> row.job, new |-> new,
   marks |-> [payload |-> "keep", due |-> Due(row.job.sched, Slot("present", "delete")),
              fair |-> Slot("present", "delete"), lease |-> Keep,
              canc |-> Slot("absent", "keep"),
              dlq |-> IF new.state = "dead" THEN Put ELSE Keep],
   op |-> Swap(row.op, Live(id, row.op.fence)), permits |-> NoPermit, wake |-> w,
   probe |-> "job"]

CancelSuspendedTx(j, row, id) ==
  [kind |-> "admin", job |-> j, old |-> row.job, new |-> Released(row.job, "cancelled"),
   marks |-> [payload |-> "keep", due |-> NoDue, fair |-> Keep, lease |-> Keep,
              canc |-> Keep, dlq |-> Keep],
   op |-> Swap(row.op, Live(id, row.op.fence)), permits |-> NoPermit, wake |-> NoPlan,
   probe |-> "job"]

ResumeTx(j, row, id, w) ==
  [kind |-> "admin", job |-> j, old |-> row.job, new |-> Released(row.job, "scheduled"),
   marks |-> [payload |-> "keep", due |-> Due(row.job.sched, Slot("absent", "put")),
              fair |-> Slot("absent", "put"), lease |-> Keep,
              canc |-> Slot("absent", "keep"), dlq |-> Keep],
   op |-> Swap(row.op, Live(id, row.op.fence)), permits |-> NoPermit, wake |-> w,
   probe |-> "job"]

\* repair_job: restores the routes of a scheduled job.
RepairTx(j, row, w) ==
  [kind |-> "admin", job |-> j, old |-> row.job, new |-> Released(row.job, "scheduled"),
   marks |-> [payload |-> "keep", due |-> Due(row.job.sched, Put), fair |-> Put,
              lease |-> Keep, canc |-> Keep, dlq |-> Keep],
   op |-> Swap(row.op, row.op), permits |-> NoPermit, wake |-> w, probe |-> "job"]

\* Mutant: a redriven job stays in the dead-letter index.
RedriveTx_KeepsDeadLetter(j, row, new, id, w) ==
  [kind |-> "admin", job |-> j, old |-> row.job, new |-> new,
   marks |-> [payload |-> "keep", due |-> Due(new.sched, Put), fair |-> Put,
              lease |-> Keep, canc |-> Keep, dlq |-> Slot("present", "keep")],
   op |-> Swap(row.op, Live(id, row.op.fence)), permits |-> NoPermit, wake |-> w,
   probe |-> "job"]

RedriveTx(j, row, new, id, w) ==
  [kind |-> "admin", job |-> j, old |-> row.job, new |-> new,
   marks |-> [payload |-> "keep", due |-> Due(new.sched, Put), fair |-> Put,
              lease |-> Keep, canc |-> Keep, dlq |-> Slot("present", "delete")],
   op |-> Swap(row.op, Live(id, row.op.fence)), permits |-> NoPermit, wake |-> w,
   probe |-> "job"]

\* Mutant: lease recovery leaves the cancellation marker behind.
ExpireLeaseTx_KeepsMarker(j, row, new, id, keys, w) ==
  [kind |-> "admin", job |-> j, old |-> row.job, new |-> new,
   marks |-> [payload |-> "keep",
              due |-> IF new.state = "scheduled" THEN Due(new.sched, Put) ELSE NoDue,
              fair |-> IF new.state = "scheduled" THEN Put ELSE Delete,
              lease |-> Slot("present", "delete"),
              canc |-> Slot(IF new.state = "cancelled" THEN "present" ELSE "absent", "keep"),
              dlq |-> IF new.state = "dead" THEN Put ELSE Keep],
   op |-> Swap(row.op, Live(id, row.op.fence)),
   permits |-> Permits(keys, row.job.lease.token, NoId), wake |-> w, probe |-> "job"]

\* LeaseExpiration: recovers an expired lease into a retry, a cancellation
\* when its marker is set, or a dead letter when it is exhausted.
ExpireLeaseTx(j, row, new, id, keys, w) ==
  [kind |-> "admin", job |-> j, old |-> row.job, new |-> new,
   marks |-> [payload |-> "keep",
              due |-> IF new.state = "scheduled" THEN Due(new.sched, Put) ELSE NoDue,
              fair |-> IF new.state = "scheduled" THEN Put ELSE Delete,
              lease |-> Slot("present", "delete"),
              canc |-> IF new.state = "cancelled" THEN Slot("present", "delete")
                       ELSE Slot("absent", "keep"),
              dlq |-> IF new.state = "dead" THEN Put ELSE Keep],
   op |-> Swap(row.op, Live(id, row.op.fence)),
   permits |-> Permits(keys, row.job.lease.token, NoId), wake |-> w, probe |-> "job"]

\* payload_corrupt_transaction: dead-letters whichever lease it has read.
QuarantineTx(j, row, id, now, keys, w) ==
  [kind |-> "quarantine", job |-> j, old |-> row.job, new |-> DeadRecord(row.job, now),
   marks |-> [payload |-> "keep", due |-> NoDue, fair |-> Delete,
              lease |-> Slot("present", "delete"), canc |-> Delete, dlq |-> Put],
   op |-> Swap(row.op, Live(id, row.op.fence)),
   permits |-> Permits(keys, row.job.lease.token, NoId), wake |-> w, probe |-> "job"]

=============================================================================
