------------------------ MODULE JobTransactionProofs ------------------------
(***************************************************************************)
(* Every transaction bg-jobs builds is well-formed, keeps the keys of its  *)
(* job coherent whenever its checks hold and moves the job, its fence, its *)
(* cancellation marker and its permits as the contract allows: the facts   *)
(* about the builders of JobTransactions on which the invariance proofs    *)
(* rest.  None of them depends on when the transaction is applied.         *)
(***************************************************************************)
EXTENDS JobProperties, TLAPS

\* What a transaction of some kind does to the status, the fence, the request
\* marker, the payload and the operation key of a job.
Moves(kind, row, after) ==
  LET from == row.job.state
      to == after.job.state
  IN /\ after.op = NoOp => row.op = NoOp
     /\ to = "absent" => from = "leased"
     /\ after.payload => row.payload \/ kind \in {"enqueue", "seed"}
     /\ row.payload \/ kind \in {"enqueue", "seed"} => after.payload \/ to = "absent"
     /\ IF kind = "claim"
        THEN /\ from \in {"scheduled", "leased"} /\ to = "leased"
             /\ ~row.canc /\ ~after.canc /\ after.op.fence = after.job.lease.fence
        ELSE /\ after.op.fence = row.op.fence
             /\ to = "leased" =>
                  /\ from = "leased" /\ after.job.lease.token = row.job.lease.token
                  /\ kind = "renew" \/ (after.job = row.job /\ after.op = row.op)
             /\ \/ to = from /\ (after.canc <=> row.canc)
                \/ from = "leased" /\ to = "leased" /\ after.canc
                \/ /\ ~row.canc /\ ~after.canc
                   /\ \/ from = "absent" /\ to = "scheduled" /\ kind \in {"enqueue", "seed"}
                      \/ from \in {"leased", "suspended", "dead"} /\ to = "scheduled"
                      \/ from = "leased" /\ to = "absent"
                      \/ from = "scheduled" /\ to = "suspended"
                \/ /\ from \in {"scheduled", "leased", "suspended"} /\ to = "cancelled"
                   /\ ~after.canc
                \/ /\ from \in {"scheduled", "leased"} /\ to = "dead"
                   /\ ~after.canc /\ (row.canc => kind = "quarantine")

\* The job value is kept, removed, created, or follows at the next revision.
Succeeds(old, new) ==
  \/ new = old
  \/ new = NoJob
  \/ old = NoJob /\ new.exec # NoId
  \/ old # NoJob /\ new # NoJob /\ new.rev = old.rev + 1

\* A claim takes one complete permit set, from nobody or from the lease it
\* replaces; a lease that goes on keeps its permits; one that ends frees them.
Hands(tx, row) ==
  IF tx.kind = "claim"
  THEN /\ tx.permits.check /\ tx.permits.new = tx.new.lease.token
       /\ tx.permits.keys \in PermitSets[tx.job]
       /\ tx.permits.old = IF row.job.state = "leased" THEN row.job.lease.token ELSE NoId
  ELSE IF tx.new.state = "leased"
  THEN tx.permits.keys = {} \/ (tx.permits.check /\ tx.permits.old = tx.permits.new)
  ELSE tx.permits.new = NoId /\ (row.job.state = "leased" \/ tx.permits.keys = {})

Outcome(tx, row) ==
  /\ RowOK(RowAfter(row, tx))
  /\ Moves(tx.kind, row, RowAfter(row, tx))
  /\ Succeeds(row.job, tx.new)
  /\ Hands(tx, row)

\* Whenever the checks hold, however much later and on whatever row that is.
Preserving(tx) ==
  \A row \in Row : RowOK(row) /\ RowFits(row, tx) => Outcome(tx, row)

\* Only an enqueue and a redrive may name a new execution, only a claim a new
\* lease token; a renewal rewrites a lease, a request none; only a settlement
\* removes the job.  A claim and a renewal are recognised by the job value, a
\* completion by its receipt.
Identity(tx) ==
  /\ \/ tx.new = NoJob
     \/ tx.new.exec = tx.old.exec
     \/ /\ tx.kind \in {"enqueue", "seed", "admin"}
        /\ tx.new.exec \notin RecordIds(tx.old) \cup {NoId}
  /\ IF tx.kind = "claim"
     THEN tx.new.state = "leased" /\ tx.new.lease.token \notin RecordIds(tx.old) \cup {NoId}
     ELSE tx.new.lease.token \in {NoId, tx.old.lease.token}
  /\ tx.kind \in {"enqueue", "seed"} => tx.op.check
  /\ tx.kind \in {"claim", "renew"} => tx.probe = "job"
  /\ tx.kind = "renew" =>
       /\ tx.old.state = "leased" /\ tx.new.state = "leased" /\ tx.new # tx.old
       /\ tx.new.lease.token = tx.old.lease.token
  /\ tx.kind = "request" => tx.new = tx.old
  /\ tx.probe = "op" \/ (tx.new = NoJob /\ tx.old # NoJob) => tx.kind = "settle"
  /\ tx.probe = "op" =>
       tx.old.state = "leased" /\ tx.op.new = Receipt(tx.op.old.id, tx.op.old.fence)

GoodTx(tx) == tx \in Tx /\ Preserving(tx) /\ Identity(tx)

\* The record of the same execution at the next revision.
Follows(old, new) == new \in Record /\ new.rev = old.rev + 1 /\ new.exec = old.exec

\* The same without a lease.
Settles(old, new) == Follows(old, new) /\ new.lease = NoLease

-----------------------------------------------------------------------------
(* Record updates                                                          *)

\* Settling a record changes its state and revision and ends its lease.
LEMMA ReleasedRecord ==
  ASSUME NEW r \in Record, NEW s \in JobStates
  PROVE  /\ Released(r, s) \in Record /\ Settles(r, Released(r, s))
         /\ Released(r, s).state = s
         /\ Released(r, s).sched = r.sched
<1>1. r.rev + 1 \in Nat
  BY DEF Record
<1>2. NoLease \in Lease
  BY DEF NoLease, Lease, NoId
<1> QED
  BY <1>1, <1>2 DEF Released, Record, Settles, Follows

\* Dead-lettering keeps the attempt history and its clock.
LEMMA DeadRecordType ==
  ASSUME NEW r \in Record, NEW t \in Int
  PROVE  /\ DeadRecord(r, t) \in Record /\ Settles(r, DeadRecord(r, t))
         /\ DeadRecord(r, t).state = "dead"
<1> DEFINE q == Released(r, "dead")
<1>1. q \in Record /\ q.state = "dead" /\ Settles(r, q)
  BY ReleasedRecord DEF JobStates
<1>2. [q.attempts EXCEPT !.last = IF r.attempts.count = 0 THEN @ ELSE t] \in AttemptHistory
  BY <1>1 DEF Record, AttemptHistory
<1> HIDE DEF q
<1>3. [q EXCEPT !.attempts = [q.attempts EXCEPT !.last = IF r.attempts.count = 0 THEN @ ELSE t]] \in Record
  BY <1>1, <1>2 DEF Record
<1> QED
  BY <1>1, <1>3 DEF DeadRecord, q, Record, Settles, Follows

\* A new job.
LEMMA NewRecordType ==
  ASSUME NEW id \in Nat, NEW at \in Int, NEW e \in Int, NEW t \in Int
  PROVE  NewRecord(id, at, e, t) \in Record
<1>1. MaxAge \in Int
  BY PolicyAssumption
<1>2. NoAttempts \in AttemptHistory /\ NoLease \in Lease
  BY DEF NoAttempts, AttemptHistory, NoLease, Lease, NoId
<1>3. MaxOf(e, t) \in Int /\ MaxOf(at, t) + MaxAge \in Int
  BY <1>1 DEF MaxOf
<1> QED
  BY <1>2, <1>3 DEF NewRecord, Record, JobStates

\* A claimed job holds the lease it was given.
LEMMA ClaimedRecordType ==
  ASSUME NEW r \in Record, NEW id \in Nat, NEW fence \in Nat, NEW until \in Int, NEW at \in Int
  PROVE  /\ Follows(r, ClaimedRecord(r, id, fence, until, at))
         /\ ClaimedRecord(r, id, fence, until, at).state = "leased"
         /\ ClaimedRecord(r, id, fence, until, at).lease.token = id
         /\ ClaimedRecord(r, id, fence, until, at).lease.fence = fence
<1>1. r.rev + 1 \in Nat
  BY DEF Record
<1>2. NextAttempt(r.attempts, at) \in AttemptHistory
  BY DEF NextAttempt, Record, AttemptHistory
<1>3. [token |-> id, fence |-> fence, until |-> until] \in Lease
  BY DEF Lease
<1> QED
  BY <1>1, <1>2, <1>3 DEF ClaimedRecord, Record, JobStates, Follows

\* The fence of the next lease is a number.
LEMMA NextFenceType ==
  ASSUME NEW r \in Record, NEW high \in Nat
  PROVE  NextFence(r, high) \in Nat
  BY DEF NextFence, MaxOf, Record, Lease

\* A renewed record is the same lease with another end.
LEMMA RenewedRecordType ==
  ASSUME NEW r \in Record, NEW until \in Int
  PROVE  /\ Follows(r, RenewedRecord(r, until))
         /\ RenewedRecord(r, until).state = r.state
         /\ RenewedRecord(r, until).lease.token = r.lease.token
         /\ RenewedRecord(r, until).lease.fence = r.lease.fence
<1>1. r.rev + 1 \in Nat
  BY DEF Record
<1>2. [r.lease EXCEPT !.until = until] \in Lease
  BY DEF Record, Lease
<1> QED
  BY <1>1, <1>2 DEF RenewedRecord, Record, Lease, Follows

\* Rescheduling by its worker, by recovery or by a redrive.
LEMMA RescheduledRecordType ==
  ASSUME NEW r \in Record, NEW at \in Int, NEW t \in Int, NEW exec \in Nat
  PROVE  /\ Settles(r, ContinuedRecord(r, at, t)) /\ ContinuedRecord(r, at, t).state = "scheduled"
         /\ Settles(r, RetriedRecord(r, at, t)) /\ RetriedRecord(r, at, t).state = "scheduled"
         /\ RedrivenRecord(r, exec, at) \in Record
         /\ RedrivenRecord(r, exec, at).state = "scheduled"
         /\ RedrivenRecord(r, exec, at).rev = r.rev + 1
         /\ RedrivenRecord(r, exec, at).exec = exec
         /\ RedrivenRecord(r, exec, at).lease = NoLease
<1> DEFINE q == Released(r, "scheduled")
<1>1. q \in Record /\ q.state = "scheduled" /\ Settles(r, q)
  BY ReleasedRecord DEF JobStates
<1>2. MaxAge \in Int
  BY PolicyAssumption
<1>3. NoAttempts \in AttemptHistory
  BY DEF NoAttempts, AttemptHistory
<1>4. [q.attempts EXCEPT !.last = t] \in AttemptHistory
  BY <1>1 DEF Record, AttemptHistory
<1>5. MaxOf(at, r.sched) \in Int /\ MaxOf(MaxOf(at, r.sched), t) + MaxAge \in Int
  BY <1>2 DEF MaxOf, Record
<1>6. at + MaxAge \in Int /\ NoTime \in Int
  BY <1>2 DEF NoTime
<1> HIDE DEF q
<1>7. Settles(r, ContinuedRecord(r, at, t)) /\ ContinuedRecord(r, at, t).state = "scheduled"
  BY <1>1, <1>3, <1>5 DEF ContinuedRecord, q, Record, Settles, Follows
<1>8. Settles(r, RetriedRecord(r, at, t)) /\ RetriedRecord(r, at, t).state = "scheduled"
  BY <1>1, <1>4 DEF RetriedRecord, q, Record, Settles, Follows
<1>9. /\ RedrivenRecord(r, exec, at) \in Record /\ RedrivenRecord(r, exec, at).state = "scheduled"
      /\ RedrivenRecord(r, exec, at).rev = r.rev + 1
      /\ RedrivenRecord(r, exec, at).exec = exec
      /\ RedrivenRecord(r, exec, at).lease = NoLease
  BY <1>1, <1>3, <1>6 DEF RedrivenRecord, q, Record, Settles, Follows
<1> QED
  BY <1>7, <1>8, <1>9

\* Recovery of an expired lease schedules, cancels or dead-letters the job.
LEMMA RecoveredRecordType ==
  ASSUME NEW r \in Record, NEW canc \in BOOLEAN, NEW t \in Int
  PROVE  /\ Settles(r, RecoveredRecord(r, canc, t))
         /\ RecoveredRecord(r, canc, t).state \in {"scheduled", "dead", "cancelled"}
<1> DEFINE q == Released(r, "scheduled")
<1>1. q \in Record /\ q.state = "scheduled" /\ Settles(r, q)
  BY ReleasedRecord DEF JobStates
<1> HIDE DEF q
<1>2. Settles(r, [q EXCEPT !.sched = t]) /\ [q EXCEPT !.sched = t].state = "scheduled"
  BY <1>1 DEF Record, Settles, Follows
<1>3. Settles(r, Released(r, "cancelled")) /\ Released(r, "cancelled").state = "cancelled"
  BY ReleasedRecord DEF JobStates
<1>4. Settles(r, DeadRecord(r, t)) /\ DeadRecord(r, t).state = "dead"
  BY DeadRecordType
<1> QED
  BY <1>2, <1>3, <1>4 DEF RecoveredRecord, q

\* Applying a transaction yields a row.
LEMMA RowAfterType ==
  ASSUME NEW row \in Row, NEW tx \in Tx
  PROVE  RowAfter(row, tx) \in Row
  BY DEF Row, Tx, RowAfter, Written, Marks

-----------------------------------------------------------------------------
(* Coherent rows, one lemma per resulting state                            *)

\* A scheduled job has one due entry and no marker of another state.
LEMMA ScheduledRow ==
  ASSUME NEW row,
         row.job.state = "scheduled", row.due = {row.job.sched}, row.fair,
         ~row.lease, ~row.canc, ~row.dlq, row.op.kind # "receipt"
  PROVE  RowOK(row)
  BY DEF RowOK, NoJob

\* A leased job carries its fence in the operation key.
LEMMA LeasedRow ==
  ASSUME NEW row,
         row.job.state = "leased", row.due = {}, ~row.fair, row.lease, ~row.dlq,
         row.op.kind = "live", row.op.fence = row.job.lease.fence,
         row.job.lease.token # NoId
  PROVE  RowOK(row)
  BY DEF RowOK, NoJob

\* A job that is over or parked has no route.
LEMMA InactiveRow ==
  ASSUME NEW row,
         row.job.state \in {"dead", "cancelled", "suspended"}, row.due = {}, ~row.fair,
         ~row.lease, ~row.canc, row.dlq <=> row.job.state = "dead", row.op.kind = "live"
  PROVE  RowOK(row)
  BY DEF RowOK, NoJob

\* A completed job leaves its receipt.
LEMMA AbsentRow ==
  ASSUME NEW row,
         row.job = NoJob, ~row.payload, row.due = {}, ~row.fair, ~row.lease, ~row.canc,
         ~row.dlq, row.op.kind = "receipt"
  PROVE  RowOK(row)
  BY DEF RowOK, NoJob

-----------------------------------------------------------------------------
(* Transactions                                                            *)

Plan == [check : BOOLEAN, old : Int, new : Int]

USE DEF Slot, Keep, Put, Delete, Due, NoDue, Swap, Permits, NoPermit, NoPlan, Live,
        Watermark, Receipt, NoId, NoTime

\* An enqueue, also one that reuses a completed identity.
LEMMA EnqueueGood ==
  ASSUME NEW kind \in {"enqueue", "seed"}, NEW j \in Jobs, NEW new \in Record, NEW w \in Plan,
         NEW r0 \in Row, RowOK(r0), r0.job = NoJob, new.state = "scheduled",
         new.exec # NoId, new.lease = NoLease
  PROVE  GoodTx(EnqueueTx(kind, j, new, r0.op, w))
<1> DEFINE tx == EnqueueTx(kind, j, new, r0.op, w)
<1>1. tx \in Tx
  <2>1. NoJob \in Record
    BY DEF NoJob, NoAttempts, NoLease, Record, JobStates, AttemptHistory, Lease
  <2>2. r0.op \in Operation
    BY DEF Row
  <2> QED
    BY <2>1, <2>2 DEF EnqueueTx, NoOp, Tx, TxKinds, Marks, Slots, Checks, Writes, Operation, OpKinds, Plan, Record, Lease
<1>2. ASSUME NEW row \in Row, RowOK(row), RowFits(row, tx)
      PROVE  Outcome(tx, row)
  <2> DEFINE after == RowAfter(row, tx)
  <2>1. row.job.state = "absent" /\ row.due = {} /\ ~row.lease /\ ~row.canc /\ ~row.dlq
    BY <1>2 DEF EnqueueTx, RowFits, RowOK, Holds, Row, NoJob
  <2>2. after.job = new /\ after.op.kind # "receipt"
    BY DEF EnqueueTx, RowAfter, Written, NoOp
  <2>3. after.due = {new.sched}
    BY <2>1 DEF EnqueueTx, RowAfter, Written
  <2>4. after.fair
    BY DEF EnqueueTx, RowAfter, Written
  <2>5. ~after.lease /\ ~after.canc /\ ~after.dlq
    BY <2>1 DEF EnqueueTx, RowAfter, Written
  <2>6. RowOK(after)
    BY <2>2, <2>3, <2>4, <2>5, ScheduledRow
  <2>7. row.job = tx.old /\ after.job = tx.new /\ tx.kind = kind
    BY <1>2 DEF EnqueueTx, RowFits, RowAfter
  <2>8. after.payload
    BY DEF EnqueueTx, RowAfter, Written
  <2>9. after.op.fence = row.op.fence /\ (after.op = NoOp => row.op = NoOp)
    BY <1>2 DEF EnqueueTx, RowFits, RowAfter, NoOp
  <2>10. after.job.state = "scheduled"
    BY <2>2
  <2>11. Moves(tx.kind, row, after)
    BY <2>6, <2>7, <2>8, <2>9, <2>10, <2>1, <2>5 DEF Moves, RowOK
  <2>12. Succeeds(row.job, tx.new)
    BY <2>7 DEF Succeeds, EnqueueTx
  <2>13. Hands(tx, row)
    BY <2>7, <2>10, <2>1, <2>5 DEF Hands, EnqueueTx
  <2> QED
    BY <2>6, <2>11, <2>12, <2>13 DEF Outcome
<1>3. Identity(tx)
  BY DEF Identity, EnqueueTx, RecordIds, NoLease, NoJob
<1> QED
  BY <1>1, <1>2, <1>3 DEF GoodTx, Preserving

\* A claim, through a due entry or of an expired lease.
LEMMA ClaimGood ==
  ASSUME NEW j \in Jobs, NEW old \in Record, NEW new, NEW id \in Nat \ {0},
         NEW viaDue \in BOOLEAN, NEW keys \in PermitSets[j],
         new.state = "leased", new.lease.token = id,
         Follows(old, new), id \notin RecordIds(old)
  PROVE  GoodTx(ClaimTx(j, old, new, id, viaDue, keys))
<1> DEFINE tx == ClaimTx(j, old, new, id, viaDue, keys)
<1>0. new \in Record /\ keys \in SUBSET PermitKeys
  BY PermitAssumption DEF Follows, PermitKeys
<1>1. tx \in Tx
  BY <1>0 DEF ClaimTx, Tx, TxKinds, Marks, Slots, Checks, Writes, Operation, OpKinds, Plan, Record, Lease, NoOp
<1>2. ASSUME NEW row \in Row, RowOK(row), RowFits(row, tx)
      PROVE  Outcome(tx, row)
  <2> DEFINE after == RowAfter(row, tx)
  <2>1. viaDue => row.job.state = "scheduled"
    BY <1>2 DEF ClaimTx, RowFits, RowOK, Holds, Row
  <2>2. ~viaDue => row.job.state = "leased"
    BY <1>2 DEF ClaimTx, RowFits, RowOK, Holds, Row
  <2>3. row.job.state \in {"scheduled", "leased"} /\ row.job = old
    BY <1>2, <2>1, <2>2 DEF ClaimTx, RowFits
  <2>4. ~row.dlq /\ row.due = IF viaDue THEN {old.sched} ELSE {}
    BY <1>2, <2>1, <2>2, <2>3 DEF RowOK
  <2>5. after.job = new /\ after.op = Live(id, new.lease.fence)
    BY DEF ClaimTx, RowAfter, Written
  <2>6. after.due = {}
    BY <2>4 DEF ClaimTx, RowAfter, Written
  <2>7. ~after.fair /\ after.lease /\ ~after.dlq
    BY <2>4 DEF ClaimTx, RowAfter, Written
  <2>8. RowOK(after)
    BY <2>5, <2>6, <2>7, LeasedRow
  <2>9. ~row.canc /\ ~after.canc
    BY <1>2 DEF ClaimTx, RowFits, Holds, RowAfter, Written, Row
  <2>10. row.job = tx.old /\ after.job = tx.new /\ tx.kind = "claim"
    BY <1>2 DEF ClaimTx, RowFits, RowAfter
  <2>11. after.payload <=> row.payload
    BY DEF ClaimTx, RowAfter, Written
  <2>12. after.op.fence = new.lease.fence /\ after.op # NoOp
    BY <1>2 DEF ClaimTx, RowFits, RowAfter, NoOp
  <2>13. Moves(tx.kind, row, after)
    BY <2>8, <2>10, <2>11, <2>12, <2>3, <2>1, <2>2, <2>5, <2>9 DEF Moves, RowOK
  <2>14. Succeeds(row.job, tx.new)
    BY <2>3, <2>10 DEF Succeeds, ClaimTx, Follows, NoJob
  <2>15. Hands(tx, row)
    BY <2>10, <2>3, <2>1, <2>2, <2>5, <2>9 DEF Hands, ClaimTx
  <2> QED
    BY <2>8, <2>13, <2>14, <2>15 DEF Outcome
<1>3. Identity(tx)
  BY DEF Identity, NoJob, ClaimTx, RecordIds, NoLease, Follows
<1> QED
  BY <1>1, <1>2, <1>3 DEF GoodTx, Preserving

\* A renewal keeps the token and the fence.
LEMMA RenewGood ==
  ASSUME NEW c \in Claim, NEW new, NEW id \in Nat, c.rec.state = "leased", new.state = "leased",
         new.lease.token = c.rec.lease.token,
         new.lease.fence = c.rec.lease.fence, Follows(c.rec, new)
  PROVE  GoodTx(RenewTx(c, new, id))
<1> DEFINE tx == RenewTx(c, new, id)
<1>0. new \in Record
  BY DEF Follows
<1>1. tx \in Tx
  BY <1>0 DEF RenewTx, Tx, TxKinds, Marks, Slots, Checks, Writes, Operation, OpKinds, Plan, Record, Lease, Claim
<1>2. ASSUME NEW row \in Row, RowOK(row), RowFits(row, tx)
      PROVE  Outcome(tx, row)
  <2> DEFINE after == RowAfter(row, tx)
  <2>1. row.job.state = "leased" /\ row.due = {} /\ ~row.fair /\ row.lease /\ ~row.dlq
    BY <1>2 DEF RenewTx, RowFits, RowOK, Holds, Row
  <2>2. row.job = c.rec /\ row.job.lease.token # NoId
    BY <1>2 DEF RenewTx, RowFits, RowOK, Holds, Row
  <2>3. after.job = new /\ after.op = Live(id, new.lease.fence)
    BY DEF RenewTx, RowAfter, Written
  <2>4. after.due = {}
    BY <2>1 DEF RenewTx, RowAfter, Written
  <2>5. ~after.fair /\ after.lease /\ ~after.dlq
    BY <2>1 DEF RenewTx, RowAfter, Written
  <2>6. RowOK(after)
    BY <2>1, <2>2, <2>3, <2>4, <2>5, LeasedRow
  <2>7. after.canc <=> row.canc
    BY DEF RenewTx, RowAfter, Written, Row
  <2>8. row.job = tx.old /\ after.job = tx.new /\ tx.kind = "renew"
    BY <1>2 DEF RenewTx, RowFits, RowAfter
  <2>9. after.payload <=> row.payload
    BY DEF RenewTx, RowAfter, Written
  <2>10. after.op.fence = new.lease.fence /\ after.op # NoOp
    BY <1>2 DEF RenewTx, RowFits, RowAfter, NoOp
  <2>11. after.job.state = row.job.state /\ after.job.lease.token = row.job.lease.token /\ after.op.fence = row.op.fence
    BY <1>2, <2>1, <2>2, <2>3 DEF RowOK
  <2>12. Moves(tx.kind, row, after)
    BY <2>6, <2>8, <2>9, <2>10, <2>11, <2>1, <2>2, <2>7 DEF Moves, RowOK
  <2>13. Succeeds(row.job, tx.new)
    BY <2>1, <2>2, <2>8 DEF Succeeds, RenewTx, Follows, NoJob
  <2>14. Hands(tx, row)
    BY <2>8, <2>11, <2>1, <2>2, <2>7 DEF Hands, RenewTx
  <2> QED
    BY <2>6, <2>12, <2>13, <2>14 DEF Outcome
<1>3. Identity(tx)
  <2>1. new # c.rec
    BY DEF Follows, Claim, Record
  <2> QED
    BY <2>1 DEF Identity, NoJob, RenewTx, RecordIds, NoLease, Follows
<1> QED
  BY <1>1, <1>2, <1>3 DEF GoodTx, Preserving

\* A continuation or a retry.
LEMMA ScheduleGood ==
  ASSUME NEW c \in Claim, NEW new, NEW id \in Nat, NEW w \in Plan,
         new.state = "scheduled", Settles(c.rec, new)
  PROVE  GoodTx(ScheduleTx(c, new, id, w))
<1> DEFINE tx == ScheduleTx(c, new, id, w)
<1>0. new \in Record
  BY DEF Settles, Follows
<1>1. tx \in Tx
  BY <1>0 DEF ScheduleTx, Tx, TxKinds, Marks, Slots, Checks, Writes, Operation, OpKinds, Plan, Record, Lease, Claim
<1>2. ASSUME NEW row \in Row, RowOK(row), RowFits(row, tx)
      PROVE  Outcome(tx, row)
  <2> DEFINE after == RowAfter(row, tx)
  <2>1. row.job.state = "leased" /\ row.due = {} /\ ~row.canc /\ ~row.dlq
    BY <1>2 DEF ScheduleTx, RowFits, RowOK, Holds, Row
  <2>2. after.job = new /\ after.op = Live(id, c.op.fence)
    BY DEF ScheduleTx, RowAfter, Written
  <2>3. after.due = {new.sched}
    BY <2>1 DEF ScheduleTx, RowAfter, Written
  <2>4. after.fair /\ ~after.lease
    BY DEF ScheduleTx, RowAfter, Written
  <2>5. ~after.canc /\ ~after.dlq
    BY <2>1 DEF ScheduleTx, RowAfter, Written
  <2>6. RowOK(after)
    BY <2>2, <2>3, <2>4, <2>5, ScheduledRow
  <2>7. row.job = tx.old /\ after.job = tx.new /\ tx.kind = "settle"
    BY <1>2 DEF ScheduleTx, RowFits, RowAfter
  <2>8. after.payload <=> row.payload
    BY DEF ScheduleTx, RowAfter, Written
  <2>9. after.op.fence = row.op.fence /\ (after.op = NoOp => row.op = NoOp)
    BY <1>2 DEF ScheduleTx, RowFits, RowAfter, NoOp
  <2>10. after.job.state = "scheduled"
    BY <2>2
  <2>11. Moves(tx.kind, row, after)
    BY <2>6, <2>7, <2>8, <2>9, <2>10, <2>1, <2>5 DEF Moves, RowOK
  <2>12. Succeeds(row.job, tx.new)
    BY <2>1, <2>7 DEF Succeeds, ScheduleTx, Settles, Follows, NoJob
  <2>13. Hands(tx, row)
    BY <2>7, <2>10, <2>1, <2>5 DEF Hands, ScheduleTx
  <2> QED
    BY <2>6, <2>11, <2>12, <2>13 DEF Outcome
<1>3. Identity(tx)
  BY DEF Identity, ScheduleTx, RecordIds, NoLease, Settles, Follows
<1> QED
  BY <1>1, <1>2, <1>3 DEF GoodTx, Preserving

\* A dead letter or a cancellation by the worker.
LEMMA TerminalGood ==
  ASSUME NEW c \in Claim, NEW new, NEW id \in Nat, NEW acknowledged \in BOOLEAN,
         NEW w \in Plan, new.state \in {"dead", "cancelled"},
         acknowledged => new.state = "cancelled", Settles(c.rec, new)
  PROVE  GoodTx(TerminalTx(c, new, id, acknowledged, w))
<1> DEFINE tx == TerminalTx(c, new, id, acknowledged, w)
<1>0. new \in Record
  BY DEF Settles, Follows
<1>1. tx \in Tx
  BY <1>0 DEF TerminalTx, Tx, TxKinds, Marks, Slots, Checks, Writes, Operation, OpKinds, Plan, Record, Lease, Claim
<1>2. ASSUME NEW row \in Row, RowOK(row), RowFits(row, tx)
      PROVE  Outcome(tx, row)
  <2> DEFINE after == RowAfter(row, tx)
  <2>1. row.job.state = "leased" /\ row.due = {} /\ ~row.dlq
    BY <1>2 DEF TerminalTx, RowFits, RowOK, Holds, Row
  <2>2. ~acknowledged => ~row.canc
    BY <1>2 DEF TerminalTx, RowFits, Holds
  <2>3. after.job = new /\ after.op = Live(id, c.op.fence)
    BY DEF TerminalTx, RowAfter, Written
  <2>4. after.due = {}
    BY <2>1 DEF TerminalTx, RowAfter, Written
  <2>5. ~after.fair /\ ~after.lease
    BY DEF TerminalTx, RowAfter, Written
  <2>6. ~after.canc
    BY <2>2 DEF TerminalTx, RowAfter, Written
  <2>7. after.dlq <=> new.state = "dead"
    BY <2>1 DEF TerminalTx, RowAfter, Written
  <2>8. RowOK(after)
    BY <2>3, <2>4, <2>5, <2>6, <2>7, InactiveRow
  <2>9. row.job = tx.old /\ after.job = tx.new /\ tx.kind = "settle"
    BY <1>2 DEF TerminalTx, RowFits, RowAfter
  <2>10. after.payload <=> row.payload
    BY DEF TerminalTx, RowAfter, Written
  <2>11. after.op.fence = row.op.fence /\ (after.op = NoOp => row.op = NoOp)
    BY <1>2 DEF TerminalTx, RowFits, RowAfter, NoOp
  <2>12. after.job.state = new.state
    BY <2>3
  <2>13. Moves(tx.kind, row, after)
    BY <2>8, <2>9, <2>10, <2>11, <2>12, <2>1, <2>2, <2>6 DEF Moves, RowOK
  <2>14. Succeeds(row.job, tx.new)
    BY <2>1, <2>9 DEF Succeeds, TerminalTx, Settles, Follows, NoJob
  <2>15. Hands(tx, row)
    BY <2>9, <2>12, <2>1, <2>2, <2>6 DEF Hands, TerminalTx
  <2> QED
    BY <2>8, <2>13, <2>14, <2>15 DEF Outcome
<1>3. Identity(tx)
  BY DEF Identity, TerminalTx, RecordIds, NoLease, Settles, Follows
<1> QED
  BY <1>1, <1>2, <1>3 DEF GoodTx, Preserving

\* A completion.
LEMMA CompleteGood ==
  ASSUME NEW c \in Claim, c.rec.state = "leased", NEW w \in Plan
  PROVE  GoodTx(CompleteTx(c, w))
<1> DEFINE tx == CompleteTx(c, w)
<1>1. tx \in Tx
  <2>1. NoJob \in Record
    BY DEF NoJob, NoAttempts, NoLease, Record, JobStates, AttemptHistory, Lease
  <2> QED
    BY <2>1 DEF CompleteTx, Claim, Tx, TxKinds, Marks, Slots, Checks, Writes, Operation, OpKinds, Plan, Record, Lease
<1>2. ASSUME NEW row \in Row, RowOK(row), RowFits(row, tx)
      PROVE  Outcome(tx, row)
  <2> DEFINE after == RowAfter(row, tx)
  <2>1. row.job.state = "leased" /\ row.due = {} /\ ~row.canc /\ ~row.dlq
    BY <1>2 DEF CompleteTx, RowFits, RowOK, Holds, Row
  <2>2. after.job = NoJob /\ after.op = Receipt(c.op.id, c.op.fence)
    BY DEF CompleteTx, RowAfter, Written
  <2>3. after.due = {}
    BY <2>1 DEF CompleteTx, RowAfter, Written
  <2>4. ~after.payload /\ ~after.fair /\ ~after.lease
    BY DEF CompleteTx, RowAfter, Written
  <2>5. ~after.canc /\ ~after.dlq
    BY <2>1 DEF CompleteTx, RowAfter, Written
  <2>6. RowOK(after)
    BY <2>2, <2>3, <2>4, <2>5, AbsentRow
  <2>7. row.job = tx.old /\ after.job = tx.new /\ tx.kind = "settle"
    BY <1>2 DEF CompleteTx, RowFits, RowAfter
  <2>8. after.payload => row.payload
    BY DEF CompleteTx, RowAfter, Written
  <2>9. after.op.fence = row.op.fence /\ (after.op = NoOp => row.op = NoOp)
    BY <1>2 DEF CompleteTx, RowFits, RowAfter, NoOp
  <2>10. after.job.state = "absent"
    BY <2>2 DEF NoJob
  <2>11. Moves(tx.kind, row, after)
    BY <2>6, <2>7, <2>8, <2>9, <2>10, <2>1, <2>5 DEF Moves, RowOK
  <2>12. Succeeds(row.job, tx.new)
    BY <2>7 DEF Succeeds, CompleteTx
  <2>13. Hands(tx, row)
    BY <2>7, <2>10, <2>1, <2>5 DEF Hands, CompleteTx
  <2> QED
    BY <2>6, <2>11, <2>12, <2>13 DEF Outcome
<1>3. Identity(tx)
  BY DEF Identity, CompleteTx, RecordIds, NoLease, NoJob
<1> QED
  BY <1>1, <1>2, <1>3 DEF GoodTx, Preserving

\* A cancellation request by the claim holder.
LEMMA RequestGood ==
  ASSUME NEW c \in Claim, NEW canc \in BOOLEAN
  PROVE  GoodTx(RequestTx(c, canc))
<1> DEFINE tx == RequestTx(c, canc)
<1>1. tx \in Tx
  BY DEF RequestTx, Tx, TxKinds, Marks, Slots, Checks, Writes, Operation, OpKinds, Plan, Record, Lease, Claim
<1>2. ASSUME NEW row \in Row, RowOK(row), RowFits(row, tx)
      PROVE  Outcome(tx, row)
  <2> DEFINE after == RowAfter(row, tx)
  <2>1. row.job.state = "leased" /\ row.due = {} /\ ~row.fair /\ row.lease /\ ~row.dlq
    BY <1>2 DEF RequestTx, RowFits, RowOK, Holds, Row
  <2>2. /\ row.op.kind = "live" /\ row.op.fence = row.job.lease.fence
        /\ row.job.lease.token # NoId
    BY <1>2 DEF RequestTx, RowFits, RowOK, Holds, Row
  <2>3. after.job = row.job /\ after.op = row.op
    BY <1>2 DEF RequestTx, RowAfter, Written, RowFits
  <2>4. after.due = {}
    BY <2>1 DEF RequestTx, RowAfter, Written
  <2>5. ~after.fair /\ after.lease /\ ~after.dlq
    BY <2>1 DEF RequestTx, RowAfter, Written
  <2>6. RowOK(after)
    BY <2>1, <2>2, <2>3, <2>4, <2>5, LeasedRow
  <2>7. after.canc
    BY DEF RequestTx, RowAfter, Written, Row
  <2>8. row.job = tx.old /\ after.job = tx.new /\ tx.kind = "request"
    BY <1>2 DEF RequestTx, RowFits, RowAfter
  <2>9. after.payload <=> row.payload
    BY DEF RequestTx, RowAfter, Written
  <2>10. after.op.fence = row.op.fence /\ (after.op = NoOp => row.op = NoOp)
    BY <1>2 DEF RequestTx, RowFits, RowAfter, NoOp
  <2>11. after.job = row.job /\ after.op = row.op
    BY <2>3
  <2>12. Moves(tx.kind, row, after)
    BY <2>6, <2>8, <2>9, <2>10, <2>11, <2>1, <2>2, <2>7 DEF Moves, RowOK
  <2>13. Succeeds(row.job, tx.new)
    BY <2>8 DEF Succeeds, RequestTx
  <2>14. Hands(tx, row)
    BY <2>8, <2>11, <2>1, <2>2, <2>7 DEF Hands, RequestTx
  <2> QED
    BY <2>6, <2>12, <2>13, <2>14 DEF Outcome
<1>3. Identity(tx)
  BY DEF Identity, RequestTx, RecordIds, NoLease
<1> QED
  BY <1>1, <1>2, <1>3 DEF GoodTx, Preserving

\* A cancellation request by an administrator.
LEMMA SignalGood ==
  ASSUME NEW j \in Jobs, NEW r0 \in Row
  PROVE  GoodTx(SignalTx(j, r0))
<1> DEFINE tx == SignalTx(j, r0)
<1>1. tx \in Tx
  BY DEF SignalTx, Tx, TxKinds, Marks, Slots, Checks, Writes, Operation, OpKinds, Plan, Record, Lease, Row
<1>2. ASSUME NEW row \in Row, RowOK(row), RowFits(row, tx)
      PROVE  Outcome(tx, row)
  <2> DEFINE after == RowAfter(row, tx)
  <2>1. row.job.state = "leased" /\ row.due = {} /\ ~row.fair /\ row.lease /\ ~row.dlq
    BY <1>2 DEF SignalTx, RowFits, RowOK, Holds, Row
  <2>2. /\ row.op.kind = "live" /\ row.op.fence = row.job.lease.fence
        /\ row.job.lease.token # NoId
    BY <1>2 DEF SignalTx, RowFits, RowOK, Holds, Row
  <2>3. after.job = row.job /\ after.op = row.op
    BY <1>2 DEF SignalTx, RowAfter, Written, RowFits
  <2>4. after.due = {}
    BY <2>1 DEF SignalTx, RowAfter, Written
  <2>5. ~after.fair /\ after.lease /\ ~after.dlq
    BY <2>1 DEF SignalTx, RowAfter, Written
  <2>6. RowOK(after)
    BY <2>1, <2>2, <2>3, <2>4, <2>5, LeasedRow
  <2>7. after.canc
    BY DEF SignalTx, RowAfter, Written, Row
  <2>8. row.job = tx.old /\ after.job = tx.new /\ tx.kind = "admin"
    BY <1>2 DEF SignalTx, RowFits, RowAfter
  <2>9. after.payload <=> row.payload
    BY DEF SignalTx, RowAfter, Written
  <2>10. after.op.fence = row.op.fence /\ (after.op = NoOp => row.op = NoOp)
    BY <1>2 DEF SignalTx, RowFits, RowAfter, NoOp
  <2>11. after.job = row.job /\ after.op = row.op
    BY <2>3
  <2>12. Moves(tx.kind, row, after)
    BY <2>6, <2>8, <2>9, <2>10, <2>11, <2>1, <2>2, <2>7 DEF Moves, RowOK
  <2>13. Succeeds(row.job, tx.new)
    BY <2>8 DEF Succeeds, SignalTx
  <2>14. Hands(tx, row)
    BY <2>8, <2>11, <2>1, <2>2, <2>7 DEF Hands, SignalTx
  <2> QED
    BY <2>6, <2>12, <2>13, <2>14 DEF Outcome
<1>3. Identity(tx)
  BY DEF Identity, SignalTx, RecordIds, NoLease
<1> QED
  BY <1>1, <1>2, <1>3 DEF GoodTx, Preserving

\* Cancellation, suspension or expiry of a scheduled job.
LEMMA InactivateGood ==
  ASSUME NEW j \in Jobs, NEW r0 \in Row, NEW new, NEW id \in Nat, NEW w \in Plan,
         new.state \in {"dead", "cancelled", "suspended"}, Settles(r0.job, new)
  PROVE  GoodTx(InactivateTx(j, r0, new, id, w))
<1> DEFINE tx == InactivateTx(j, r0, new, id, w)
<1>0. new \in Record
  BY DEF Settles, Follows
<1>1. tx \in Tx
  BY <1>0 DEF InactivateTx, Tx, TxKinds, Marks, Slots, Checks, Writes, Operation, OpKinds, Plan, Record, Lease, Row
<1>2. ASSUME NEW row \in Row, RowOK(row), RowFits(row, tx)
      PROVE  Outcome(tx, row)
  <2> DEFINE after == RowAfter(row, tx)
  <2>1. row.job.state = "scheduled" /\ ~row.lease /\ ~row.canc /\ ~row.dlq
    BY <1>2 DEF InactivateTx, RowFits, RowOK, Holds, Row
  <2>2. row.due = {r0.job.sched}
    BY <1>2, <2>1 DEF InactivateTx, RowFits, RowOK
  <2>3. after.job = new /\ after.op = Live(id, r0.op.fence)
    BY DEF InactivateTx, RowAfter, Written
  <2>4. after.due = {}
    BY <2>2 DEF InactivateTx, RowAfter, Written
  <2>5. ~after.fair /\ ~after.lease /\ ~after.canc
    BY <2>1 DEF InactivateTx, RowAfter, Written
  <2>6. after.dlq <=> new.state = "dead"
    BY <2>1 DEF InactivateTx, RowAfter, Written
  <2>7. RowOK(after)
    BY <2>3, <2>4, <2>5, <2>6, InactiveRow
  <2>8. row.job = tx.old /\ after.job = tx.new /\ tx.kind = "admin"
    BY <1>2 DEF InactivateTx, RowFits, RowAfter
  <2>9. after.payload <=> row.payload
    BY DEF InactivateTx, RowAfter, Written
  <2>10. after.op.fence = row.op.fence /\ (after.op = NoOp => row.op = NoOp)
    BY <1>2 DEF InactivateTx, RowFits, RowAfter, NoOp
  <2>11. after.job.state = new.state
    BY <2>3
  <2>12. Moves(tx.kind, row, after)
    BY <2>7, <2>8, <2>9, <2>10, <2>11, <2>1, <2>5 DEF Moves, RowOK
  <2>13. Succeeds(row.job, tx.new)
    BY <2>1, <2>8 DEF Succeeds, InactivateTx, Settles, Follows, NoJob
  <2>14. Hands(tx, row)
    BY <2>8, <2>11, <2>1, <2>5 DEF Hands, InactivateTx
  <2> QED
    BY <2>7, <2>12, <2>13, <2>14 DEF Outcome
<1>3. Identity(tx)
  BY DEF Identity, NoJob, InactivateTx, RecordIds, NoLease, Settles, Follows
<1> QED
  BY <1>1, <1>2, <1>3 DEF GoodTx, Preserving

\* Cancellation of a suspended job.
LEMMA CancelSuspendedGood ==
  ASSUME NEW j \in Jobs, NEW r0 \in Row, NEW id \in Nat, r0.job.state = "suspended"
  PROVE  GoodTx(CancelSuspendedTx(j, r0, id))
<1> DEFINE tx == CancelSuspendedTx(j, r0, id)
<1>1. tx \in Tx
  <2>1. Released(r0.job, "cancelled") \in Record
    BY ReleasedRecord DEF Row, JobStates
  <2> QED
    BY <2>1 DEF CancelSuspendedTx, Row, Tx, TxKinds, Marks, Slots, Checks, Writes, Operation, OpKinds, Plan, Record, Lease
<1>2. ASSUME NEW row \in Row, RowOK(row), RowFits(row, tx)
      PROVE  Outcome(tx, row)
  <2> DEFINE after == RowAfter(row, tx)
  <2>1. row.job.state = "suspended" /\ row.job = r0.job
    BY <1>2 DEF CancelSuspendedTx, RowFits
  <2>2. row.due = {} /\ ~row.fair /\ ~row.lease /\ ~row.canc /\ ~row.dlq
    BY <1>2, <2>1 DEF RowOK
  <2>3. after.op = Live(id, r0.op.fence)
    BY DEF CancelSuspendedTx, RowAfter, Written
  <2>4. after.job.state = "cancelled"
    BY ReleasedRecord DEF CancelSuspendedTx, RowAfter, Row, JobStates
  <2>5. after.due = {}
    BY <2>2 DEF CancelSuspendedTx, RowAfter, Written
  <2>6. ~after.fair /\ ~after.lease /\ ~after.canc /\ ~after.dlq
    BY <2>2 DEF CancelSuspendedTx, RowAfter, Written
  <2>7. RowOK(after)
    BY <2>3, <2>4, <2>5, <2>6, InactiveRow
  <2>8. Settles(r0.job, tx.new) /\ tx.new.state = "cancelled"
    BY ReleasedRecord DEF CancelSuspendedTx, Row, JobStates
  <2>9. row.job = tx.old /\ after.job = tx.new /\ tx.kind = "admin"
    BY <1>2 DEF CancelSuspendedTx, RowFits, RowAfter
  <2>10. after.payload <=> row.payload
    BY DEF CancelSuspendedTx, RowAfter, Written
  <2>11. after.op.fence = row.op.fence /\ (after.op = NoOp => row.op = NoOp)
    BY <1>2 DEF CancelSuspendedTx, RowFits, RowAfter, NoOp
  <2>12. Moves(tx.kind, row, after)
    BY <2>7, <2>9, <2>10, <2>11, <2>1, <2>2, <2>6, <2>8 DEF Moves, RowOK
  <2>13. row.job # NoJob /\ tx.new # NoJob
    BY <2>1, <2>8 DEF NoJob
  <2>14. tx.new.rev = row.job.rev + 1
    BY <2>9, <2>1, <2>8 DEF Settles, Follows
  <2>15. Succeeds(row.job, tx.new)
    BY <2>13, <2>14 DEF Succeeds
  <2>16. Hands(tx, row)
    BY <2>9, <2>1, <2>2, <2>6, <2>8 DEF Hands, CancelSuspendedTx
  <2> QED
    BY <2>7, <2>12, <2>15, <2>16 DEF Outcome
<1>3. Identity(tx)
  BY ReleasedRecord DEF Identity, NoJob, CancelSuspendedTx, RecordIds, NoLease, Settles, Follows, Row, JobStates
<1> QED
  BY <1>1, <1>2, <1>3 DEF GoodTx, Preserving

\* Resumption of a suspended job.
LEMMA ResumeGood ==
  ASSUME NEW j \in Jobs, NEW r0 \in Row, NEW id \in Nat, NEW w \in Plan, r0.job.state = "suspended"
  PROVE  GoodTx(ResumeTx(j, r0, id, w))
<1> DEFINE tx == ResumeTx(j, r0, id, w)
<1>1. tx \in Tx
  <2>1. Released(r0.job, "scheduled") \in Record
    BY ReleasedRecord DEF Row, JobStates
  <2> QED
    BY <2>1 DEF ResumeTx, Row, Tx, TxKinds, Marks, Slots, Checks, Writes, Operation, OpKinds, Plan, Record, Lease
<1>2. ASSUME NEW row \in Row, RowOK(row), RowFits(row, tx)
      PROVE  Outcome(tx, row)
  <2> DEFINE after == RowAfter(row, tx)
  <2>1. row.job.state = "suspended" /\ row.job = r0.job
    BY <1>2 DEF ResumeTx, RowFits
  <2>2. row.due = {} /\ ~row.lease /\ ~row.canc /\ ~row.dlq
    BY <1>2, <2>1 DEF RowOK
  <2>3. after.op = Live(id, r0.op.fence)
    BY DEF ResumeTx, RowAfter, Written
  <2>4. after.job.state = "scheduled" /\ after.job.sched = r0.job.sched
    BY ReleasedRecord DEF ResumeTx, RowAfter, Row, JobStates
  <2>5. after.due = {r0.job.sched}
    BY <2>2 DEF ResumeTx, RowAfter, Written
  <2>6. after.fair /\ ~after.lease /\ ~after.canc /\ ~after.dlq
    BY <2>2 DEF ResumeTx, RowAfter, Written
  <2>7. RowOK(after)
    BY <2>3, <2>4, <2>5, <2>6, ScheduledRow
  <2>8. Settles(r0.job, tx.new) /\ tx.new.state = "scheduled"
    BY ReleasedRecord DEF ResumeTx, Row, JobStates
  <2>9. row.job = tx.old /\ after.job = tx.new /\ tx.kind = "admin"
    BY <1>2 DEF ResumeTx, RowFits, RowAfter
  <2>10. after.payload <=> row.payload
    BY DEF ResumeTx, RowAfter, Written
  <2>11. after.op.fence = row.op.fence /\ (after.op = NoOp => row.op = NoOp)
    BY <1>2 DEF ResumeTx, RowFits, RowAfter, NoOp
  <2>12. Moves(tx.kind, row, after)
    BY <2>7, <2>9, <2>10, <2>11, <2>1, <2>2, <2>6, <2>8 DEF Moves, RowOK
  <2>13. row.job # NoJob /\ tx.new # NoJob
    BY <2>1, <2>8 DEF NoJob
  <2>14. tx.new.rev = row.job.rev + 1
    BY <2>9, <2>1, <2>8 DEF Settles, Follows
  <2>15. Succeeds(row.job, tx.new)
    BY <2>13, <2>14 DEF Succeeds
  <2>16. Hands(tx, row)
    BY <2>9, <2>1, <2>2, <2>6, <2>8 DEF Hands, ResumeTx
  <2> QED
    BY <2>7, <2>12, <2>15, <2>16 DEF Outcome
<1>3. Identity(tx)
  BY ReleasedRecord DEF Identity, NoJob, ResumeTx, RecordIds, NoLease, Settles, Follows, Row, JobStates
<1> QED
  BY <1>1, <1>2, <1>3 DEF GoodTx, Preserving

\* Repair of the routes of a scheduled job.
LEMMA RepairGood ==
  ASSUME NEW j \in Jobs, NEW r0 \in Row, NEW w \in Plan, r0.job.state = "scheduled", r0.op.kind = "live"
  PROVE  GoodTx(RepairTx(j, r0, w))
<1> DEFINE tx == RepairTx(j, r0, w)
<1>1. tx \in Tx
  <2>1. Released(r0.job, "scheduled") \in Record
    BY ReleasedRecord DEF Row, JobStates
  <2> QED
    BY <2>1 DEF RepairTx, Row, Tx, TxKinds, Marks, Slots, Checks, Writes, Operation, OpKinds, Plan, Record, Lease
<1>2. ASSUME NEW row \in Row, RowOK(row), RowFits(row, tx)
      PROVE  Outcome(tx, row)
  <2> DEFINE after == RowAfter(row, tx)
  <2>1. row.job.state = "scheduled" /\ row.job = r0.job
    BY <1>2 DEF RepairTx, RowFits
  <2>2. row.due = {r0.job.sched} /\ ~row.lease /\ ~row.canc /\ ~row.dlq
    BY <1>2, <2>1 DEF RowOK
  <2>3. after.op = r0.op
    BY DEF RepairTx, RowAfter, Written
  <2>4. after.job.state = "scheduled" /\ after.job.sched = r0.job.sched
    BY ReleasedRecord DEF RepairTx, RowAfter, Row, JobStates
  <2>5. after.due = {r0.job.sched}
    BY <2>2 DEF RepairTx, RowAfter, Written
  <2>6. after.fair /\ ~after.lease /\ ~after.canc /\ ~after.dlq
    BY <2>2 DEF RepairTx, RowAfter, Written
  <2>7. RowOK(after)
    BY <2>3, <2>4, <2>5, <2>6, ScheduledRow
  <2>8. Settles(r0.job, tx.new) /\ tx.new.state = "scheduled"
    BY ReleasedRecord DEF RepairTx, Row, JobStates
  <2>9. row.job = tx.old /\ after.job = tx.new /\ tx.kind = "admin"
    BY <1>2 DEF RepairTx, RowFits, RowAfter
  <2>10. after.payload <=> row.payload
    BY DEF RepairTx, RowAfter, Written
  <2>11. after.op.fence = row.op.fence /\ (after.op = NoOp => row.op = NoOp)
    BY <1>2 DEF RepairTx, RowFits, RowAfter, NoOp
  <2>12. Moves(tx.kind, row, after)
    BY <2>7, <2>9, <2>10, <2>11, <2>1, <2>2, <2>6, <2>8 DEF Moves, RowOK
  <2>13. row.job # NoJob /\ tx.new # NoJob
    BY <2>1, <2>8 DEF NoJob
  <2>14. tx.new.rev = row.job.rev + 1
    BY <2>9, <2>1, <2>8 DEF Settles, Follows
  <2>15. Succeeds(row.job, tx.new)
    BY <2>13, <2>14 DEF Succeeds
  <2>16. Hands(tx, row)
    BY <2>9, <2>1, <2>2, <2>6, <2>8 DEF Hands, RepairTx
  <2> QED
    BY <2>7, <2>12, <2>15, <2>16 DEF Outcome
<1>3. Identity(tx)
  BY ReleasedRecord DEF Identity, NoJob, RepairTx, RecordIds, NoLease, Settles, Follows, Row, JobStates
<1> QED
  BY <1>1, <1>2, <1>3 DEF GoodTx, Preserving

\* Redrive of a dead letter.
LEMMA RedriveGood ==
  ASSUME NEW j \in Jobs, NEW r0 \in Row, NEW new \in Record, NEW id \in Nat, NEW w \in Plan,
         r0.job.state = "dead", new.state = "scheduled", new.rev = r0.job.rev + 1,
         new.exec = r0.job.exec \/ new.exec \notin RecordIds(r0.job) \cup {NoId}, new.lease = NoLease
  PROVE  GoodTx(RedriveTx(j, r0, new, id, w))
<1> DEFINE tx == RedriveTx(j, r0, new, id, w)
<1>1. tx \in Tx
  BY DEF RedriveTx, Tx, TxKinds, Marks, Slots, Checks, Writes, Operation, OpKinds, Plan, Record, Lease, Row
<1>2. ASSUME NEW row \in Row, RowOK(row), RowFits(row, tx)
      PROVE  Outcome(tx, row)
  <2> DEFINE after == RowAfter(row, tx)
  <2>1. row.job.state = "dead"
    BY <1>2 DEF RedriveTx, RowFits
  <2>2. row.due = {} /\ ~row.lease /\ ~row.canc
    BY <1>2, <2>1 DEF RowOK
  <2>3. after.job = new /\ after.op = Live(id, r0.op.fence)
    BY DEF RedriveTx, RowAfter, Written
  <2>4. after.due = {new.sched}
    BY <2>2 DEF RedriveTx, RowAfter, Written
  <2>5. after.fair /\ ~after.lease /\ ~after.canc /\ ~after.dlq
    BY <2>2 DEF RedriveTx, RowAfter, Written
  <2>6. RowOK(after)
    BY <2>3, <2>4, <2>5, ScheduledRow
  <2>7. row.job = tx.old /\ after.job = tx.new /\ tx.kind = "admin"
    BY <1>2 DEF RedriveTx, RowFits, RowAfter
  <2>8. after.payload <=> row.payload
    BY DEF RedriveTx, RowAfter, Written
  <2>9. after.op.fence = row.op.fence /\ (after.op = NoOp => row.op = NoOp)
    BY <1>2 DEF RedriveTx, RowFits, RowAfter, NoOp
  <2>10. after.job.state = "scheduled"
    BY <2>3
  <2>11. Moves(tx.kind, row, after)
    BY <2>6, <2>7, <2>8, <2>9, <2>10, <2>1, <2>2, <2>5 DEF Moves, RowOK
  <2>12. Succeeds(row.job, tx.new)
    BY <2>1, <2>7 DEF Succeeds, RedriveTx, NoJob
  <2>13. Hands(tx, row)
    BY <2>7, <2>10, <2>1, <2>2, <2>5 DEF Hands, RedriveTx
  <2> QED
    BY <2>6, <2>11, <2>12, <2>13 DEF Outcome
<1>3. Identity(tx)
  BY DEF Identity, NoJob, RedriveTx, RecordIds, NoLease
<1> QED
  BY <1>1, <1>2, <1>3 DEF GoodTx, Preserving

\* Recovery of an expired lease.
LEMMA ExpireLeaseGood ==
  ASSUME NEW j \in Jobs, NEW r0 \in Row, NEW new, NEW id \in Nat, NEW w \in Plan,
         NEW keys \in SUBSET PermitKeys, new.state \in {"scheduled", "dead", "cancelled"},
         Settles(r0.job, new)
  PROVE  GoodTx(ExpireLeaseTx(j, r0, new, id, keys, w))
<1> DEFINE tx == ExpireLeaseTx(j, r0, new, id, keys, w)
<1>0. new \in Record
  BY DEF Settles, Follows
<1>1. tx \in Tx
  BY <1>0 DEF ExpireLeaseTx, Tx, TxKinds, Marks, Slots, Checks, Writes, Operation, OpKinds, Plan, Record, Lease, Row
<1>2. ASSUME NEW row \in Row, RowOK(row), RowFits(row, tx)
      PROVE  Outcome(tx, row)
  <2> DEFINE after == RowAfter(row, tx)
  <2>1. row.job.state = "leased" /\ row.due = {} /\ ~row.dlq
    BY <1>2 DEF ExpireLeaseTx, RowFits, RowOK, Holds, Row
  <2>2. new.state # "cancelled" => ~row.canc
    BY <1>2 DEF ExpireLeaseTx, RowFits, Holds
  <2>3. after.job = new /\ after.op = Live(id, r0.op.fence)
    BY DEF ExpireLeaseTx, RowAfter, Written
  <2>4. after.due = IF new.state = "scheduled" THEN {new.sched} ELSE {}
    BY <2>1 DEF ExpireLeaseTx, RowAfter, Written
  <2>5. ~after.lease /\ (after.fair <=> new.state = "scheduled")
    BY DEF ExpireLeaseTx, RowAfter, Written
  <2>6. ~after.canc
    BY <2>2 DEF ExpireLeaseTx, RowAfter, Written
  <2>7. after.dlq <=> new.state = "dead"
    BY <2>1 DEF ExpireLeaseTx, RowAfter, Written
  <2>8. RowOK(after)
    <3>1. CASE new.state = "scheduled"
      BY <2>3, <2>4, <2>5, <2>6, <2>7, <3>1, ScheduledRow
    <3>2. CASE new.state # "scheduled"
      BY <2>3, <2>4, <2>5, <2>6, <2>7, <3>2, InactiveRow
    <3> QED
      BY <3>1, <3>2
  <2>9. row.job = tx.old /\ after.job = tx.new /\ tx.kind = "admin"
    BY <1>2 DEF ExpireLeaseTx, RowFits, RowAfter
  <2>10. after.payload <=> row.payload
    BY DEF ExpireLeaseTx, RowAfter, Written
  <2>11. after.op.fence = row.op.fence /\ (after.op = NoOp => row.op = NoOp)
    BY <1>2 DEF ExpireLeaseTx, RowFits, RowAfter, NoOp
  <2>12. after.job.state = new.state
    BY <2>3
  <2>13. Moves(tx.kind, row, after)
    BY <2>8, <2>9, <2>10, <2>11, <2>12, <2>1, <2>2, <2>6 DEF Moves, RowOK
  <2>14. Succeeds(row.job, tx.new)
    BY <2>1, <2>9 DEF Succeeds, ExpireLeaseTx, Settles, Follows, NoJob
  <2>15. Hands(tx, row)
    BY <2>9, <2>12, <2>1, <2>2, <2>6 DEF Hands, ExpireLeaseTx
  <2> QED
    BY <2>8, <2>13, <2>14, <2>15 DEF Outcome
<1>3. Identity(tx)
  BY DEF Identity, NoJob, ExpireLeaseTx, RecordIds, NoLease, Settles, Follows
<1> QED
  BY <1>1, <1>2, <1>3 DEF GoodTx, Preserving

\* Quarantine of a job with a damaged payload.
LEMMA QuarantineGood ==
  ASSUME NEW j \in Jobs, NEW r0 \in Row, NEW id \in Nat, NEW t \in Int, NEW w \in Plan,
         NEW keys \in SUBSET PermitKeys
  PROVE  GoodTx(QuarantineTx(j, r0, id, t, keys, w))
<1> DEFINE tx == QuarantineTx(j, r0, id, t, keys, w)
<1>1. tx \in Tx
  <2>1. DeadRecord(r0.job, t) \in Record
    BY DeadRecordType DEF Row
  <2> QED
    BY <2>1 DEF QuarantineTx, Row, Tx, TxKinds, Marks, Slots, Checks, Writes, Operation, OpKinds, Plan, Record, Lease
<1>2. ASSUME NEW row \in Row, RowOK(row), RowFits(row, tx)
      PROVE  Outcome(tx, row)
  <2> DEFINE after == RowAfter(row, tx)
  <2>1. row.job.state = "leased" /\ row.due = {}
    BY <1>2 DEF QuarantineTx, RowFits, RowOK, Holds, Row
  <2>2. after.op = Live(id, r0.op.fence)
    BY DEF QuarantineTx, RowAfter, Written
  <2>3. after.job.state = "dead"
    BY DeadRecordType DEF QuarantineTx, RowAfter, Row
  <2>4. after.due = {}
    BY <2>1 DEF QuarantineTx, RowAfter, Written
  <2>5. ~after.fair /\ ~after.lease /\ ~after.canc /\ after.dlq
    BY DEF QuarantineTx, RowAfter, Written
  <2>6. RowOK(after)
    BY <2>2, <2>3, <2>4, <2>5, InactiveRow
  <2>7. Settles(r0.job, tx.new) /\ tx.new.state = "dead" /\ tx.old = r0.job
    BY DeadRecordType DEF QuarantineTx, Row
  <2>8. row.job = tx.old /\ after.job = tx.new /\ tx.kind = "quarantine"
    BY <1>2 DEF QuarantineTx, RowFits, RowAfter
  <2>9. after.payload <=> row.payload
    BY DEF QuarantineTx, RowAfter, Written
  <2>10. after.op.fence = row.op.fence /\ (after.op = NoOp => row.op = NoOp)
    BY <1>2 DEF QuarantineTx, RowFits, RowAfter, NoOp
  <2>11. Moves(tx.kind, row, after)
    BY <2>6, <2>8, <2>9, <2>10, <2>1, <2>3, <2>5, <2>7 DEF Moves, RowOK
  <2>12. row.job # NoJob /\ tx.new # NoJob
    BY <2>1, <2>7 DEF NoJob
  <2>13. tx.new.rev = row.job.rev + 1
    BY <2>8, <2>1, <2>7 DEF Settles, Follows
  <2>14. Succeeds(row.job, tx.new)
    BY <2>12, <2>13 DEF Succeeds
  <2>15. Hands(tx, row)
    BY <2>8, <2>1, <2>3, <2>5, <2>7 DEF Hands, QuarantineTx
  <2> QED
    BY <2>6, <2>11, <2>14, <2>15 DEF Outcome
<1>3. Identity(tx)
  BY DeadRecordType DEF Identity, NoJob, QuarantineTx, RecordIds, NoLease, Settles, Follows, Row
<1> QED
  BY <1>1, <1>2, <1>3 DEF GoodTx, Preserving

-----------------------------------------------------------------------------
(* Wake planning                                                           *)

\* An update of the watermark.
LEMMA WakeUpdateType ==
  ASSUME NEW old \in Int, NEW new \in Int
  PROVE  WakeUpdate(old, new) \in Plan /\ WakeLower(old, new) \in Plan
  BY DEF WakeUpdate, WakeLower, Plan

\* The earliest due entry is a time.
LEMMA EarliestType ==
  ASSUME NEW times \in SUBSET Int
  PROVE  Earliest(times) \in Int
<1>1. CASE \E t \in times : \A u \in times : t <= u
  <2>1. Earliest(times) \in times
    BY <1>1 DEF Earliest
  <2> QED
    BY <2>1
<1>2. CASE ~\E t \in times : \A u \in times : t <= u
  BY <1>2 DEF Earliest
<1> QED
  BY <1>1, <1>2

\* A reconciliation of the watermark with the due index.
LEMMA WakeReconcileType ==
  ASSUME NEW rs \in [Jobs -> Row], NEW w \in Int, NEW skip, NEW include \in SUBSET Int
  PROVE  WakeReconcile(rs, w, skip, include) \in Plan
<1>1. UNION {rs[j].due : j \in Jobs} \in SUBSET Int
  BY DEF Row
<1>2. NextDue(rs, skip, include) \in Int
  BY <1>1, EarliestType DEF NextDue
<1> QED
  BY <1>2, WakeUpdateType DEF WakeReconcile

\* Refreshing the watermark condition touches nothing else.
LEMMA RefreshedGood ==
  ASSUME NEW tx, GoodTx(tx), NEW w \in Int
  PROVE  /\ GoodTx(RefreshedTx(tx, w))
         /\ RefreshedTx(tx, w) = [tx EXCEPT !.wake = RefreshedTx(tx, w).wake]
<1> DEFINE next == IF tx.wake.new # NoTime THEN tx.wake.new ELSE w
           plan == IF next = NoTime THEN NoPlan ELSE WakeLower(w, next)
           re == [tx EXCEPT !.wake = plan]
<1>0. tx \in Tx
  BY DEF GoodTx
<1>1. next \in Int
  BY <1>0 DEF Tx
<1>2. plan \in Plan
  BY <1>1, WakeUpdateType DEF Plan
<1> HIDE DEF plan
<1>3. re \in Tx
  BY <1>0, <1>2 DEF Tx, Plan
<1>4. /\ re.kind = tx.kind /\ re.job = tx.job /\ re.old = tx.old /\ re.new = tx.new
      /\ re.marks = tx.marks /\ re.op = tx.op /\ re.permits = tx.permits /\ re.probe = tx.probe /\ re.wake = plan
  BY <1>0 DEF Tx
<1>5. RefreshedTx(tx, w) = re
  BY DEF RefreshedTx, plan
<1>6. re = [tx EXCEPT !.wake = re.wake]
  BY <1>4
<1> HIDE DEF re
<1>7. ASSUME NEW row \in Row
      PROVE  /\ RowFits(row, re) <=> RowFits(row, tx)
             /\ RowAfter(row, re) = RowAfter(row, tx)
             /\ Hands(tx, row) => Hands(re, row)
  BY <1>4 DEF RowFits, RowAfter, Hands
<1>8. Preserving(re)
  BY <1>4, <1>7 DEF GoodTx, Preserving, Outcome
<1>9. Identity(re)
  BY <1>4 DEF GoodTx, Identity
<1> QED
  BY <1>3, <1>5, <1>6, <1>8, <1>9 DEF GoodTx

=============================================================================
