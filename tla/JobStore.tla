------------------------------ MODULE JobStore ------------------------------
(***************************************************************************)
(* The durable key/value layout of bg-jobs and the checked transactions    *)
(* that its store commits (crates/bg-jobs/src/{keys,store,model}).         *)
(*                                                                         *)
(* Every key that names one job is collected in that job's Row: the job    *)
(* value, its payload chunks, its entries in the due, fair-ready, lease    *)
(* and dead-letter indexes, its cancellation marker and its operation      *)
(* marker.  Permit slots and the queue's wake watermark are kept apart     *)
(* because several jobs share them.  A key that is absent is FALSE, NoJob, *)
(* NoOp, NoId or NoTime.                                                   *)
(***************************************************************************)
EXTENDS Integers, FiniteSets

CONSTANTS
  Jobs,          \* job identities of one namespace and one queue
  PermitSets,    \* PermitSets[j]: the complete permit key sets job j may take
  Ids,           \* identities the entropy source hands out
  LeaseTimeout,  \* default_timeout of the registered handler
  MaxAge,        \* retry policy: maximum age
  MaxAttempts,   \* retry policy: maximum attempts
  BackoffCap,    \* retry policy: largest backoff of one retry
  MaxRevision,   \* u64::MAX of JobRecordV1::revision
  MaxFence       \* u64::MAX of Lease::fence

\* A complete set has one slot of every limit that applies to the job, so none
\* is part of another.
ASSUME PermitAssumption ==
  /\ PermitSets \in [Jobs -> SUBSET SUBSET (Nat \ {0})]
  /\ \A j \in Jobs : \A a, b \in PermitSets[j] : a \subseteq b => a = b
ASSUME IdAssumption == Ids \subseteq Nat \ {0}
ASSUME PolicyAssumption ==
  /\ LeaseTimeout \in Nat \ {0} /\ MaxAge \in Nat \ {0}
  /\ MaxAttempts \in Nat \ {0} /\ BackoffCap \in Nat
ASSUME BoundAssumption == MaxRevision \in Nat /\ MaxFence \in Nat

-----------------------------------------------------------------------------
(* Values                                                                  *)

NoTime == -1
NoId == 0

PermitKeys == UNION UNION {PermitSets[j] : j \in Jobs}

JobStates == {"absent", "scheduled", "leased", "dead", "cancelled", "suspended"}

Lease == [token : Nat, fence : Nat, until : Int]
NoLease == [token |-> NoId, fence |-> 0, until |-> 0]

AttemptHistory == [count : Nat, first : Int, last : Int]
NoAttempts == [count |-> 0, first |-> 0, last |-> 0]

\* The job value: exec is the execution id, sched, expires and retention are
\* the three deadlines, and only a leased job has a lease.
Record ==
  [state : JobStates, rev : Nat, exec : Nat, sched : Int, expires : Int,
   retention : Int, attempts : AttemptHistory, lease : Lease]

NoJob ==
  [state |-> "absent", rev |-> 0, exec |-> NoId, sched |-> 0, expires |-> NoTime,
   retention |-> 0, attempts |-> NoAttempts, lease |-> NoLease]

\* The value under the operation key: live authority, the watermark that keeps
\* only the fence of a reused identity, or the receipt of a completion.
OpKinds == {"none", "live", "watermark", "receipt"}
Operation == [kind : OpKinds, id : Nat, fence : Nat]

NoOp == [kind |-> "none", id |-> NoId, fence |-> 0]
Live(id, fence) == [kind |-> "live", id |-> id, fence |-> fence]
Watermark(fence) == [kind |-> "watermark", id |-> NoId, fence |-> fence]
Receipt(id, fence) == [kind |-> "receipt", id |-> id, fence |-> fence]

Row ==
  [job : Record, payload : BOOLEAN, due : SUBSET Int, fair : BOOLEAN,
   lease : BOOLEAN, canc : BOOLEAN, dlq : BOOLEAN, op : Operation]

EmptyRow ==
  [job |-> NoJob, payload |-> FALSE, due |-> {}, fair |-> FALSE,
   lease |-> FALSE, canc |-> FALSE, dlq |-> FALSE, op |-> NoOp]

-----------------------------------------------------------------------------
(* Transactions: a conjunction of checks and a set of mutations            *)

Checks == {"any", "present", "absent"}
Writes == {"keep", "put", "delete"}
Slots == [check : Checks, write : Writes]
Slot(check, write) == [check |-> check, write |-> write]

Keep == Slot("any", "keep")
Put == Slot("any", "put")
Delete == Slot("any", "delete")

\* What a transaction does to the single-job keys beside the job value.
Marks ==
  [payload : Writes, due : [at : Int, check : Checks, write : Writes],
   fair : Slots, lease : Slots, canc : Slots, dlq : Slots]

Due(at, slot) == [at |-> at, check |-> slot.check, write |-> slot.write]
NoDue == Due(NoTime, Keep)

TxKinds == {"enqueue", "seed", "claim", "renew", "settle", "request", "admin",
            "quarantine"}

\* old and new are the job values checked and written; probe names the key the
\* caller reads when the outcome of the commit is unknown.
Tx ==
  [kind : TxKinds, job : Jobs, old : Record, new : Record, marks : Marks,
   op : [check : BOOLEAN, old : Operation, new : Operation],
   permits : [keys : SUBSET PermitKeys, check : BOOLEAN, old : Nat, new : Nat],
   wake : [check : BOOLEAN, old : Int, new : Int],
   probe : {"job", "op", "canc", "identity"}]

Swap(old, new) == [check |-> TRUE, old |-> old, new |-> new]
Permits(keys, old, new) == [keys |-> keys, check |-> TRUE, old |-> old, new |-> new]
NoPermit == Permits({}, NoId, NoId)

Holds(check, present) ==
  /\ check = "present" => present
  /\ check = "absent" => ~present

Written(write, present) ==
  \/ write = "put"
  \/ write = "keep" /\ present

\* The checks a transaction makes on the keys of its job.
RowFits(row, tx) ==
  /\ row.job = tx.old
  /\ Holds(tx.marks.due.check, tx.marks.due.at \in row.due)
  /\ Holds(tx.marks.fair.check, row.fair)
  /\ Holds(tx.marks.lease.check, row.lease)
  /\ Holds(tx.marks.canc.check, row.canc)
  /\ Holds(tx.marks.dlq.check, row.dlq)
  /\ tx.op.check => row.op = tx.op.old

\* Its mutations of those keys.
RowAfter(row, tx) ==
  [job |-> tx.new,
   payload |-> Written(tx.marks.payload, row.payload),
   due |-> {t \in row.due \cup {tx.marks.due.at} :
              t = tx.marks.due.at => Written(tx.marks.due.write, t \in row.due)},
   fair |-> Written(tx.marks.fair.write, row.fair),
   lease |-> Written(tx.marks.lease.write, row.lease),
   canc |-> Written(tx.marks.canc.write, row.canc),
   dlq |-> Written(tx.marks.dlq.write, row.dlq),
   op |-> tx.op.new]

PermitsFit(permits, tx) ==
  tx.permits.check => \A k \in tx.permits.keys : permits[k] = tx.permits.old

PermitsAfter(permits, tx) ==
  [k \in PermitKeys |->
     IF k \in tx.permits.keys THEN tx.permits.new ELSE permits[k]]

WakeFits(wake, tx) == tx.wake.check => wake = tx.wake.old

WakeAfter(wake, tx) == IF tx.wake.check THEN tx.wake.new ELSE wake

=============================================================================
