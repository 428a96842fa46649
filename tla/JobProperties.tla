---------------------------- MODULE JobProperties ----------------------------
(***************************************************************************)
(* The properties of the bg-jobs lifecycle engine.                         *)
(***************************************************************************)
EXTENDS JobLifecycle

\* The secondary keys of a job agree with its job value.
RowOK(row) ==
  /\ row.payload => row.job # NoJob
  /\ row.due = IF row.job.state = "scheduled" THEN {row.job.sched} ELSE {}
  /\ row.fair <=> row.job.state = "scheduled"
  /\ row.lease <=> row.job.state = "leased"
  /\ row.dlq <=> row.job.state = "dead"
  /\ row.canc => row.job.state = "leased"
  /\ row.job.state = "absent" => row.job = NoJob /\ row.op.kind \in {"none", "receipt"}
  /\ row.job.state = "scheduled" => row.op.kind # "receipt"
  /\ row.job.state \in {"leased", "dead", "cancelled", "suspended"} => row.op.kind = "live"
  /\ row.job.state = "leased" => row.op.fence = row.job.lease.fence /\ row.job.lease.token # NoId

\* Whatever interleaving of calls, lost acknowledgements, late applications and
\* crashes has happened, every job's due, fair-ready, lease, dead-letter,
\* cancellation and operation keys say what its job value says: a scheduled job
\* has exactly one due entry, only a leased job carries a cancellation marker
\* and its operation fence is the lease's.
RowsCoherent == \A j \in Jobs : RowOK(rows[j])

\* Permits are neither leaked nor shared: a held permit names the token of a
\* job that is leased now, and a leased job holds exactly one of its complete
\* permit sets (completion deletes permit keys without checking them).
PermitsOwned ==
  /\ \A k \in PermitKeys :
       permits[k] # NoId =>
         \E j \in Jobs : rows[j].job.state = "leased" /\ rows[j].job.lease.token = permits[k]
  /\ \A j \in Jobs :
       rows[j].job.state = "leased" =>
         {k \in PermitKeys : permits[k] = rows[j].job.lease.token} \in PermitSets[j]

\* The fence an external effect is guarded with never goes back, and a lease
\* under a new token opens an epoch above every earlier one, across retries,
\* reclaims, redrives and the reuse of a completed identity.
FenceMonotone ==
  [][\A j \in Jobs :
       /\ rows'[j].op.fence >= rows[j].op.fence
       /\ rows'[j].job.state = "leased" /\ rows'[j].job.lease.token # rows[j].job.lease.token
            => rows'[j].job.lease.fence > rows[j].op.fence]_vars

\* A worker that believes in its authority has it: while its claim is current
\* (no renewal failed, the lease has not run out) and it is not inside a call,
\* the durable job, operation and permits are exactly the claimed ones.
AuthorityExact ==
  \A p \in Procs :
    Holding(p) /\ CurrentLease(claim[p], now) =>
      LET c == claim[p]
      IN /\ rows[c.job].job = c.rec /\ rows[c.job].op = c.op
         /\ \A k \in c.keys : permits[k] = c.rec.lease.token

\* After an Unknown acknowledgement the probe never mistakes another's write
\* for the caller's own: when it finds the value that a claim, a renewal or a
\* completion was to write, that very transaction has been applied, so nobody
\* is handed a lease, or told of a completion, that is not its own.  (A retry or
\* a cancellation may be written alike by lease recovery, to the same end.)
ProbeTellsTruth ==
  \A p \in Procs :
    LET c == call[p]
    IN /\ c.phase = "probe"
       /\ c.tx.kind \in {"claim", "renew"} \/ c.tx.probe = "op"
       /\ Reached(c.tx)
       => c.est = "committed"

\* Cancellation takes precedence: under a durable request a lease stays with
\* its token until the job is cancelled, or dead-lettered when the payload
\* itself was damaged; it never ends in a completion, a retry, a new claim or an
\* exhaustion, whoever settles or recovers it.
CancellationPrecedence ==
  [][\A j \in Jobs :
       rows[j].canc =>
         \/ rows'[j].canc /\ rows'[j].job.lease.token = rows[j].job.lease.token
         \/ rows'[j].job.state = "cancelled"
         \/ rows'[j].job.state = "dead" /\ ~rows[j].payload]_vars

-----------------------------------------------------------------------------
(* The engine implements the contract.                                     *)

Contract == INSTANCE JobContract WITH
  status <- [j \in Jobs |-> rows[j].job.state],
  epoch <- [j \in Jobs |-> rows[j].op.fence],
  wanted <- [j \in Jobs |-> rows[j].canc]

\* Seen through its job value, operation fence and cancellation marker, each
\* job follows JobContract: every committed transaction is one contract step.
ImplementsContract == Contract!Spec

-----------------------------------------------------------------------------
(* Liveness                                                                *)

\* A claim that is refused, or a payload that cannot be read, is reported.
Refused(p) == call[p].phase \notin CommitPhases /\ FailCall(p)

\* The drive loop's scan for expired work.
Sweep(p) == \E j \in Jobs : ExpireJob(p, j)

\* Time passes; every read and commit is answered, be it by Unknown; a process
\* that commits again and again is at some time told the outcome; and the drive
\* loop keeps looking for expired work.
FairSpec ==
  /\ Spec
  /\ WF_vars(Tick)
  /\ \A p \in Procs :
       /\ WF_vars(Commit(p)) /\ WF_vars(ClaimCall(p) \/ Refused(p))
       /\ SF_vars(CommitKnown(p)) /\ SF_vars(Sweep(p))

\* No lease outlives its worker for ever: settled, reclaimed or recovered, a
\* leased job leaves that lease, also when the worker crashed or its calls are
\* answered Unknown.
LeasesEnd ==
  \A j \in Jobs : rows[j].job.state = "leased" ~> rows[j].job.state # "leased"

\* Every engine call returns: the commit protocol retries an Unknown outcome
\* once and refreshes the wake watermark once.
CallsReturn == \A p \in Procs : call[p] # Idle ~> call[p] = Idle

-----------------------------------------------------------------------------
(* What the documentation says and the code does not do                    *)

\* admin/cancellation.rs: cancel_job "Cancels a scheduled job", so the markers
\* it loads of a scheduled job can be read.
ScheduledIsCancellable ==
  \A j \in Jobs : rows[j].job.state = "scheduled" => ScheduledMarkers(j)

=============================================================================
