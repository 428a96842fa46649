------------------------------ MODULE DriveLoop ------------------------------
(***************************************************************************)
(* Drives (crates/bg-jobs/src/drive): each scans the due and the lease     *)
(* index, loads the records, prepares the durable fairness owner, starts   *)
(* candidates one reservation at a time, polls them, and reports.  Several *)
(* drives share the store; a drive may crash between any two steps.  A     *)
(* job's lifecycle, the subject of JobLifecycle, is reduced to what a      *)
(* drive sees of it: its state, its schedule, its lease and its revision.  *)
(***************************************************************************)
EXTENDS FairLedger, SequencesExt

CONSTANTS
    Drives,
    Registered,      \* per drive, the jobs whose handler its build knows
    MaxClaims,       \* max_claims of a request
    MaxConcurrency,  \* max_concurrency of a request
    RequestBytes,    \* max_payload_bytes_in_flight of a request
    OperationBudgets,\* the max_store_operations a request may carry
    LeaseTicks,      \* length of a lease
    ExpiryOf,        \* the earlier of a job's expiry and retention deadline
    MaxTime,         \* bound on the clock: no retry falls due, and no lease that
                     \* is left behind ends, after it
    MaxRevision,     \* bound on a job's revisions: retries stop there
    MaxService,      \* bound on a scope's service: no new drive beyond it
    MaxDriveFaults,  \* bound on crashes, truncated scans and store errors
    NoOwner, NoWake

VARIABLES now, job, owner, drive, shutdown, driveFaults

driveVars == <<now, job, owner, drive, shutdown, driveFaults>>

\* constants.rs: the store operations a step reserves
CandidateOperations == 20
SaveOperations == 5

Idle ==
    [pc |-> "idle", due |-> {}, lease |-> {}, cut |-> "no", cands |-> << >>,
     ledger |-> EmptyLedger, loaded |-> NoOwner, ops |-> 0,
     found |-> {}, conflicted |-> {}, active |-> << >>, done |-> << >>, nextApply |-> 1, reserved |-> 0,
     claimed |-> 0, stop |-> FALSE, failed |-> FALSE, requested |-> FALSE,
     future |-> NoWake, hint |-> NoWake]

DriveInit ==
    /\ now = 0
    /\ job \in [Jobs -> [st : {"waiting"}, sched : {0}, until : {0}, rev : {0}]]
    /\ owner = NoOwner
    /\ drive = [d \in Drives |-> Idle]
    /\ shutdown = FALSE
    /\ driveFaults = 0

LeaseOver(r) == r.st = "leased" /\ r.until <= now

Step(d, from, rec) == drive[d].pc = from /\ drive' = [drive EXCEPT ![d] = rec]
Stable == UNCHANGED <<now, job, owner, shutdown, driveFaults>>
Fault == driveFaults < MaxDriveFaults /\ driveFaults' = driveFaults + 1

-----------------------------------------------------------------------------
(* Discovery *)

StartDrive(d) ==
    /\ drive[d].pc \in {"idle", "finished", "failed"}
    /\ ~shutdown
    /\ owner # NoOwner => \A s \in DOMAIN owner.scopes : owner.scopes[s].svc.cost <= MaxService
    /\ \E n \in OperationBudgets :
         drive' = [drive EXCEPT ![d] = [Idle EXCEPT !.pc = "due", !.ops = n]]
    /\ Stable

\* One lane of the index.  A scan that runs out of items, bytes or operations
\* ("capacity") or of time ("deadline") keeps the prefix it read and says so.
ScanLane(d, from, to, field, routes) ==
    \/ /\ Step(d, from, [drive[d] EXCEPT !.pc = to, ![field] = routes, !.ops = @ - 1])
       /\ Stable
    \/ /\ drive[d].pc = from /\ Fault
       /\ \E kept \in SUBSET routes \ {routes}, why \in {"capacity", "deadline"} :
            /\ \A a \in kept, b \in routes \ kept : a.at < b.at \/ (a.at = b.at /\ a.job < b.job)
            /\ Step(d, from, [drive[d] EXCEPT !.pc = to, ![field] = kept, !.ops = @ - 1,
                                              !.cut = IF @ = "no" THEN why ELSE @])
       /\ UNCHANGED <<now, job, owner, shutdown>>

ScanDue(d) ==
    ScanLane(d, "due", "lease", "due",
             {[job |-> j, at |-> job[j].sched] : j \in {i \in Jobs : job[i].st = "waiting"}})
ScanLease(d) ==
    ScanLane(d, "lease", "records", "lease",
             {[job |-> j, at |-> job[j].until] : j \in {i \in Jobs : job[i].st = "leased"}})

\* A due route is kept when the record still has that schedule, whatever its
\* state; a lease route when the record is leased.  The due route wins.
DueMatch(d) == {r \in drive[d].due : job[r.job].st # "gone" /\ job[r.job].sched = r.at}
LeaseMatch(d) == {r \in drive[d].lease : job[r.job].st = "leased"}
CandidateOf(d, j) ==
    LET byDue == \E r \in DueMatch(d) : r.job = j IN
    [byDue |-> byDue, rec |-> job[j], at |-> IF byDue THEN job[j].sched ELSE job[j].until]

LoadRecords(d) ==
    LET found == {r.job : r \in DueMatch(d) \cup LeaseMatch(d)} IN
    /\ Step(d, "records", [drive[d] EXCEPT !.pc = "owner", !.ops = @ - 1, !.found = found,
                             !.due = {}, !.lease = {},
                             !.cands = [j \in found |-> CandidateOf(d, j)]])
    /\ Stable

-----------------------------------------------------------------------------
(* Preparing the owner *)

Earliest(times) == IF times = {} THEN NoWake ELSE Min(times)
CandidateTimes(v) == {v.cands[j].at : j \in DOMAIN v.cands}

\* ordered_candidates: by ordering key, leases before waiting work, then by
\* time and identity.
SortKey(C, j) == <<KeyOf[j], IF C[j].byDue THEN 1 ELSE 0, C[j].at, j, 0, 0>>
OrderedCandidates(C) ==
    SetToSortSeq(DOMAIN C, LAMBDA i, j : Precedes(SortKey(C, i), SortKey(C, j)))

EnsureDiscovered(L, C) ==
    FoldSeq(LAMBDA j, M : EnsureCandidate(M, j, C[j].at, DiscoveredPosition(M, j)),
            L, OrderedCandidates(C))

\* A complete discovery removes what the ledger still holds and it did not
\* find; an incomplete one proves nothing.
RemoveUndiscovered(d, L, found) ==
    FoldSet(LAMBDA j, M : RemoveCandidate(M, j), L,
            {j \in DOMAIN L.cands : j \notin found /\ j \in Registered[d]})

\* apply_registration_weights: primaries whose registrations disagree are
\* left alone and their candidates are not driven.
ActiveScoped(d, L) ==
    {j \in DOMAIN L.cands : StateOf(L, j) # "absent" /\ j \in Registered[d] /\ ScopeOf[j] # Low}
WeightConflicts(d, L) ==
    {p \in {PrimaryOf(ScopeOf[j]) : j \in ActiveScoped(d, L)} :
       \E i, j \in ActiveScoped(d, L) : /\ PrimaryOf(ScopeOf[i]) = p /\ PrimaryOf(ScopeOf[j]) = p
                                        /\ WeightOf[i] # WeightOf[j]}
ApplyWeights(d, L) ==
    FoldSet(LAMBDA j, M : SetScopeWeight(SetScopeWeight(M, ScopeOf[j], WeightOf[j]),
                                         PrimaryOf(ScopeOf[j]), WeightOf[j]),
            L, {j \in ActiveScoped(d, L) : PrimaryOf(ScopeOf[j]) \notin WeightConflicts(d, L)})

PreparedOwner(d) ==
    LET v == drive[d]
        L == EnsureDiscovered(IF owner = NoOwner THEN EmptyLedger ELSE Loaded(owner), v.cands)
    IN IF v.cut = "no" THEN RemoveUndiscovered(d, L, v.found) ELSE L

PrepareOwner(d) ==
    LET v == drive[d]
    IN /\ \/ /\ v.ops >= 1
             /\ DOMAIN v.cands # {} => v.ops - 1 >= CandidateOperations
             /\ \E L \in {PreparedOwner(d)} : \E conflicts \in {WeightConflicts(d, L)} :
                  LET conflicted == {j \in DOMAIN v.cands : PrimaryOf(ScopeOf[j]) \in conflicts}
                  IN Step(d, "owner",
                       [v EXCEPT !.pc = "starting", !.ops = @ - 1, !.loaded = owner,
                                 !.ledger = ApplyWeights(d, L), !.stop = v.cut = "deadline",
                                 !.conflicted = conflicted, !.cands = Without(@, conflicted)])
          \/ /\ v.ops < 1 \/ (DOMAIN v.cands # {} /\ v.ops - 1 < CandidateOperations)
             /\ Step(d, "owner", [v EXCEPT !.pc = "finished", !.hint = Earliest(CandidateTimes(v))])
       /\ Stable

-----------------------------------------------------------------------------
(* The report *)

Finished(v) ==
    [v EXCEPT !.pc = IF v.failed THEN "failed" ELSE "finished",
              !.hint = IF v.failed \/ v.requested THEN NoWake
                       ELSE Earliest(CandidateTimes(v) \cup ({v.future} \ {NoWake}))]

\* apply(): results are taken strictly in start order, up to the first one
\* that is still running or just behind the first error.
Appliable(v) ==
    {k \in v.nextApply..Len(v.done) :
       /\ \A i \in v.nextApply..k : v.done[i].result # "pending"
       /\ \A i \in v.nextApply..(k - 1) : v.done[i].result # "error"}
\* Mutant: only a retry keeps the worker awake.
PendingAt_OnlyRetries(r) == IF r.result = "retried" THEN {r.at} ELSE {}
PendingAt(r) ==
    IF r.result \in {"completed", "dead", "error"} THEN {}
    ELSE IF r.result = "retried" THEN {r.at} ELSE {now}

ApplyResults(v) ==
    LET K == Appliable(v)
        R == {v.done[k] : k \in K}
    IN [v EXCEPT
          !.nextApply = @ + Cardinality(K),
          !.reserved = @ - Cardinality(K),
          !.claimed = @ + Cardinality({k \in K : v.done[k].result \in {"completed", "dead", "retried"}}),
          !.future = Earliest(({@} \ {NoWake}) \cup UNION {PendingAt(r) : r \in R}),
          !.stop = @ \/ \E r \in R : r.result \in {"capacity", "deadline", "error"},
          !.failed = @ \/ \E r \in R : r.result = "error"]

\* The rest of one turn of run(): finish, go on starting, or poll.
Turn(v, idle) ==
    IF DOMAIN v.active # {} THEN [v EXCEPT !.pc = "polling"]
    ELSE IF idle \/ v.stop \/ v.claimed >= MaxClaims THEN Finished(v)
    ELSE [v EXCEPT !.pc = "starting"]

-----------------------------------------------------------------------------
(* Starting candidates *)

MayStart(v) == ~v.stop /\ Cardinality(DOMAIN v.active) < MaxConcurrency
ClaimsLeft(v) == v.claimed + v.reserved < MaxClaims

StopStarting(d) ==
    LET v == drive[d] IN
    /\ \/ /\ MayStart(v) /\ shutdown
          /\ Step(d, "starting",
                  Turn(ApplyResults([v EXCEPT !.stop = TRUE, !.requested = TRUE]), FALSE))
       \/ /\ ~MayStart(v) \/ (~shutdown /\ ~ClaimsLeft(v))
          /\ Step(d, "starting", Turn(ApplyResults(v), FALSE))
    /\ Stable

\* reconcile_ready_candidates and the candidates a selection may take: only
\* expired leases while there are any.
Reconciled(v) ==
    FoldSet(LAMBDA j, M : Reconcile(M, j, v.cands[j].at), v.ledger,
            {j \in DOMAIN v.cands : v.cands[j].rec.st # "leased" \/ LeaseOver(v.cands[j].rec)})
Eligible(v) ==
    LET over == {j \in DOMAIN v.cands : LeaseOver(v.cands[j].rec)}
    IN IF over # {} THEN over ELSE DOMAIN v.cands
SelectionOf(v) == SelectNextDue(Reconciled(v), Eligible(v), now)

ActiveBytes(v) == FoldSet(LAMBDA j, n : n + BytesOf[j], 0, DOMAIN v.active)
PayloadFits(v, j) == DOMAIN v.active = {} \/ ActiveBytes(v) + BytesOf[j] <= RequestBytes

OperationsOf(v, j) ==
    SaveOperations + CandidateOperations + (IF LeaseOver(v.cands[j].rec) THEN 1 ELSE 0)
PermitOf(L, j) == [job |-> j, gen |-> L.cands[j].gen]

\* reserve_next stops before it saves: nothing is due, the selection is
\* refused, the payload does not fit beside what runs, or the operation
\* budget is spent.
GiveUpStart(d) ==
    LET v == drive[d]
        Gives(w) == Step(d, "starting", Turn(ApplyResults(w), TRUE))
    IN /\ v.pc = "starting" /\ MayStart(v) /\ ~shutdown /\ ClaimsLeft(v)
       /\ \E s \in {SelectionOf(v)} :
            \/ /\ s.status # "selected"
               /\ Gives([v EXCEPT !.ledger = s.ledger, !.stop = @ \/ s.status = "rejected"])
            \/ /\ s.status = "selected"
               /\ ~PayloadFits(v, s.job) \/ v.ops < OperationsOf(v, s.job)
               /\ Gives([v EXCEPT !.ledger = Release(s.ledger, PermitOf(s.ledger, s.job), "retry"),
                                  !.stop = @ \/ PayloadFits(v, s.job)])
       /\ Stable

Selected(v, s) ==
    /\ s.status = "selected"
    /\ PayloadFits(v, s.job)
    /\ v.ops >= OperationsOf(v, s.job)

\* start_candidate, after the owner was saved with this reservation.
Started(v, j, L) ==
    [v EXCEPT !.ops = @ - OperationsOf(v, j),
              !.ledger = L, !.loaded = L,
              !.cands = Without(@, {j}),
              !.active = With(@, j, [cand |-> v.cands[j], gen |-> L.cands[j].gen,
                                     order |-> Len(v.done) + 1, rev |-> 0, st |-> "queued"]),
              !.done = Append(@, [result |-> "pending", at |-> 0]),
              !.reserved = @ + 1]

\* The save is a compare-and-set on the owner the drive last read or wrote.
Reserve(d) ==
    LET v == drive[d]
        Lost(j, L) == [v EXCEPT !.ops = @ - OperationsOf(v, j), !.stop = TRUE,
                                !.ledger = Release(L, PermitOf(L, j), "retry")]
    IN /\ v.pc = "starting" /\ MayStart(v) /\ ~shutdown /\ ClaimsLeft(v)
       /\ \E s \in {SelectionOf(v)} : \E L \in {Compacted(s.ledger)} :
            /\ Selected(v, s)
            /\ \/ /\ owner = v.loaded
                  /\ owner' = L
                  /\ Step(d, "starting", Started(v, s.job, L))
                  /\ UNCHANGED driveFaults
               \/ /\ owner # v.loaded
                  /\ Step(d, "starting", Turn(ApplyResults(Lost(s.job, L)), TRUE))
                  /\ UNCHANGED <<owner, driveFaults>>
               \/ /\ Fault
                  /\ owner' \in {owner} \cup (IF owner = v.loaded THEN {L} ELSE {})
                  /\ Step(d, "starting", Turn([Lost(s.job, L) EXCEPT !.failed = TRUE], TRUE))
       /\ UNCHANGED <<now, job, shutdown>>

-----------------------------------------------------------------------------
(* Candidates in flight: they move only while the drive polls *)

\* settle_ledger_result
SettledLedger(L, permit, result, at) ==
    CASE result \in {"completed", "dead"}        -> Release(L, permit, "complete")
      [] result = "retried"                      -> DeferCandidate(Release(L, permit, "retry"), permit.job, at)
      [] result \in {"conflict", "unregistered"} -> RemoveCandidate(Release(L, permit, "conflict"), permit.job)
      [] OTHER                                   -> Release(L, permit, "retry")

Settle(d, j, result, at) ==
    LET v == drive[d]
        a == v.active[j]
    IN Step(d, "polling",
         [v EXCEPT !.pc = "starting",
                   !.active = Without(@, {j}),
                   !.done[a.order] = [result |-> result, at |-> at],
                   !.ledger = SettledLedger(@, [job |-> j, gen |-> a.gen], result, at),
                   !.requested = @ \/ shutdown,
                   !.stop = @ \/ shutdown \/ result = "error"])

Polled(d, j, st) == drive[d].pc = "polling" /\ j \in DOMAIN drive[d].active /\ drive[d].active[j].st = st
Gone(j) == [job EXCEPT ![j].st = "gone", ![j].rev = @ + 1]
WorldStable == UNCHANGED <<now, owner, shutdown>>

\* precheck_candidate: what it read says the job expired; expire_job decides
\* on what is stored now.
Expired(c, j) == ExpiryOf[j] <= now /\ (c.st = "waiting" \/ LeaseOver(c))
Precheck(d, j) ==
    LET c == drive[d].active[j].cand.rec IN
    /\ Polled(d, j, "queued")
    /\ \/ /\ Expired(c, j) /\ Expired(job[j], j)
          /\ job' = Gone(j)
          /\ Settle(d, j, "dead", 0)
       \/ /\ ~(Expired(c, j) /\ Expired(job[j], j))
          /\ \/ BytesOf[j] > RequestBytes /\ Settle(d, j, "capacity", 0)
             \/ BytesOf[j] <= RequestBytes /\ j \notin Registered[d] /\ Settle(d, j, "unregistered", 0)
             \/ /\ BytesOf[j] <= RequestBytes /\ j \in Registered[d]
                /\ drive' = [drive EXCEPT ![d].active[j].st = "claiming"]
          /\ UNCHANGED job
    /\ UNCHANGED driveFaults /\ WorldStable

\* Durable permits: one slot of the primary scope and the ordering permit.
\* An expired lease still owns both, and hands them to its new holder.
LeasedOthers(j) == {i \in Jobs \ {j} : job[i].st = "leased"}
PermitsFree(j) ==
    \/ job[j].st = "leased"
    \/ /\ ScopeOf[j] # Low =>
            Cardinality({i \in LeasedOthers(j) : PrimaryOf(ScopeOf[i]) = PrimaryOf(ScopeOf[j])})
              < MaxConcurrency
       /\ KeyOf[j] # NoKey => \A i \in LeasedOthers(j) : KeyOf[i] # KeyOf[j]
Claimable(j) == (job[j].st = "waiting" /\ job[j].sched <= now) \/ LeaseOver(job[j])

Claim(d, j) ==
    LET c == drive[d].active[j].cand.rec IN
    /\ Polled(d, j, "claiming")
    /\ \/ /\ job[j] = c /\ Claimable(j) /\ PermitsFree(j)
          /\ job' = [job EXCEPT ![j] = [@ EXCEPT !.st = "leased", !.until = now + LeaseTicks, !.rev = @ + 1]]
          /\ drive' = [drive EXCEPT ![d].active[j].st = "running", ![d].active[j].rev = c.rev + 1]
       \/ /\ ~(job[j] = c /\ Claimable(j) /\ PermitsFree(j))
          /\ Settle(d, j, "conflict", 0)
          /\ UNCHANGED job
    /\ UNCHANGED driveFaults /\ WorldStable

\* execute_claim: a handler whose lease ended is abandoned ("deadline"); one
\* that ended in time completes, is retried one tick later, or dies.
Execute(d, j) ==
    LET mine == job[j].st = "leased" /\ job[j].rev = drive[d].active[j].rev IN
    /\ Polled(d, j, "running")
    /\ \/ /\ ~mine \/ LeaseOver(job[j])
          /\ Settle(d, j, "deadline", 0)
          /\ UNCHANGED job
       \/ /\ mine /\ ~LeaseOver(job[j])
          /\ \/ \E result \in {"completed", "dead"} : job' = Gone(j) /\ Settle(d, j, result, 0)
             \/ /\ job[j].rev < MaxRevision /\ now < MaxTime
                /\ job' = [job EXCEPT ![j] = [@ EXCEPT !.st = "waiting", !.sched = now + 1, !.rev = @ + 1]]
                /\ Settle(d, j, "retried", now + 1)
    /\ UNCHANGED driveFaults /\ WorldStable

\* A store error, or the drive's own deadline, ends a candidate where it is.
LeasesEndInTime(S) == \A j \in S : job[j].st = "leased" => job[j].until <= MaxTime

Abandon(d, j) ==
    /\ drive[d].pc = "polling" /\ j \in DOMAIN drive[d].active
    /\ LeasesEndInTime({j})
    /\ \E result \in {"error", "deadline"} : Settle(d, j, result, 0)
    /\ Fault
    /\ UNCHANGED <<now, job, owner, shutdown>>

\* The shutdown grace is over: the rest is dropped where it is.
GraceOver(d) ==
    LET v == drive[d] IN
    /\ shutdown
    /\ Step(d, "polling",
         Finished([v EXCEPT !.active = << >>, !.requested = TRUE, !.future = NoWake,
                            !.reserved = @ - Cardinality(DOMAIN v.active)]))
    /\ Stable

-----------------------------------------------------------------------------
(* Environment *)

Crash(d) ==
    /\ LeasesEndInTime(DOMAIN drive[d].active)
    /\ drive[d].pc \notin {"idle", "finished", "failed"}
    /\ drive' = [drive EXCEPT ![d] = Idle]
    /\ Fault
    /\ UNCHANGED <<now, job, owner, shutdown>>

Tick ==
    /\ now < MaxTime
    /\ now' = now + 1
    /\ UNCHANGED <<job, owner, drive, shutdown, driveFaults>>

BeginShutdown ==
    /\ ~shutdown
    /\ shutdown' = TRUE
    /\ UNCHANGED <<now, job, owner, drive, driveFaults>>

DriveStep(d) ==
    \/ ScanDue(d) \/ ScanLease(d) \/ LoadRecords(d) \/ PrepareOwner(d)
    \/ StopStarting(d) \/ GiveUpStart(d) \/ Reserve(d)
    \/ \E j \in Jobs : Precheck(d, j) \/ Claim(d, j) \/ Execute(d, j)

DriveNext ==
    \/ \E d \in Drives :
         \/ StartDrive(d) \/ DriveStep(d) \/ GraceOver(d) \/ Crash(d)
         \/ \E j \in Jobs : Abandon(d, j)
    \/ Tick \/ BeginShutdown
=============================================================================
