------------------------------ MODULE FairLedger ------------------------------
(***************************************************************************)
(* The fairness ledger of bg-jobs (crates/bg-jobs/src/fairness): which due *)
(* candidate a drive may start next.  The ledger is a value: a record of   *)
(* scopes, candidates, ordering groups, the priority deficit and the       *)
(* service clock.  Every method of FairnessLedger and of its owner that    *)
(* changes it is an operator from ledger to ledger.  Fields that are only  *)
(* observed (served totals, acquisition counts, dwell, errors) are left    *)
(* out.                                                                    *)
(***************************************************************************)
EXTENDS Integers, FiniteSets, FiniteSetsExt, Sequences

CONSTANTS
    Jobs,            \* job identities; their order is the order of JobId
    ScopeOf,         \* << >> low volume, <<p>> a primary, <<p, s>> a secondary
    PriorityOf,      \* 0 critical, 1 default, 2 bulk
    CostOf,          \* cost_units of the registered handler
    KeyOf,           \* the ordering key, or NoKey
    WeightOf,        \* the weight the job's registration declares
    NoKey,
    ScopeConcurrency,  \* max_concurrency_per_scope
    ScopeRate,         \* max_rate_per_scope and candidate_window
    MaxCostUnits,      \* max_cost_units
    BytesOf,           \* payload bytes of a job
    LedgerBytes        \* max_payload_bytes of the ledger's budget

ASSUME JobsAreIds == Jobs \subseteq Nat /\ IsFiniteSet(Jobs)
ASSUME CostsArePositive == \A j \in Jobs : CostOf[j] \in Nat \ {0}

Low == << >>
PrimaryOf(s) == IF Len(s) = 2 THEN <<s[1]>> ELSE s
ScopesOf(j) == {ScopeOf[j], PrimaryOf(ScopeOf[j])}

-----------------------------------------------------------------------------
(* Service accounting *)

NoService == [cost |-> 0, origin |-> 0, base |-> 0]
Normalized(cost, weight) == (cost * 2) \div weight

PositionOf(v, weight, floor) ==
    Max({v.origin + Normalized(v.cost - v.base, weight), floor})
AlignTo(v, weight, floor) ==
    IF PositionOf(v, weight, 0) < floor
      THEN [v EXCEPT !.origin = floor, !.base = v.cost] ELSE v
Reweighted(v, weight) ==
    [v EXCEPT !.origin = PositionOf(v, weight, 0), !.base = v.cost]
CostDelta(v, weight, cost) ==
    Normalized(v.cost - v.base + cost, weight) - Normalized(v.cost - v.base, weight)
Undone(v, cost) ==
    LET c == Max({v.cost - cost, 0}) IN [v EXCEPT !.cost = c, !.base = Min({v.base, c})]

-----------------------------------------------------------------------------
(* Priority deficit: windows of 8, 4 and 1 *)

Quota == <<8, 4, 1>>
NoDeficit == [served |-> <<0, 0, 0>>, window |-> <<0, 0, 0>>, cycle |-> 0]
ErrorBound == MaxCostUnits * (ScopeRate + ScopeConcurrency)

PriorityAllows(d, p, cost, bulkReady) ==
    LET i == p + 1 IN
    /\ ~(bulkReady /\ d.cycle + cost >= ErrorBound /\ p # 2)
    /\ d.window[i] + cost <= Quota[i]
    /\ p # 2 => d.served[i] + cost <= Quota[i] * (d.served[3] + 1)

ChargePriority(d, p, cost) ==
    LET i == p + 1
        w == [d.window EXCEPT ![i] = @ + cost]
    IN [served |-> [d.served EXCEPT ![i] = @ + cost],
        window |-> IF \A k \in 1..3 : w[k] >= Quota[k] THEN <<0, 0, 0>> ELSE w,
        cycle  |-> IF p = 2 THEN 0 ELSE d.cycle + cost]

-----------------------------------------------------------------------------
(* The ledger *)

EmptyLedger ==
    [scopes |-> << >>, cands |-> << >>, orders |-> << >>,
     deficit |-> NoDeficit, clock |-> 0]

FreshScope ==
    [ready |-> 0, served |-> 0, weight |-> 1, svc |-> NoService, own |-> NoService,
     childClock |-> 0, inFlight |-> 0, permits |-> ScopeConcurrency, rate |-> ScopeRate]

Known(L, j) == j \in DOMAIN L.cands
StateOf(L, j) == L.cands[j].state
ReadyRoute(state) == state \in {"scheduled", "retry"}
Leased(L) == {j \in DOMAIN L.cands : StateOf(L, j) = "leased"}

\* f with x mapped to v, and f without the points of S
With(f, x, v) == [y \in DOMAIN f \cup {x} |-> IF y = x THEN v ELSE f[y]]
Without(f, S) == [y \in DOMAIN f \ S |-> f[y]]

Counted(L, j) == IF Known(L, j) /\ ReadyRoute(StateOf(L, j)) THEN 1 ELSE 0

\* The candidate takes a new record and the ready count of its scope follows.
PutCandidate(L, j, rec) ==
    LET s == ScopeOf[j]
        n == IF ReadyRoute(rec.state) THEN 1 ELSE 0
    IN [L EXCEPT !.cands = With(@, j, rec),
                 !.scopes[s].ready = Max({@ - Counted(L, j), 0}) + n]

DropCandidate(L, j) ==
    LET s == ScopeOf[j]
        M == [L EXCEPT !.cands = Without(@, {j}),
                       !.scopes[s].ready = Max({@ - Counted(L, j), 0})]
    IN IF KeyOf[j] # NoKey /\ \A i \in DOMAIN M.cands : KeyOf[i] # KeyOf[j]
         THEN [M EXCEPT !.orders = Without(@, {KeyOf[j]})] ELSE M

\* register_candidate: the scopes and the ordering group exist from now on.
RegisterCandidate(L, j, pos) ==
    [L EXCEPT
       !.scopes = [s \in DOMAIN @ \cup ScopesOf(j) |-> IF s \in DOMAIN @ THEN @[s] ELSE FreshScope],
       !.orders = IF KeyOf[j] = NoKey \/ KeyOf[j] \in DOMAIN @ THEN @
                  ELSE With(@, KeyOf[j], [head |-> pos, busy |-> FALSE])]

\* ensure_candidate: a leased projection is left alone, a waiting one keeps
\* its state, anything else becomes scheduled.
EnsureCandidate(L, j, at, pos) ==
    IF Known(L, j) /\ StateOf(L, j) = "leased" THEN L
    ELSE LET old == IF Known(L, j) THEN L.cands[j] ELSE [state |-> "absent", gen |-> 0]
             new == [state |-> IF old.state = "retry" THEN "retry" ELSE "scheduled",
                     at |-> at, pos |-> pos, gen |-> old.gen]
         IN PutCandidate(RegisterCandidate(L, j, pos), j, new)

\* Positions survive discovery; a candidate the ledger does not know joins
\* the tail of its ordering group.
TailOf(L, key) == Max({0} \cup {L.cands[i].pos : i \in {k \in DOMAIN L.cands : KeyOf[k] = key}})
DiscoveredPosition(L, j) ==
    IF KeyOf[j] = NoKey THEN 0
    ELSE IF Known(L, j) THEN L.cands[j].pos ELSE TailOf(L, KeyOf[j]) + 1

SetScopeWeight(L, s, weight) ==
    IF s \notin DOMAIN L.scopes \/ L.scopes[s].weight = weight THEN L
    ELSE [L EXCEPT !.scopes[s] =
            [@ EXCEPT !.svc = Reweighted(@, L.scopes[s].weight),
                      !.own = Reweighted(@, L.scopes[s].weight),
                      !.weight = weight]]

-----------------------------------------------------------------------------
(* Capacity *)

ReleasedScope(st, s, cost, undo, charged) ==
    [st EXCEPT !.inFlight = Max({@ - 1, 0}),
               !.permits  = Min({@ + 1, ScopeConcurrency}),
               !.rate     = Min({@ + 1, ScopeRate}),
               !.svc      = IF undo THEN Undone(@, cost) ELSE @,
               !.served   = IF undo /\ charged THEN Max({@ - 1, 0}) ELSE @,
               !.own      = IF undo /\ charged /\ Len(s) = 1 THEN Undone(@, cost) ELSE @]

ReleaseCapacity(L, j, undo) ==
    LET s == ScopeOf[j]
        p == PrimaryOf(s)
    IN [L EXCEPT
          !.scopes = [x \in DOMAIN @ |->
             IF x = s THEN ReleasedScope(@[x], x, CostOf[j], undo, TRUE)
             ELSE IF x = p THEN ReleasedScope(@[x], x, CostOf[j], undo, FALSE) ELSE @[x]],
          !.orders = IF KeyOf[j] \in DOMAIN @ THEN [@ EXCEPT ![KeyOf[j]].busy = FALSE] ELSE @]

\* A reconciled low-volume reservation is also given back its single service.
RestoreLowVolume(L, j) ==
    IF ScopeOf[j] # Low \/ Low \notin DOMAIN L.scopes THEN L
    ELSE [L EXCEPT !.scopes[Low].served = Max({@ - 1, 0}),
                   !.scopes[Low].svc = Undone(@, CostOf[j])]

\* apply_settlement: "complete" and "retry" keep the service charged,
\* "conflict" takes it back; only "complete" advances the ordering head.
Settled(L, j, release) ==
    LET M == ReleaseCapacity(L, j, release = "conflict")
        N == IF release = "complete" /\ KeyOf[j] \in DOMAIN M.orders
               THEN [M EXCEPT !.orders[KeyOf[j]].head = L.cands[j].pos + 1] ELSE M
    IN PutCandidate(N, j, [L.cands[j] EXCEPT
         !.state = IF release = "complete" THEN "absent" ELSE "retry"])

\* release(): an outdated permit is refused and the caller drops the error.
Release(L, permit, release) ==
    IF /\ Known(L, permit.job)
       /\ StateOf(L, permit.job) = "leased"
       /\ L.cands[permit.job].gen = permit.gen
      THEN Settled(L, permit.job, release) ELSE L

DeferCandidate(L, j, at) ==
    IF Known(L, j) THEN PutCandidate(L, j, [L.cands[j] EXCEPT !.state = "retry", !.at = at]) ELSE L

RemoveCandidate(L, j) ==
    IF ~Known(L, j) THEN L
    ELSE IF StateOf(L, j) = "leased" THEN RestoreLowVolume(Settled(L, j, "complete"), j)
    ELSE PutCandidate(L, j, [L.cands[j] EXCEPT !.state = "absent"])

\* Mutant: the slot of a stale reservation is not given back.
Reconcile_KeepsCapacity(L, j, at) ==
    IF ~Known(L, j) \/ StateOf(L, j) # "leased" THEN L
    ELSE PutCandidate(L, j, [L.cands[j] EXCEPT !.state = "retry", !.at = at, !.gen = 0])

\* reconcile_leased: the authoritative record is claimable, so the leased
\* projection is stale; its capacity comes back and its permit dies.
Reconcile(L, j, at) ==
    IF ~Known(L, j) \/ StateOf(L, j) # "leased" THEN L
    ELSE PutCandidate(RestoreLowVolume(ReleaseCapacity(L, j, FALSE), j), j,
                      [L.cands[j] EXCEPT !.state = "retry", !.at = at, !.gen = 0])

\* What a save drops before it encodes: terminal candidates, then scopes
\* nobody uses.
CompactedCandidates(L) ==
    FoldSet(LAMBDA j, M : DropCandidate(M, j), L,
            {j \in DOMAIN L.cands : StateOf(L, j) = "absent"})
Compacted(L) ==
    LET M == CompactedCandidates(L)
        used == UNION {ScopesOf(j) : j \in DOMAIN M.cands}
    IN [M EXCEPT !.scopes = Without(@, {s \in DOMAIN @ :
          @[s].inFlight = 0 /\ @[s].ready = 0 /\ s \notin used})]

\* Decoding recounts the ready routes.
Decoded(L) ==
    [L EXCEPT !.scopes = [s \in DOMAIN @ |-> [@[s] EXCEPT !.ready =
       Cardinality({j \in DOMAIN L.cands : ScopeOf[j] = s /\ Counted(L, j) = 1})]]]

\* Loading grants low volume its share beside what is in flight.
Loaded(L) ==
    LET M == Decoded(L) IN
    [M EXCEPT !.scopes = [s \in DOMAIN @ |->
       [@[s] EXCEPT !.served = IF s = Low THEN M.scopes[s].inFlight ELSE @]]]

-----------------------------------------------------------------------------
(* Selection *)

ScopeAdmits(L, s) ==
    /\ s \in DOMAIN L.scopes
    /\ L.scopes[s].inFlight < ScopeConcurrency
    /\ L.scopes[s].permits > 0
    /\ L.scopes[s].rate > 0
    /\ s = Low => L.scopes[s].served < 1

OrderAdmits(L, j) ==
    KeyOf[j] # NoKey =>
      /\ KeyOf[j] \in DOMAIN L.orders
      /\ ~L.orders[KeyOf[j]].busy
      /\ L.cands[j].pos = L.orders[KeyOf[j]].head

Valid(L, j) ==
    /\ BytesOf[j] <= LedgerBytes
    /\ \A s \in ScopesOf(j) : ScopeAdmits(L, s)
    /\ OrderAdmits(L, j)

\* The candidates of one selection pass: in the drive's set and waiting.
ReadyIn(L, eligible) == {j \in DOMAIN L.cands \cap eligible : ReadyRoute(StateOf(L, j))}
DueIn(L, eligible, now) == {j \in ReadyIn(L, eligible) : L.cands[j].at <= now}

PrimaryService(L, s) ==
    IF s = Low THEN 0 ELSE PositionOf(L.scopes[s].svc, L.scopes[s].weight, L.clock)
ChildService(L, j) ==
    LET s == ScopeOf[j]
        p == L.scopes[PrimaryOf(s)]
        c == L.scopes[s]
    IN IF s = Low THEN 0
       ELSE PositionOf(IF Len(s) = 2 THEN c.svc ELSE p.own, c.weight, p.childClock)
AdmissionService(L, j) ==
    LET p == L.scopes[PrimaryOf(ScopeOf[j])]
    IN PositionOf(p.svc, p.weight, L.clock) + CostDelta(p.svc, p.weight, CostOf[j])

\* The due candidates whose primaries take part in the normalized bound.
Contenders(L, eligible, now) ==
    {j \in DueIn(L, eligible, now) : Valid(L, j) /\ ScopeOf[j] # Low /\ CostOf[j] <= MaxCostUnits}
ContendingPrimaries(L, eligible, now) ==
    {PrimaryOf(ScopeOf[j]) : j \in Contenders(L, eligible, now)}
ChildMinimum(L, eligible, now, p) ==
    LET S == {j \in Contenders(L, eligible, now) : PrimaryOf(ScopeOf[j]) = p}
    IN IF S = {} THEN 0 ELSE Min({ChildService(L, j) : j \in S})

\* check_normalized_admission over the extrema of the other primaries.
AbsDiff(a, b) == IF a > b THEN a - b ELSE b - a
WithinSpread(L, eligible, now, j) ==
    ScopeOf[j] # Low =>
      \A p \in ContendingPrimaries(L, eligible, now) \ {PrimaryOf(ScopeOf[j])} :
        AbsDiff(AdmissionService(L, j), PrimaryService(L, p)) <= ErrorBound * 2

Score(L, eligible, now, j) ==
    LET p == PrimaryOf(ScopeOf[j]) IN
    << PriorityOf[j], PrimaryService(L, p),
       Cardinality({i \in ReadyIn(L, eligible) : PrimaryOf(ScopeOf[i]) = p}),
       Max({ChildService(L, j) - ChildMinimum(L, eligible, now, p), 0}),
       L.cands[j].at, j >>
Precedes(a, b) ==
    \E i \in 1..6 : a[i] < b[i] /\ \A k \in 1..(i - 1) : a[k] = b[k]

\* Due candidates that pass everything but, perhaps, the priority deficit.
Admissible(L, eligible, now) ==
    {j \in DueIn(L, eligible, now) :
       Valid(L, j) /\ CostOf[j] <= MaxCostUnits /\ WithinSpread(L, eligible, now, j)}
BulkReady(L, eligible, now) ==
    \E j \in Admissible(L, eligible, now) :
      PriorityOf[j] = 2 /\ PriorityAllows(L.deficit, 2, CostOf[j], TRUE)
Selectable(L, eligible, now) ==
    LET bulk == BulkReady(L, eligible, now) IN
    {j \in Admissible(L, eligible, now) : PriorityAllows(L.deficit, PriorityOf[j], CostOf[j], bulk)}

\* reset_exhausted_priority_window: every priority that waits has used up
\* its window.
WindowExhausted(L, eligible, now) ==
    LET A == Admissible(L, eligible, now) IN
    A # {} /\ \A j \in A : L.deficit.window[PriorityOf[j] + 1] >= Quota[PriorityOf[j] + 1]

BestOf(L, eligible, now, S) ==
    CHOOSE j \in S : \A i \in S \ {j} :
      Precedes(Score(L, eligible, now, j), Score(L, eligible, now, i))

\* advance_service_clocks, align_selection_service, acquire_scope
ChargedScope(st, s, cost, charged) ==
    [st EXCEPT !.permits = Max({@ - 1, 0}), !.rate = Max({@ - 1, 0}), !.inFlight = @ + 1,
               !.served = IF charged THEN @ + 1 ELSE @,
               !.svc.cost = @ + cost,
               !.own.cost = IF charged /\ Len(s) = 1 THEN @ + cost ELSE @]

Charge(L, j, eligible, now) ==
    LET s == ScopeOf[j]
        p == PrimaryOf(s)
        clock == IF s = Low THEN L.clock
                 ELSE Max({L.clock, Min({PrimaryService(L, q) :
                                           q \in ContendingPrimaries(L, eligible, now)})})
        child == IF s = Low THEN 0
                 ELSE Max({L.scopes[p].childClock, ChildMinimum(L, eligible, now, p)})
        floorOf(x) == IF x = p THEN clock ELSE child
        aligned(x) == IF s = Low THEN L.scopes[x]
                      ELSE [L.scopes[x] EXCEPT
                              !.svc = AlignTo(@, L.scopes[x].weight, floorOf(x)),
                              !.own = IF x = s /\ s = p
                                        THEN AlignTo(@, L.scopes[x].weight, child) ELSE @,
                              !.childClock = IF x = p THEN child ELSE @]
    IN [L EXCEPT
          !.clock = clock,
          !.scopes = [x \in DOMAIN @ |->
             IF x \in {s, p} THEN ChargedScope(aligned(x), x, CostOf[j], x = s) ELSE @[x]],
          !.orders = IF KeyOf[j] \in DOMAIN @ THEN [@ EXCEPT ![KeyOf[j]].busy = TRUE] ELSE @]

SettleSelection(L, j, eligible, now) ==
    LET M == [Charge(L, j, eligible, now) EXCEPT
                !.deficit = ChargePriority(@, PriorityOf[j], CostOf[j])]
    IN PutCandidate(M, j, [L.cands[j] EXCEPT !.state = "leased", !.gen = @ + 1])

ResetWindow(L) == [L EXCEPT !.deficit = NoDeficit]

\* select_next_due_in_scope: "idle" when nothing is due, "rejected" when due
\* work was refused.
SelectNextDue(L, eligible, now) ==
    LET M == IF Selectable(L, eligible, now) = {} /\ WindowExhausted(L, eligible, now)
               THEN ResetWindow(L) ELSE L
        S == Selectable(M, eligible, now)
        j == BestOf(M, eligible, now, S)
    IN IF S # {} THEN [status |-> "selected", job |-> j,
                       ledger |-> SettleSelection(M, j, eligible, now)]
       ELSE [status |-> IF DueIn(L, eligible, now) = {} THEN "idle" ELSE "rejected", ledger |-> M]
=============================================================================
