---------------------------- MODULE RequestCosts ----------------------------
(***************************************************************************)
(* metrics-facade, request costs: a collector per request, shared by the   *)
(* tasks that inherit it, found by identifier from outside, and closed by  *)
(* a snapshot that the response carries in headers.                        *)
(***************************************************************************)
EXTENDS Integers, FiniteSets

CONSTANTS
  CostRequests, CostIdOf,   \* requests and the identifiers they carry; NoId where none is usable
  NoId,
  CostTasks,                    \* futures given to inherit_request_cost
  MaxActiveRequests, MaxBreakdown,
  SettleLimit, IdleWindow,      \* COST_STABILIZE_TIMEOUT and COST_STABILIZE_IDLE_WINDOW
  MaxCalls, MaxCostTime

ASSUME CostAssumption ==
  /\ {MaxActiveRequests, MaxBreakdown, SettleLimit, IdleWindow, MaxCalls, MaxCostTime} \subseteq Nat
  /\ DOMAIN CostIdOf = CostRequests /\ "none" \notin CostRequests /\ IsFiniteSet(CostTasks)

VARIABLES costTime,
          collector,   \* RequestCostCollector by request
          registered,  \* the requests of the registry
          costTask,    \* each future: whose collector it has, and whether it reserved work
          finishing,   \* each request's own task
          costResult   \* what finishing returned, and what a reader of its headers sees

costVars == <<costTime, collector, registered, costTask, finishing, costResult>>

NoRequest == "none"
NoResult == [kind |-> "none"]
EmptyCollector ==
  [open |-> FALSE, finalized |-> FALSE, work |-> 0, db |-> 0, calls |-> 0, waves |-> 0, widest |-> 0,
   breakdown |-> {}, costs |-> {}, updated |-> -1, wall |-> -1]

CostInit ==
  /\ costTime = 0 /\ registered = {}
  /\ collector = [r \in CostRequests |-> EmptyCollector]
  /\ costTask = [t \in CostTasks |-> [st |-> "unborn", of |-> NoRequest, work |-> FALSE, early |-> FALSE, db |-> FALSE]]
  /\ finishing = [r \in CostRequests |-> [pc |-> "new", until |-> 0]]
  /\ costResult = [r \in CostRequests |-> NoResult]

\* A collector lives while its request's scope or a future refers to it; the
\* registry holds it weakly and forgets dead ones whenever it is used.
Alive(r) ==
  finishing[r].pc \notin {"new", "over"} \/ \E t \in CostTasks : costTask[t].of = r /\ costTask[t].st \in {"spawned", "running"}
LiveRegistry == {r \in registered : Alive(r)}
CostUnchanged == UNCHANGED costTime

Touched(c) == [c EXCEPT !.updated = costTime]
Update(r, c) == collector' = [collector EXCEPT ![r] = Touched(c)]

\* register_request and with_active_collector
Registrable(r) == CostIdOf[r] # NoId /\ Cardinality(LiveRegistry) < MaxActiveRequests
Matching(id) == {r \in LiveRegistry : CostIdOf[r] = id}

\* begin_request_cost_collection: a collector is registered only if its identifier
\* is usable and there is room; without room it still collects.
BeginCollection(r) ==
  /\ finishing[r].pc = "new"
  /\ finishing' = [finishing EXCEPT ![r].pc = "serving"]
  /\ collector' = [collector EXCEPT ![r].open = TRUE]
  /\ registered' = IF Registrable(r) THEN LiveRegistry \cup {r} ELSE registered
  /\ CostUnchanged /\ UNCHANGED <<costTask, costResult>>

Reserve_Nothing(r) == FALSE

\* begin_work: work is outstanding from the moment the future is made, and none is
\* accepted once the collector is finalized.
Reserve(r) == ~collector[r].finalized

\* inherit_request_cost by the request's own task or by one of its futures; a
\* future that could reserve nothing runs outside the collector.
SpawnTask(t, r) ==
  /\ costTask[t].st = "unborn"
  /\ \/ finishing[r].pc = "serving"
     \/ \E u \in CostTasks : costTask[u].of = r /\ costTask[u].st = "running"
  /\ costTask' = [costTask EXCEPT ![t] = [st |-> "spawned", of |-> IF collector[r].finalized THEN NoRequest ELSE r,
                                          work |-> Reserve(r), early |-> ~collector[r].finalized, db |-> FALSE]]
  /\ collector' = [collector EXCEPT ![r].work = @ + (IF Reserve(r) THEN 1 ELSE 0)]
  /\ CostUnchanged /\ UNCHANGED <<registered, finishing, costResult>>
PollTask(t) ==
  /\ costTask[t].st = "spawned"
  /\ costTask' = [costTask EXCEPT ![t].st = "running"]
  /\ CostUnchanged /\ UNCHANGED <<collector, registered, finishing, costResult>>

\* begin_database_call: a wave begins when no call is active; the breakdown is bounded.
BeginCall(t) ==
  LET r == costTask[t].of
      c == collector[r]
  IN /\ costTask[t].st = "running" /\ r # NoRequest /\ ~costTask[t].db /\ c.calls < MaxCalls
     /\ Update(r, [c EXCEPT !.calls = @ + 1, !.waves = IF c.db = 0 THEN @ + 1 ELSE @, !.db = @ + 1,
                            !.widest = IF c.db + 1 > @ THEN c.db + 1 ELSE @,
                            !.breakdown = IF Cardinality(@) < MaxBreakdown THEN @ \cup {t} ELSE @])
     /\ costTask' = [costTask EXCEPT ![t].db = TRUE]
     /\ CostUnchanged /\ UNCHANGED <<registered, finishing, costResult>>

WakeWaiter(r) ==
  finishing' = [finishing EXCEPT ![r].pc = IF @ = "asleep" THEN "checking" ELSE @]
EndCall(t) ==
  /\ costTask[t].db
  /\ Update(costTask[t].of, [collector[costTask[t].of] EXCEPT !.db = @ - 1]) /\ WakeWaiter(costTask[t].of)
  /\ costTask' = [costTask EXCEPT ![t].db = FALSE]
  /\ CostUnchanged /\ UNCHANGED <<registered, costResult>>

\* record_counter, record_histogram, record_gauge: the future's share of the cost.
RecordCost(t) ==
  /\ costTask[t].st = "running" /\ costTask[t].of # NoRequest /\ t \notin collector[costTask[t].of].costs
  /\ Update(costTask[t].of, [collector[costTask[t].of] EXCEPT !.costs = @ \cup {t}])
  /\ CostUnchanged /\ UNCHANGED <<registered, costTask, finishing, costResult>>

\* finish_work, when the future ends or is dropped unpolled.
EndTask(t) ==
  /\ costTask[t].st \in {"spawned", "running"} /\ ~costTask[t].db
  /\ costTask' = [costTask EXCEPT ![t].st = "ended"]
  /\ IF costTask[t].work
     THEN /\ collector' = [collector EXCEPT ![costTask[t].of].work = @ - 1]
          /\ WakeWaiter(costTask[t].of)
     ELSE UNCHANGED <<collector, finishing>>
  /\ CostUnchanged /\ UNCHANGED <<registered, costResult>>

\* record_analytics_request_cost_by_request_id: only if the identifier names one
\* live request; two requests that share it get nothing.
RecordById(id) ==
  /\ Cardinality(Matching(id)) = 1 /\ registered' = LiveRegistry
  /\ \E r \in Matching(id) : "rows" \notin collector[r].costs /\ Update(r, [collector[r] EXCEPT !.costs = @ \cup {"rows"}])
  /\ CostUnchanged /\ UNCHANGED <<costTask, finishing, costResult>>

----------------------------------------------------------------------------
(* Finishing *)

SnapshotOf(c) == [kind |-> "snapshot", calls |-> c.calls, waves |-> c.waves, widest |-> c.widest, breakdown |-> c.breakdown, 
                  costs |-> c.costs, wall |-> c.wall]
\* write_to_headers and read_from_headers: without a usable wall time nothing is
\* read back; a breakdown that is too long is left out, the totals are kept.
ThroughHeaders(s) ==
  IF s.wall < 0 THEN NoResult
  ELSE [s EXCEPT !.breakdown = IF Cardinality(@) < MaxBreakdown THEN @ ELSE {}]

PrepareSnapshot(r) ==
  /\ finishing[r].pc = "serving"
  /\ \E pc \in {"checking", "polling"} : finishing' = [finishing EXCEPT ![r] = [pc |-> pc, until |-> costTime + SettleLimit]]
  /\ \E wall \in {-1, 1} : Update(r, [collector[r] EXCEPT !.wall = wall])
  /\ CostUnchanged /\ UNCHANGED <<registered, costTask, costResult>>

FinishWith(r, kind) ==
  /\ collector' = [collector EXCEPT ![r].finalized = TRUE]
  /\ registered' = registered \ {r}
  /\ costResult' = [costResult EXCEPT ![r] =
       [kind |-> kind, snapshot |-> SnapshotOf(collector[r]), headers |-> ThroughHeaders(SnapshotOf(collector[r]))]]
  /\ finishing' = [finishing EXCEPT ![r].pc = "over"]
  /\ CostUnchanged /\ UNCHANGED costTask

WorkIdle(c) == c.work = 0 /\ c.db = 0

\* finish_request_cost_snapshot: the waiter is enabled before it looks, so that an
\* end of work between the look and the wait is not missed.
CheckIdle(r) ==
  /\ finishing[r].pc = "checking"
  /\ IF WorkIdle(collector[r]) THEN FinishWith(r, "settled")
     ELSE finishing' = [finishing EXCEPT ![r].pc = "asleep"] /\ CostUnchanged
          /\ UNCHANGED <<collector, registered, costTask, costResult>>
GiveUpSettling(r) == finishing[r].pc = "asleep" /\ costTime >= finishing[r].until /\ FinishWith(r, "late")

\* finish_request_cost_collection: a quiet period or the deadline, whatever still runs;
\* it does not wait at all for a request that was not registered.
Quiet(r) == collector[r].updated = -1 \/ costTime - collector[r].updated >= IdleWindow
StopPolling(r) ==
  /\ finishing[r].pc = "polling" /\ (r \notin registered \/ Quiet(r) \/ costTime >= finishing[r].until)
  /\ FinishWith(r, "polled")

DropScope(r) ==
  /\ finishing[r].pc \in {"serving", "checking", "asleep", "polling"}
  /\ finishing' = [finishing EXCEPT ![r].pc = "over"]
  /\ CostUnchanged /\ UNCHANGED <<collector, registered, costTask, costResult>>

CostTick ==
  /\ costTime < MaxCostTime /\ costTime' = costTime + 1
  /\ UNCHANGED <<collector, registered, costTask, finishing, costResult>>

CostNext ==
  \/ \E r \in CostRequests : BeginCollection(r) \/ PrepareSnapshot(r) \/ CheckIdle(r) \/ GiveUpSettling(r)
                             \/ StopPolling(r) \/ DropScope(r)
  \/ \E t \in CostTasks, r \in CostRequests : SpawnTask(t, r)
  \/ \E t \in CostTasks : PollTask(t) \/ BeginCall(t) \/ EndCall(t) \/ RecordCost(t) \/ EndTask(t)
  \/ \E r \in CostRequests : RecordById(CostIdOf[r])
  \/ CostTick

----------------------------------------------------------------------------
(***************************************************************************)
(* A settled snapshot is complete: it holds the calls and the costs of     *)
(* every future that inherited the request before it was closed, also of   *)
(* one that had not been polled or that another future spawned, and what   *)
(* is read back from the headers has the same totals.                      *)
(***************************************************************************)
SettledIsComplete ==
  \A r \in CostRequests :
    costResult[r].kind = "settled" =>
      /\ \A t \in CostTasks : costTask[t].of = r /\ costTask[t].early =>
           /\ costTask[t].st = "ended"
           /\ t \in collector[r].costs => t \in costResult[r].snapshot.costs
      /\ costResult[r].snapshot.calls = collector[r].calls
      /\ costResult[r].headers # NoResult => costResult[r].headers.calls = collector[r].calls
=============================================================================
