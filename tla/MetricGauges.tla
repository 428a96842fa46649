---------------------------- MODULE MetricGauges ----------------------------
(***************************************************************************)
(* metrics-facade, gauges: the bounded set of metric keys, the handles     *)
(* each thread caches, and the observers that fold the revisioned events   *)
(* of buffered writers into shared gauges by differences.                  *)
(***************************************************************************)
EXTENDS Integers, FiniteSets

CONSTANTS
  GaugeThreads, Observers,
  MaxMetricKeys, MaxHandles,    \* MAX_REGISTERED_METRIC_KEYS, MAX_HANDLE_CACHE_ENTRIES
  MaxEvents                     \* events a writer emits

ASSUME GaugesAssumption == {MaxMetricKeys, MaxHandles, MaxEvents} \subseteq Nat \ {0} /\ IsFiniteSet(Observers)

VARIABLES metricKeys,  \* REGISTERED_KEYS
          handles,     \* per thread: cached keys, and whether each handle is a real one
          gauge,       \* the exporter's gauges
          observer,    \* MeteringMetricsObserver: StateMetric and BufferMetric
          emitted,     \* events of each writer not yet observed
          seenRevs     \* revisions observed while the observer still took them

gaugeVars == <<metricKeys, handles, gauge, observer, emitted, seenRevs>>

Modes == {"buffered", "draining", "stopped"}
GaugeKeys == Modes \cup {"items", "unknown"}

----------------------------------------------------------------------------
(* Handles.  The state of the registry during a sequence of updates is the *)
(* record <<keys, handles of the thread, gauges>>.                         *)

\* allow_metric_key: a key is admitted while there is room, and for ever.
AllowKey(keys, k) == IF k \in keys \/ Cardinality(keys) < MaxMetricKeys THEN keys \cup {k} ELSE keys

\* BoundedHandleCache::insert evicts some entry; a refused key is cached as a no-op.
CacheHandle(held, k, real) ==
  LET kept == IF Cardinality(DOMAIN held) >= MaxHandles /\ k \notin DOMAIN held
              THEN DOMAIN held \ {CHOOSE x \in DOMAIN held : TRUE} ELSE DOMAIN held
  IN [x \in kept \cup {k} |-> IF x = k THEN real ELSE held[x]]

\* increment_gauge and decrement_gauge through gauge_handle.
AddGauge(s, k, delta) ==
  IF k \in DOMAIN s.cache
  THEN [s EXCEPT !.values[k] = IF s.cache[k] THEN @ + delta ELSE @]
  ELSE LET keys == AllowKey(s.keys, k)
           real == k \in keys
       IN [keys |-> keys, cache |-> CacheHandle(s.cache, k, real),
           values |-> IF real THEN [s.values EXCEPT ![k] = @ + delta] ELSE s.values]

\* The adds of one update are made under the observer's own lock and commute
\* with those of the other observers, so they are one step here.
Facade(th) == [keys |-> metricKeys, cache |-> handles[th], values |-> gauge]
PublishGauges(th, s) == metricKeys' = s.keys /\ handles' = [handles EXCEPT ![th] = s.cache] /\ gauge' = s.values

----------------------------------------------------------------------------
(* Observers *)

NoCache == [k \in {} |-> FALSE]
UnbornObserver ==
  [st |-> "unborn", mode |-> "buffered", modeRev |-> 0, items |-> 0, unknown |-> TRUE, bufferRev |-> 0, terminal |-> FALSE]
GaugesInit ==
  /\ metricKeys = {} /\ handles = [th \in GaugeThreads |-> NoCache] /\ gauge = [k \in GaugeKeys |-> 0]
  /\ observer = [o \in Observers |-> UnbornObserver]
  /\ emitted = [o \in Observers |-> [count |-> 0, pending |-> {}]]
  /\ seenRevs = [o \in Observers |-> {}]

Flag(b) == IF b THEN 1 ELSE 0

NewObserver(th, o) ==
  /\ observer[o].st = "unborn" /\ observer' = [observer EXCEPT ![o].st = "live"]
  /\ PublishGauges(th, AddGauge(AddGauge(Facade(th), "buffered", 1), "unknown", 1))
  /\ UNCHANGED <<emitted, seenRevs>>

\* PolicyState::change_mode and inspect_now number the events as they are made
\* (each kind its own numbers; they are only compared within a kind, so one count
\* serves both); threads deliver them in any order.
EmitEvent(o) ==
  /\ observer[o].st = "live" /\ emitted[o].count < MaxEvents
  /\ \E e \in [kind : {"mode"}, to : Modes] \cup [kind : {"empty", "some", "failed"}, to : {"buffer"}] :
       emitted' = [emitted EXCEPT ![o] = [count |-> @.count + 1,
                                          pending |-> @.pending \cup {[rev |-> @.count + 1, kind |-> e.kind, to |-> e.to]}]]
  /\ UNCHANGED <<metricKeys, handles, gauge, observer, seenRevs>>

Later_Always(rev, last) == TRUE
Later(rev, last) == rev > last

\* StateMetric::observe: the old state's gauge down, the new one's up.
ObserveMode(th, o, e) ==
  IF Later(e.rev, observer[o].modeRev)
  THEN /\ observer' = [observer EXCEPT ![o].modeRev = e.rev, ![o].mode = e.to]
       /\ IF e.to = observer[o].mode THEN UNCHANGED <<metricKeys, handles, gauge>>
          ELSE PublishGauges(th, AddGauge(AddGauge(Facade(th), observer[o].mode, -1), e.to, 1))
  ELSE UNCHANGED <<observer, metricKeys, handles, gauge>>

\* replace_sample
ReplaceSample(th, o, items, unknown) ==
  PublishGauges(th, AddGauge(AddGauge(Facade(th), "items", items - observer[o].items), "unknown",
                       Flag(unknown) - Flag(observer[o].unknown)))
\* BufferMetric::observe: a failed inspection keeps the last sample and marks it unknown.
ObserveBuffer(th, o, e) ==
  IF ~observer[o].terminal /\ Later(e.rev, observer[o].bufferRev)
  THEN LET items == CASE e.kind = "failed" -> observer[o].items [] e.kind = "some" -> 1 [] e.kind = "empty" -> 0
       IN /\ observer' = [observer EXCEPT ![o].bufferRev = e.rev, ![o].items = items, ![o].unknown = (e.kind = "failed")]
          /\ ReplaceSample(th, o, items, e.kind = "failed")
  ELSE UNCHANGED <<observer, metricKeys, handles, gauge>>

ObserveEvent(th, o) ==
  /\ observer[o].st = "live"
  /\ \E e \in emitted[o].pending :
       /\ emitted' = [emitted EXCEPT ![o].pending = @ \ {e}]
       /\ seenRevs' = [seenRevs EXCEPT ![o] = IF observer[o].terminal /\ e.kind # "mode" THEN @ ELSE @ \cup {e}]
       /\ IF e.kind = "mode" THEN ObserveMode(th, o, e) ELSE ObserveBuffer(th, o, e)

\* BufferMetric::finish, once: a clean drain leaves no items.
FinishDrain(th, o) ==
  /\ observer[o].st = "live" /\ ~observer[o].terminal
  /\ \E clean, unknown \in BOOLEAN :
       LET items == IF clean THEN 0 ELSE observer[o].items
       IN /\ observer' = [observer EXCEPT ![o].terminal = TRUE, ![o].items = items, ![o].unknown = unknown]
          /\ ReplaceSample(th, o, items, unknown)
  /\ UNCHANGED <<emitted, seenRevs>>

DropObserver(th, o) ==
  /\ observer[o].st = "live" /\ observer' = [observer EXCEPT ![o].st = "dropped"]
  /\ PublishGauges(th, AddGauge(AddGauge(AddGauge(Facade(th), observer[o].mode, -1), "items", -observer[o].items),
                          "unknown", -Flag(observer[o].unknown)))
  /\ UNCHANGED <<emitted, seenRevs>>

GaugesNext ==
  \/ \E th \in GaugeThreads, o \in Observers : NewObserver(th, o) \/ ObserveEvent(th, o) \/ FinishDrain(th, o) \/ DropObserver(th, o)
  \/ \E o \in Observers : EmitEvent(o)

----------------------------------------------------------------------------
LiveObservers == {o \in Observers : observer[o].st = "live"}
Contribution(k) ==
  CASE k \in Modes -> Cardinality({o \in LiveObservers : observer[o].mode = k})
    [] k = "unknown" -> Cardinality({o \in LiveObservers : observer[o].unknown})
    [] k = "items" -> Cardinality({o \in LiveObservers : observer[o].items = 1})

(***************************************************************************)
(* Gauges kept by differences stay right: whichever threads deliver which  *)
(* events in which order, each gauge is what the live observers stand for, *)
(* or nothing at all if its key came after the set of keys was full, and   *)
(* each observer stands for the newest event that it was given.            *)
(***************************************************************************)
GaugesTruthful ==
  /\ \A k \in GaugeKeys : gauge[k] = IF k \in metricKeys THEN Contribution(k) ELSE 0
  /\ \A o \in LiveObservers :
       /\ \A e \in seenRevs[o] : e.kind = "mode" => e.rev <= observer[o].modeRev
       /\ \A e \in seenRevs[o] : e.kind # "mode" => e.rev <= observer[o].bufferRev
=============================================================================
