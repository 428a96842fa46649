----------------------------- MODULE FetchCache -----------------------------
(***************************************************************************)
(* The fetching cache of lru-ttl-cache: readers share one load per key,    *)
(* refresh jobs reload entries in the background, and writers remove or    *)
(* replace keys while loads are under way.  The value of a key is the      *)
(* version of it that was read from the source; even versions are absence. *)
(***************************************************************************)
EXTENDS Integers, Sequences, FiniteSets, SequencesExt

CONSTANTS
  CacheKeys, CacheCapacity, CacheTtl, RefreshTtl, StaleTtl,
  Readers, RefreshJobs,   \* caller tasks, names of refresh jobs
  MaxJobs, MaxFlights, MaxWaiters,
  ReadKeys,                  \* bound: the keys that are read; the others only take room
  MaxCacheTime, MaxCacheOps  \* bounds: the clock; calls that write and calls that read

ASSUME CacheAssumption ==
  /\ CacheCapacity \in Nat \ {0} /\ CacheTtl \in Nat \ {0} /\ RefreshTtl \in Nat \ {0}
  /\ StaleTtl \in Nat /\ MaxJobs \in Nat /\ MaxFlights \in Nat \ {0} /\ MaxWaiters \in Nat \ {0}
  /\ Readers \cap RefreshJobs = {} /\ ReadKeys \subseteq CacheKeys

VARIABLES
  cache,     \* CacheInner: entries by identity, LRU order, loads; aborted jobs
  flights,   \* SharedLoad: the flight of each key
  task,      \* every reader and refresh job
  source,    \* the version of each key at its authority, as of its last removal or replacement
  cacheTime, cacheOps

cacheVars == <<cache, flights, task, source, cacheTime, cacheOps>>

CacheTasks == Readers \cup RefreshJobs
NoTask == "none"
NoLoad == [owner |-> NoTask, cancelled |-> FALSE]
NoFlight == [leader |-> NoTask, cold |-> FALSE, outcome |-> "none"]
IdleTask == [pc |-> "idle", key |-> "none", entry |-> 0, stale |-> 0, job |-> NoTask,
             leader |-> NoTask, value |-> 0, since |-> 0, outcome |-> "none"]

CacheInit ==
  /\ cache = [heap |-> <<>>, lru |-> <<>>, loads |-> [k \in CacheKeys |-> NoLoad], aborts |-> {}]
  /\ flights = [k \in CacheKeys |-> NoFlight] /\ task = [t \in CacheTasks |-> IdleTask]
  /\ source = [k \in CacheKeys |-> 1]
  /\ cacheTime = 0 /\ cacheOps = [write |-> 0, read |-> 0]

-----------------------------------------------------------------------------
(* CacheInner                                                              *)

IdsOf(c, k) == {i \in ToSet(c.lru) : c.heap[i].key = k}
ExpiredEntry(c, i) == cacheTime >= c.heap[i].expires
ToBack(c, k) ==
  [c EXCEPT !.lru = SelectSeq(@, LAMBDA i : i \notin IdsOf(c, k)) \o SetToSeq(IdsOf(c, k))]

\* Mutant: a load survives the removal of its key.
RemoveEntry_KeepsLoad(c, k) == [c EXCEPT !.lru = SelectSeq(@, LAMBDA i : i \notin IdsOf(c, k))]

\* CacheInner::remove.
RemoveEntry(c, k) ==
  [c EXCEPT !.lru = SelectSeq(@, LAMBDA i : i \notin IdsOf(c, k)),
            !.loads[k].cancelled = c.loads[k] # NoLoad]

\* cancel_refresh of the entry of k, if there is one.
CancelRefresh(c, k) ==
  [c EXCEPT !.heap = [i \in DOMAIN @ |->
                        IF i \in IdsOf(c, k) THEN [@[i] EXCEPT !.cancelled = TRUE, !.handle = NoTask]
                        ELSE @[i]],
            !.aborts = @ \cup ({c.heap[i].handle : i \in IdsOf(c, k)} \ {NoTask})]

Evicted(c, k) == RemoveEntry(CancelRefresh(c, k), k)

\* evict_if_needed: the entry that expired first, else the least recently used.
EvictIfNeeded(c, k) ==
  LET expired == {i \in ToSet(c.lru) : ExpiredEntry(c, i)}
      first == {i \in expired : \A j \in expired : c.heap[i].expires <= c.heap[j].expires}
      victims == IF expired # {} THEN first ELSE {Head(c.lru)}
  IN IF Len(c.lru) < CacheCapacity \/ IdsOf(c, k) # {} THEN {c}
     ELSE {Evicted(c, c.heap[i].key) : i \in victims}

\* CacheInner::insert of a new entry.
AddEntry(c, k, v, ttl) ==
  LET r == RemoveEntry(c, k)
  IN [r EXCEPT !.heap = Append(@, [key |-> k, value |-> v, born |-> cacheTime, expires |-> cacheTime + ttl,
                                   busy |-> FALSE, cancelled |-> FALSE, handle |-> NoTask]),
               !.lru = Append(@, Len(r.heap) + 1)]

\* discard_expired: an entry whose key is being loaded stays.
DiscardExpired(c, k) == IF c.loads[k] # NoLoad THEN c ELSE Evicted(c, k)

-----------------------------------------------------------------------------
(* Users of the cache                                                      *)

CacheOp(kind) == cacheOps[kind] < MaxCacheOps /\ cacheOps' = [cacheOps EXCEPT ![kind] = @ + 1]

\* The caller has written the authority, which gives the key a new version,
\* present or absent, and now tells the cache; what is read between the two is
\* the new version already.
Rewritten(k) == {[source EXCEPT ![k] = @ + step] : step \in {1, 2}}

\* insert_with_expiration: a zero ttl only removes.
InsertKey(k, ttl) ==
  /\ CacheOp("write") /\ source' \in Rewritten(k) /\ source'[k] % 2 = 1
  /\ cache' \in IF ttl = 0 THEN {Evicted(cache, k)}
                ELSE {AddEntry(CancelRefresh(c, k), k, source'[k], ttl) : c \in EvictIfNeeded(cache, k)}
  /\ UNCHANGED <<flights, task, cacheTime>>

RemoveKey(k) ==
  /\ CacheOp("write") /\ source' \in Rewritten(k) /\ cache' = Evicted(cache, k)
  /\ UNCHANGED <<flights, task, cacheTime>>

Set(t, fields) == task' = [task EXCEPT ![t] = fields]
Idle(t) == Set(t, IdleTask)
At(t, pc) == task[t].pc = pc
FreshEntry(k) == {i \in IdsOf(cache, k) : ~ExpiredEntry(cache, i)}
StaleEntry(k) == {i \in IdsOf(cache, k) : StaleTtl > 0 /\ cacheTime < cache.heap[i].expires + StaleTtl}
ShouldRefresh(i) == cacheTime - cache.heap[i].born >= RefreshTtl

\* inspect_entry and inspect_entry_with_stale as cached, get_or_fetch and
\* get_or_fetch_stale_on_error use them.
ReadKey(t, k, mode) ==
  /\ At(t, "idle") /\ CacheOp("read")
  /\ IF FreshEntry(k) # {}
     THEN /\ cache' = ToBack(cache, k)
          /\ \E i \in FreshEntry(k) :
               IF ShouldRefresh(i) THEN Set(t, [IdleTask EXCEPT !.pc = "schedule", !.key = k, !.entry = i])
               ELSE Idle(t)
     ELSE IF mode = "stale" /\ StaleEntry(k) # {}
     THEN /\ cache' = ToBack(cache, k)
          /\ \E i \in StaleEntry(k) : Set(t, [IdleTask EXCEPT !.pc = "admit", !.key = k, !.stale = i])
     ELSE /\ cache' = DiscardExpired(ToBack(cache, k), k)
          /\ IF mode = "cached" THEN Idle(t)
             ELSE Set(t, [IdleTask EXCEPT !.pc = "admit", !.key = k])
  /\ UNCHANGED <<flights, source, cacheTime>>

-----------------------------------------------------------------------------
(* Background refresh                                                      *)

ActiveJobs == {j \in RefreshJobs : ~At(j, "idle")}
FreeJobs == {j \in RefreshJobs \ ActiveJobs : \A r \in Readers : task[r].job # j}

\* schedule_refresh and try_submit: one refresh per entry, within the slots.
ScheduleRefresh(t) ==
  LET i == task[t].entry
  IN /\ At(t, "schedule")
     /\ IF cache.heap[i].busy \/ Cardinality(ActiveJobs) >= MaxJobs
        THEN Idle(t) /\ UNCHANGED cache
        ELSE LET j == CHOOSE x \in FreeJobs : TRUE     \* nothing depends on its name
             IN /\ FreeJobs # {}
                /\ cache' = [cache EXCEPT !.heap[i].busy = TRUE, !.heap[i].cancelled = FALSE]
                /\ task' = [task EXCEPT ![t].pc = "install", ![t].job = j,
                              ![j] = [IdleTask EXCEPT !.pc = "queued", !.key = task[t].key, !.entry = i]]
     /\ UNCHANGED <<flights, source, cacheTime, cacheOps>>

\* install_refresh_handle, over whatever handle is there: that of a job that
\* has ended meanwhile aborts nothing.
InstallHandle(t) ==
  LET i == task[t].entry
      j == task[t].job
  IN /\ At(t, "install") /\ Idle(t)
     /\ cache' = IF cache.heap[i].cancelled THEN [cache EXCEPT !.aborts = @ \cup ({j} \cap ActiveJobs)]
                 ELSE [cache EXCEPT !.heap[i].handle = IF At(j, "idle") THEN NoTask ELSE j]
     /\ UNCHANGED <<flights, source, cacheTime, cacheOps>>

RunJob(j) ==
  /\ j \in RefreshJobs /\ At(j, "queued") /\ j \notin cache.aborts
  /\ Set(j, [task[j] EXCEPT !.pc = "admit"])
  /\ UNCHANGED <<cache, flights, source, cacheTime, cacheOps>>

\* The task is over; the guard of a refresh frees its entry.
EndedCache(c, t) ==
  IF t \in Readers THEN c
  ELSE [c EXCEPT !.heap[task[t].entry].busy = FALSE, !.heap[task[t].entry].handle = NoTask,
                 !.aborts = @ \ {t}]

-----------------------------------------------------------------------------
(* Shared loads                                                            *)

Failure == "error"
IsJob(t) == t \in RefreshJobs
Flying == {k \in CacheKeys : flights[k] # NoFlight}
Waiting == {t \in CacheTasks : At(t, "wait")}

\* The flight of k is over but for its end: what it found may have been removed since.
Settled(k) == task[flights[k].leader].pc \notin {"prepare", "fetch", "publish"}

\* admit_fetch.  A flight stays listed until its leader is dropped, so a reader
\* may join one whose load was published before.
AdmitFetch(t) ==
  LET k == task[t].key
      full == IF flights[k] # NoFlight THEN Cardinality(Waiting) >= MaxWaiters
              ELSE Cardinality(Flying) >= MaxFlights
  IN /\ At(t, "admit")
     /\ IF full THEN Set(t, [task[t] EXCEPT !.pc = "return", !.outcome = Failure]) /\ UNCHANGED flights
        ELSE IF flights[k] # NoFlight
        THEN /\ Set(t, [task[t] EXCEPT !.pc = "wait", !.leader = flights[k].leader,
                                       !.since = IF Settled(k) THEN 0 ELSE source[k], !.outcome = flights[k].outcome, !.value = task[flights[k].leader].value])
             /\ flights' = [flights EXCEPT ![k].cold = @ \/ ~IsJob(t)]
        ELSE /\ Set(t, [task[t] EXCEPT !.pc = "prepare", !.since = source[k]])
             /\ flights' = [flights EXCEPT ![k] = [leader |-> t, cold |-> ~IsJob(t), outcome |-> "none"]]
     /\ UNCHANGED <<cache, source, cacheTime, cacheOps>>

\* prepare_load: a cold load may find the entry, a refresh may have lost it.
PrepareLoad(t) ==
  LET k == task[t].key
      usable == IF IsJob(t) THEN task[t].entry \in FreshEntry(k) ELSE FreshEntry(k) = {}
  IN /\ At(t, "prepare")
     /\ IF usable
        THEN /\ cache' = [cache EXCEPT !.loads[k] = [owner |-> t, cancelled |-> FALSE]]
             /\ Set(t, [task[t] EXCEPT !.pc = "fetch"])
        ELSE IF IsJob(t) THEN Set(t, [task[t] EXCEPT !.pc = "send", !.outcome = Failure]) /\ UNCHANGED cache
        ELSE \E i \in FreshEntry(k) :
               /\ cache' = ToBack(cache, k)
               /\ Set(t, [task[t] EXCEPT !.pc = "send", !.outcome = "value", !.value = cache.heap[i].value])
     /\ UNCHANGED <<flights, source, cacheTime, cacheOps>>

\* The caller's fetch reads the source and may fail.
SourceReads(t) ==
  /\ At(t, "fetch")
  /\ \/ Set(t, [task[t] EXCEPT !.pc = "publish", !.value = source[task[t].key]])
     \/ Set(t, [task[t] EXCEPT !.pc = "finish", !.outcome = Failure])
  /\ UNCHANGED <<cache, flights, source, cacheTime, cacheOps>>

LoadCancelled(t) ==
  /\ task[t].pc \in {"fetch", "publish"} /\ cache.loads[task[t].key].cancelled
  /\ Set(t, [task[t] EXCEPT !.pc = "finish", !.outcome = Failure])
  /\ UNCHANGED <<cache, flights, source, cacheTime, cacheOps>>

CurrentLoad(t) == cache.loads[task[t].key] = [owner |-> t, cancelled |-> FALSE]

\* publish_load: a cancelled load stores nothing, a refresh only renews the
\* entry it was started for, and not once that has expired.
PublishLoad(t) ==
  LET k == task[t].key
      mine == IsJob(t) => task[t].entry \in IdsOf(cache, k)
      late == IsJob(t) /\ task[t].entry \notin FreshEntry(k)
      ttl == IF IsJob(t) THEN cache.heap[task[t].entry].expires - cache.heap[task[t].entry].born ELSE CacheTtl
  IN /\ At(t, "publish")
     /\ IF ~CurrentLoad(t) \/ ~mine
        THEN Set(t, [task[t] EXCEPT !.pc = "finish", !.outcome = Failure]) /\ UNCHANGED cache
        ELSE /\ Set(t, [task[t] EXCEPT !.pc = "finish", !.outcome = "value"])
             /\ cache' \in IF task[t].value % 2 = 0 THEN {RemoveEntry(cache, k)}
                           ELSE IF late THEN {cache}
                           ELSE {AddEntry(c, k, task[t].value, ttl) : c \in EvictIfNeeded(cache, k)}
     /\ UNCHANGED <<flights, source, cacheTime, cacheOps>>

\* finish_load when the load is dropped; a future that was dropped sends nothing.
FinishLoad(t) ==
  LET k == task[t].key
  IN /\ At(t, "finish")
     /\ cache' = IF cache.loads[k].owner = t THEN [cache EXCEPT !.loads[k] = NoLoad] ELSE cache
     /\ Set(t, [task[t] EXCEPT !.pc = IF task[t].outcome = "none" THEN "drop" ELSE "send"])
     /\ UNCHANGED <<flights, source, cacheTime, cacheOps>>

Followers(t) == {s \in Waiting : task[s].leader = t /\ task[s].outcome = "none"}
Inform(t, outcome) ==
  [s \in CacheTasks |-> IF s \in Followers(t) THEN [task[s] EXCEPT !.outcome = outcome, !.value = task[t].value]
                        ELSE task[s]]

SendOutcome(t) ==
  /\ At(t, "send")
  /\ task' = [Inform(t, task[t].outcome) EXCEPT ![t].pc = "drop"]
  /\ flights' = [flights EXCEPT ![task[t].key].outcome = task[t].outcome]
  /\ UNCHANGED <<cache, source, cacheTime, cacheOps>>

\* Drop of LoadLeader: the channel closes, which cancels followers without an
\* outcome.
DropLeader(t) ==
  /\ At(t, "drop") /\ task' = [Inform(t, Failure) EXCEPT ![t].pc = "return"]
  /\ flights' = [flights EXCEPT ![task[t].key] = NoFlight]
  /\ UNCHANGED <<cache, source, cacheTime, cacheOps>>

Done(t) == At(t, "return") \/ (At(t, "wait") /\ task[t].outcome # "none")
IsCurrent(t) == task[t].stale \in IdsOf(cache, task[t].key)

\* get_or_fetch_stale_on_error: a failed read serves its stale entry, if that is
\* still the current one, whatever the time is now.
ServeStale(t) ==
  /\ Done(t) /\ task[t].outcome = Failure /\ task[t].stale # 0 /\ IsCurrent(t)
  /\ Set(t, [task[t] EXCEPT !.pc = "return", !.outcome = "value", !.value = cache.heap[task[t].stale].value,
                            !.since = source[task[t].key], !.stale = 0])
  /\ UNCHANGED <<cache, flights, source, cacheTime, cacheOps>>

ReturnTask(t) ==
  /\ Done(t) /\ (task[t].outcome = Failure /\ task[t].stale # 0 => ~IsCurrent(t))
  /\ Idle(t) /\ cache' = EndedCache(cache, t)
  /\ UNCHANGED <<flights, source, cacheTime, cacheOps>>

\* The future of a reader is dropped, or a job is aborted, at an await.
StopTask(t) ==
  /\ task[t].pc \in {"queued", "wait", "fetch", "publish"}
  /\ IF IsJob(t) THEN t \in cache.aborts /\ UNCHANGED cacheOps ELSE CacheOp("read")
  /\ IF task[t].pc \in {"fetch", "publish"}
     THEN Set(t, [task[t] EXCEPT !.pc = "finish", !.outcome = "none"]) /\ UNCHANGED cache
     ELSE Idle(t) /\ cache' = EndedCache(cache, t)
  /\ UNCHANGED <<flights, source, cacheTime>>

CacheTick ==
  /\ cacheTime < MaxCacheTime /\ cacheTime' = cacheTime + 1
  /\ UNCHANGED <<cache, flights, task, source, cacheOps>>

TaskStep(t) ==
  \/ ScheduleRefresh(t) \/ InstallHandle(t) \/ RunJob(t) \/ AdmitFetch(t) \/ PrepareLoad(t)
  \/ SourceReads(t) \/ LoadCancelled(t) \/ PublishLoad(t) \/ FinishLoad(t) \/ SendOutcome(t)
  \/ DropLeader(t) \/ ServeStale(t) \/ ReturnTask(t) \/ (IsJob(t) /\ StopTask(t))

\* Readers that wait for nothing are alike: one of them makes the next call.
NextReader == {t \in Readers : At(t, "idle") /\ t = CHOOSE r \in Readers : At(r, "idle")}

CacheNext ==
  \/ \E k \in CacheKeys : InsertKey(k, CacheTtl)
  \/ \E k \in ReadKeys :
       \/ RemoveKey(k) \/ InsertKey(k, 0)
       \/ \E t \in NextReader, mode \in {"cached", "fetch", "stale"} : ReadKey(t, k, mode)
  \/ \E t \in CacheTasks : ~At(t, "idle") /\ TaskStep(t)
  \/ \E t \in Readers : StopTask(t)
  \/ CacheTick

-----------------------------------------------------------------------------
(* Properties                                                              *)

\* No entry holds a version older than the one its key had when it was last
\* removed or replaced, whatever loads and refreshes were under way then
\* (publish_load, CacheInner::remove); and the entries fit the capacity, one
\* for each key.
NeverRevived ==
  /\ \A i \in ToSet(cache.lru) : cache.heap[i].value >= source[cache.heap[i].key]
  /\ Len(cache.lru) <= CacheCapacity /\ \A k \in CacheKeys : Cardinality(IdsOf(cache, k)) <= 1

\* A read answers with nothing older than the version its key had when it was
\* removed or replaced before the read: it starts a load, or joins one that has
\* yet to publish, and a load that a removal found under way fails; or it serves
\* the stale entry only while that is still the one in the cache.  A read that
\* joins a flight already published and not yet dropped is not covered: a
\* removal in between does not reach it (admit_fetch, LoadLease, is_current_entry).
ReadsAfterRemovals ==
  \A t \in Readers : task[t].outcome = "value" /\ ~At(t, "idle") => task[t].value >= task[t].since

\* The assertion of prepare_load: a load belongs to the task that leads the
\* flight of its key, so none is started over another or left behind to keep
\* an expired entry for ever; and whoever waits for an outcome waits for a
\* leader that will still send one or close the channel (SharedLoad::fetch).
FlightsLed ==
  \A k \in CacheKeys :
    /\ cache.loads[k] # NoLoad =>
         /\ flights[k].leader = cache.loads[k].owner
         /\ task[cache.loads[k].owner].pc \in {"fetch", "publish", "finish"}
    /\ \A t \in CacheTasks : task[t].key = k =>
         /\ At(t, "prepare") => cache.loads[k] = NoLoad
         /\ (At(t, "wait") /\ task[t].outcome = "none") => flights[k].leader = task[t].leader

\* A cache keeps nothing that was taken from it, answers no read begun later from a load begun before,
\* and leaves nobody waiting for nothing (publish_load, LoadLeader).
CacheSound == NeverRevived /\ ReadsAfterRemovals /\ FlightsLed
=============================================================================
