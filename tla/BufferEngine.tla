---------------------------- MODULE BufferEngine ----------------------------
(***************************************************************************)
(* The engine of buffered-writes: submissions that pass the admission      *)
(* gate, flush turns that claim, seal and deliver batches, the sink's      *)
(* circuit breaker, the handoff to a queue and the drain of a shutdown.    *)
(* Several nodes may share one retention state (the Valkey buffer); a      *)
(* request the engine stopped waiting for may take effect later.           *)
(***************************************************************************)
EXTENDS BufferRetention

CONSTANTS
  Nodes, Callers,
  Prints,              \* admission fingerprints a caller may present
  WaitForCapacity,     \* BackpressurePolicy::WaitUntilDeadline
  MaxAttempts,         \* max_attempts_per_turn
  FailureThreshold, RecoveryThreshold,
  HasQueue, AllowQueueSuccess,
  Faults,              \* which failures happen in an instance
  MaxFaults,           \* how many of them in one behaviour
  MaxTime, MaxOrphans, MaxFence

ASSUME EngineAssumption ==
  /\ MaxAttempts \in Nat \ {0} /\ FailureThreshold \in Nat /\ RecoveryThreshold \in Nat
  /\ Faults \subseteq {"timeout", "late", "sink", "queue", "prepare", "cancel", "crash"}
  /\ IsFiniteSet(Callers) /\ Callers \cap {"none", "driver", "drain"} = {}
  /\ Nodes \cap {"none", "former"} = {}

VARIABLES
  store,      \* the retention state
  now,        \* wall clock, in units of the lease arithmetic
  gate,       \* AdmissionGate and admission_turn of each node
  policy,     \* PolicyState and the flush signal of each node
  turn,       \* the flush turn that holds turn_lock of each node
  call,       \* submissions
  drain,      \* shutdown of each node
  orphans,    \* requests nobody waits for that may still reach the provider
  applied,    \* operations the sink has applied
  published,  \* batches the queue holds
  accepted,   \* operations an append of which took effect
  batchOps,   \* membership of every batch ever prepared
  faults      \* failures so far

engineVars == <<store, now, gate, policy, turn, call, drain, orphans, applied, published,
                accepted, batchOps, faults>>

NoDispatch == [active |-> 0, unknown |-> FALSE, bytes |-> 0, print |-> 0]

FreshGate ==
  [closed |-> FALSE, mutations |-> 0, submissions |-> 0, holder |-> "none",
   dispatch |-> [r \in Records |-> NoDispatch]]

FreshPolicy ==
  [mode |-> "buffered", health |-> "closed", failures |-> 0, successes |-> 0, signal |-> "none"]

NoTurn ==
  [pc |-> "idle", by |-> "none", upTo |-> 0, force |-> FALSE, open |-> FALSE, fence |-> 0,
   batch |-> 0, ops |-> {}, tries |-> 0, done |-> {}]

IdleCall == [pc |-> "idle", node |-> "none", op |-> "none", print |-> 0, mark |-> 0, result |-> "none"]
NoDrain == [pc |-> "none", idle |-> FALSE, clean |-> FALSE]

EngineInit ==
  /\ store = EmptyState /\ now = 0
  /\ gate = [n \in Nodes |-> FreshGate] /\ policy = [n \in Nodes |-> FreshPolicy]
  /\ turn = [n \in Nodes |-> NoTurn] /\ drain = [n \in Nodes |-> NoDrain]
  /\ call = [c \in Callers |-> IdleCall]
  /\ orphans = {} /\ applied = {} /\ published = {} /\ accepted = {}
  /\ batchOps = [b \in Batches |-> {}] /\ faults = 0

-----------------------------------------------------------------------------
(* The admission gate                                                      *)

Dispatched(g) == {r \in Records : g.dispatch[r] # NoDispatch}
Unknown(g) == {r \in Records : g.dispatch[r].unknown}

\* reconcile_uncertain_admissions: a receipt with the dispatched fingerprint
\* confirms that the append took effect.
Reconcile(g, s) ==
  [g EXCEPT !.dispatch = [r \in Records |->
     IF @[r].unknown /\ s.receipts[r] # NoReceipt /\ s.receipts[r].print = @[r].print
     THEN IF @[r].active = 0 THEN NoDispatch ELSE [@[r] EXCEPT !.unknown = FALSE]
     ELSE @[r]]]

\* AdmissionLease::finish.
FinishDispatch(g, r, confirmed) ==
  LET d == [g.dispatch[r] EXCEPT !.active = @ - 1, !.unknown = @ /\ ~confirmed]
  IN [g EXCEPT !.dispatch[r] = IF d.active = 0 /\ ~d.unknown THEN NoDispatch ELSE d]

\* Mutant: an append abandoned in flight leaves no trace.
DropLease_ForgetsAppend(g, c, r, inFlight) ==
  LET h == [g EXCEPT !.mutations = @ - 1, !.holder = IF @ = c THEN "none" ELSE @]
  IN IF inFlight THEN FinishDispatch(h, r, TRUE) ELSE h

\* Mutant: the admission turn is not passed on.
DropLease_KeepsTurn(g, c, r, inFlight) ==
  LET h == [g EXCEPT !.mutations = @ - 1]
  IN IF inFlight
     THEN [h EXCEPT !.dispatch[r].active = @ - 1, !.dispatch[r].unknown = TRUE]
     ELSE h

\* The lease is dropped; an append still dispatched becomes unknown.
DropLease(g, c, r, inFlight) ==
  LET h == [g EXCEPT !.mutations = @ - 1, !.holder = IF @ = c THEN "none" ELSE @]
  IN IF inFlight
     THEN [h EXCEPT !.dispatch[r].active = @ - 1, !.dispatch[r].unknown = TRUE]
     ELSE h

DropPermit(g) == [g EXCEPT !.submissions = @ - 1]

PendingItems(g, r) == Cardinality(Dispatched(g) \ {r})
PendingBytes(g, r) == MapThenSumSet(LAMBDA q : g.dispatch[q].bytes, Dispatched(g) \ {r})

OverCapacity(s) == TotalItems(s) > ItemLimit \/ TotalBytes(s) - CompletedBytes(s) > ByteLimit

\* available_staging_bytes; "full" without room for one more item or byte.
Staging(s, g, r) ==
  LET free == ByteLimit - (TotalBytes(s) - CompletedBytes(s) + PendingBytes(g, r))
  IN CASE g.closed -> [result |-> "closed", bytes |-> 0]
       [] ~g.closed /\ OverCapacity(s) -> [result |-> "configuration", bytes |-> 0]
       [] ~g.closed /\ ~OverCapacity(s) /\ s.receipts[r] # NoReceipt ->
            [result |-> "ok", bytes |-> ByteLimit]
       [] OTHER -> [result |-> IF TotalItems(s) + PendingItems(g, r) >= ItemLimit \/ free <= 0
                               THEN "full" ELSE "ok",
                    bytes |-> free]

Charge(r) == Cost[r] + ReceiptCost

\* encode_staged_record: the record against the buffer and what is available.
Encoded(r, bytes) ==
  IF Charge(r) > ByteLimit THEN "oversized" ELSE IF Charge(r) > bytes THEN "full" ELSE "ok"

\* AdmissionLease::dispatch.
DispatchResult(g, r, print) ==
  IF g.dispatch[r] = NoDispatch
  THEN IF Cardinality(Dispatched(g)) >= ItemLimit THEN "full" ELSE "ok"
  ELSE IF g.dispatch[r].print # print THEN "conflict" ELSE "ok"

Dispatch(g, r, print) ==
  [g EXCEPT !.dispatch[r] =
     [active |-> @.active + 1, unknown |-> @.unknown,
      bytes |-> IF @.bytes > Charge(r) THEN @.bytes ELSE Charge(r), print |-> print]]

-----------------------------------------------------------------------------
(* Submissions                                                             *)

Returned(c, result) == [call EXCEPT ![c] = [IdleCall EXCEPT !.pc = "done", !.result = result]]

\* LifecycleMailbox::push on the flush signal: an explicit flush outranks ticks.
Signal(p, request) == [p EXCEPT !.signal = IF @ = "flush" THEN @ ELSE request]

Begin(c, n, r, print) ==
  /\ call[c].pc = "idle"
  /\ LET entered == [call EXCEPT ![c] = [pc |-> "reserve", node |-> n, op |-> r,
                                         print |-> print, mark |-> 0, result |-> "none"]]
         refused(why) == call' = Returned(c, why) /\ UNCHANGED gate
     IN \/ gate[n].closed /\ refused("closed")
        \/ ~gate[n].closed /\ gate[n].submissions >= ItemLimit /\ refused("full")
        \/ /\ ~gate[n].closed /\ gate[n].submissions < ItemLimit
           /\ gate' = [gate EXCEPT ![n].submissions = @ + 1, ![n].mutations = @ + 1]
           /\ call' = entered
  /\ UNCHANGED <<store, now, policy, turn, drain, orphans, applied, published, accepted, batchOps, faults>>

\* reserve_staging to the dispatch of the append, or the dispatch of an append
\* that is tried again.  A caller that must wait for capacity keeps the
\* admission turn and asks for a flush, unless the gate has closed.
Stage(c) ==
  LET n == call[c].node
      r == call[c].op
      g == IF call[c].pc = "reserve" THEN Reconcile(gate[n], store) ELSE gate[n]
      staged == Staging(store, g, r)
      encoded == IF staged.result = "ok" THEN Encoded(r, staged.bytes) ELSE staged.result
      room == IF call[c].pc = "reserve" THEN encoded ELSE "ok"
      tried == IF room = "ok" THEN DispatchResult(g, r, call[c].print) ELSE room
      result == IF tried = "full" /\ WaitForCapacity /\ g.closed THEN "closed" ELSE tried
  IN /\ call[c].pc \in {"reserve", "again"}
     /\ gate[n].holder \in {"none", c}
     /\ \/ /\ result = "ok"
           /\ gate' = [gate EXCEPT ![n] = [Dispatch(g, r, call[c].print) EXCEPT !.holder = c]]
           /\ call' = [call EXCEPT ![c].pc = "append"]
           /\ UNCHANGED policy
        \/ /\ result = "full" /\ WaitForCapacity
           /\ gate' = [gate EXCEPT ![n] = [g EXCEPT !.holder = c]]
           /\ policy' = [policy EXCEPT ![n] = Signal(@, "flush")]
           /\ UNCHANGED call
        \/ /\ result # "ok" /\ ~(result = "full" /\ WaitForCapacity)
           /\ gate' = [gate EXCEPT ![n] = DropPermit(DropLease(g, c, r, FALSE))]
           /\ call' = Returned(c, result)
           /\ UNCHANGED policy
     /\ UNCHANGED <<store, now, turn, drain, orphans, applied, published, accepted, batchOps, faults>>

\* The provider answers the append: append_once, then finish_admission.  A full
\* buffer is waited for unless the gate has closed meanwhile (wait_for_capacity).
AppendOnce(c) ==
  LET n == call[c].node
      r == call[c].op
      a == AppendRecord(store, r, call[c].print)
      g == FinishDispatch(gate[n], r, a.result = "appended")
      sync == policy[n].mode = "synchronous"
      waits == a.result = "full" /\ WaitForCapacity /\ ~gate[n].closed
      closed == a.result = "full" /\ WaitForCapacity /\ gate[n].closed
  IN /\ call[c].pc = "append"
     /\ store' = a.state
     /\ \/ /\ a.result = "appended"
           /\ accepted' = accepted \cup {r}
           /\ gate' = [gate EXCEPT ![n] = IF sync THEN DropLease(g, c, r, FALSE)
                                          ELSE DropPermit(DropLease(g, c, r, FALSE))]
           /\ call' = IF sync
                       THEN [call EXCEPT ![c].pc = "sync", ![c].mark = a.state.receipts[r].mark]
                       ELSE Returned(c, "buffered")
           /\ policy' = IF sync THEN policy ELSE [policy EXCEPT ![n] = Signal(@, "tick")]
        \/ /\ waits
           /\ gate' = [gate EXCEPT ![n] = g]
           /\ call' = [call EXCEPT ![c].pc = "again"]
           /\ policy' = [policy EXCEPT ![n] = Signal(@, "flush")]
           /\ UNCHANGED accepted
        \/ /\ a.result # "appended" /\ ~waits
           /\ gate' = [gate EXCEPT ![n] = DropPermit(DropLease(g, c, r, FALSE))]
           /\ call' = Returned(c, IF closed THEN "closed" ELSE a.result)
           /\ UNCHANGED <<policy, accepted>>
     /\ UNCHANGED <<now, turn, drain, orphans, applied, published, batchOps, faults>>

\* One more failure of the given kind.
Fault(kind) == kind \in Faults /\ faults < MaxFaults /\ faults' = faults + 1

\* A request that was given up: it never arrives, or it is still on its way.
LeftBehind(req) ==
  \/ UNCHANGED orphans
  \/ "late" \in Faults /\ Cardinality(orphans) < MaxOrphans /\ orphans' = orphans \cup {req}

AppendRequest(c) == [kind |-> "append", op |-> call[c].op, print |-> call[c].print, node |-> call[c].node]

\* The deadline passes, or the caller drops the future, at an await.
GiveUp(c, why) ==
  LET n == call[c].node
      inFlight == call[c].pc = "append"
  IN /\ call[c].pc \in {"reserve", "again", "append", "sync"}
     /\ why = "cancelled" \/ call[c].pc # "sync"
     /\ gate' = [gate EXCEPT ![n] =
          IF call[c].pc = "sync" THEN DropPermit(@)
          ELSE DropPermit(DropLease(@, c, call[c].op, inFlight))]
     /\ call' = Returned(c, IF inFlight /\ why = "deadline" THEN "ambiguous" ELSE why)
     /\ IF inFlight THEN LeftBehind(AppendRequest(c)) ELSE UNCHANGED orphans
     /\ UNCHANGED <<store, now, policy, turn, drain, applied, published, accepted, batchOps>>

\* settle_synchronous_submission after its flush turn.
SyncReturn(c) ==
  LET r == call[c].op
      receipt == store.receipts[r]
      mine == receipt # NoReceipt /\ receipt.print = call[c].print
  IN /\ call[c].pc = "settled"
     /\ \/ mine /\ receipt.status = "written" /\ call' = Returned(c, "written")
        \/ mine /\ receipt.status = "queued" /\ AllowQueueSuccess /\ call' = Returned(c, "queued")
        \/ /\ ~(mine /\ (receipt.status = "written" \/ (receipt.status = "queued" /\ AllowQueueSuccess)))
           /\ call' = Returned(c, "accepted")
     /\ gate' = [gate EXCEPT ![call[c].node] = DropPermit(@)]
     /\ UNCHANGED <<store, now, policy, turn, drain, orphans, applied, published, accepted, batchOps, faults>>

-----------------------------------------------------------------------------
(* The circuit breaker                                                     *)

RecordSuccess(p) ==
  CASE p.health = "closed" -> [p EXCEPT !.failures = 0]
    [] p.health = "open" -> p
    [] p.health = "halfOpen" ->
         LET q == [p EXCEPT !.failures = 0, !.successes = @ + 1]
         IN IF q.successes >= RecoveryThreshold THEN [q EXCEPT !.health = "closed"] ELSE q

\* Counters saturate where nothing distinguishes larger values.
RecordFailure(p, old) ==
  LET q == [p EXCEPT !.failures = IF @ < FailureThreshold THEN @ + 1 ELSE @, !.successes = 0]
  IN IF p.health # "closed" \/ q.failures >= FailureThreshold \/ old
     THEN [q EXCEPT !.health = "open"] ELSE q

RestoreMode(p, low) ==
  IF low /\ p.mode = "synchronous" /\ p.health = "closed" THEN [p EXCEPT !.mode = "buffered"] ELSE p

FallBack(p) == IF p.mode = "buffered" THEN [p EXCEPT !.mode = "synchronous"] ELSE p

-----------------------------------------------------------------------------
(* Flush turns                                                             *)

\* What a turn may still deliver; quarantined items count with it as unsettled_items.
Unsettled(s) == OpenRecords(s) \cup UNION {s.sealed[b].ops : b \in SealedBatches(s)}

Open(n, by, upTo, force) ==
  /\ turn[n] = NoTurn
  /\ turn' = [turn EXCEPT ![n] = [NoTurn EXCEPT !.pc = "look", !.by = by, !.upTo = upTo, !.force = force]]

\* after_response (watermark), flush_eligible_writes and flush_writes (forced).
StartDriverTurn(n) ==
  /\ Unsettled(store) # {} \/ policy[n].signal # "none"
  /\ \/ /\ \E upTo \in {store.mark, Cardinality(Records) * 2} :
             Open(n, "driver", upTo, policy[n].signal = "flush")
        /\ policy' = [policy EXCEPT ![n].signal = "none"]
     \/ Open(n, "driver", Cardinality(Records) * 2, TRUE) /\ UNCHANGED policy
  /\ UNCHANGED <<store, now, gate, call, drain, orphans, applied, published, accepted, batchOps, faults>>

StartSyncTurn(c) ==
  /\ call[c].pc = "sync"
  /\ \/ Open(call[c].node, c, call[c].mark, TRUE) /\ call' = [call EXCEPT ![c].pc = "turn"]
        /\ UNCHANGED faults
     \/ Fault("timeout") /\ call' = [call EXCEPT ![c].pc = "settled"] /\ UNCHANGED turn
  /\ UNCHANGED <<store, now, gate, policy, drain, orphans, applied, published, accepted, batchOps>>

\* A batch is forgotten at the head and at the end of the loop.
At(t, pc) ==
  IF pc \in {"look", "close"}
  THEN [NoTurn EXCEPT !.pc = pc, !.by = t.by, !.upTo = t.upTo, !.force = t.force]
  ELSE [t EXCEPT !.pc = pc]
To(n, pc) == turn' = [turn EXCEPT ![n] = At(@, pc)]

\* The head of the flush loop: inspection, capacity check, eligibility.
Look(n) ==
  /\ turn[n].pc = "look"
  /\ \/ /\ TotalItems(store) = 0
        /\ policy' = [policy EXCEPT ![n] = RestoreMode(@, TRUE)] /\ To(n, "close") /\ UNCHANGED faults
     \/ /\ TotalItems(store) # 0 /\ ~OverCapacity(store) /\ UNCHANGED <<policy, faults>>
        /\ \E eligible \in BOOLEAN :
             /\ turn[n].force => eligible
             /\ eligible \/ Claimable(store, now) # {}
             /\ turn' = [turn EXCEPT ![n].pc = "claim", ![n].open = eligible]
     \/ /\ TotalItems(store) # 0 /\ UNCHANGED policy
        /\ \/ (OverCapacity(store) \/ ~turn[n].force) /\ UNCHANGED faults
           \/ Fault("timeout")
        /\ To(n, "close")
  /\ UNCHANGED <<store, now, gate, call, drain, orphans, applied, published, accepted, batchOps>>

\* claim_work: the oldest due sealed batch, or else a group of open records.
\* Retry times and ages come from wall clocks that may step, so any set of
\* batches may be due unless all ages are forced.
FirstItem(s, b) == Min({s.receipts[r].mark : r \in s.sealed[b].ops})

ClaimWork(s0, due, open, upTo, at) ==
  LET s == ExpireOpen(s0, at)
      b == CHOOSE x \in due : \A y \in due : FirstItem(s, x) <= FirstItem(s, y)
      rs == Candidate(s, upTo)
  IN CASE due # {} -> [Answer("sealed", ClaimSealed(s, b, at)) EXCEPT !.result = <<"sealed", b>>]
       [] due = {} /\ open /\ Eligible(s, upTo) # {} ->
            [Answer("open", ClaimOpen(s, rs, at)) EXCEPT !.result = <<"open", 0>>]
       [] OTHER -> [Answer("none", s) EXCEPT !.result = <<"none", 0>>]

Claim(n) ==
  LET t == turn[n]
  IN /\ t.pc = "claim" /\ store.fence < MaxFence
     /\ \/ \E due \in (IF t.force THEN {Claimable(store, now)} ELSE SUBSET Claimable(store, now)) :
             LET a == ClaimWork(store, due, t.open, t.upTo, now)
                 b == a.result[2]
             IN /\ store' = a.state
                /\ turn' = [turn EXCEPT ![n] =
                     CASE a.result[1] = "sealed" ->
                            [t EXCEPT !.pc = "permit", !.batch = b, !.fence = a.state.fence,
                                      !.ops = Pending(a.state.sealed[b])]
                       [] a.result[1] = "open" ->
                            [t EXCEPT !.pc = "seal", !.fence = a.state.fence,
                                      !.ops = Claimed(a.state, a.state.fence)]
                       [] a.result[1] = "none" -> At(t, "close")]
                /\ UNCHANGED <<orphans, faults>>
        \/ /\ Fault("timeout") /\ To(n, "close") /\ UNCHANGED store
           /\ LeftBehind([kind |-> "claim", open |-> t.open, upTo |-> t.upTo, at |-> now])
     /\ UNCHANGED <<now, gate, policy, call, drain, applied, published, accepted, batchOps>>

\* Prefixes of the candidate that halving and the singleton fallback reach.
SplitsOf(s, ops) ==
  {p \in (SUBSET ops) \ {{}} :
     /\ \A x \in p, y \in ops \ p : s.open[x].mark < s.open[y].mark
     /\ Cardinality(p) \in {Cardinality(ops), Cardinality(ops) \div 2, Cardinality(ops) \div 4, 1}}

FreshBatch(b) == batchOps[b] = {} /\ \A x \in Batches : x < b => batchOps[x] # {}

\* seal_candidate_with_splitting: install a prepared prefix, whose encoding may
\* take more than its records reserved, quarantine a
\* record that cannot be prepared alone, or release the candidate.
Seal(n) ==
  LET t == turn[n]
      asked(a, ok, pc, req, intact) ==
        \/ /\ IF intact THEN UNCHANGED faults ELSE Fault("prepare")
           /\ store' = a.state /\ UNCHANGED orphans
           /\ turn' = [turn EXCEPT ![n] = IF a.result = ok THEN pc ELSE At(t, "close")]
        \/ Fault("timeout") /\ To(n, "close") /\ UNCHANGED store /\ LeftBehind(req)
  IN /\ t.pc = "seal"
     /\ \/ \E b \in Batches, p \in SplitsOf(store, t.ops), excess \in {0, 1} :
             /\ FreshBatch(b) /\ (p # t.ops \/ excess = 1 => "prepare" \in Faults)
             /\ batchOps' = [batchOps EXCEPT ![b] = p]
             /\ asked(InstallBatch(store, t.fence, b, p, Reserved(p) + excess, now), "sealed",
                      [t EXCEPT !.pc = "permit", !.batch = b, !.ops = p],
                      [kind |-> "install", fence |-> t.fence, batch |-> b, ops |-> p, size |-> Reserved(p) + excess, at |-> now],
                      p = t.ops /\ excess = 0)
        \/ /\ "prepare" \in Faults /\ UNCHANGED batchOps
           /\ LET r == CHOOSE x \in t.ops : \A y \in t.ops : store.receipts[x].mark <= store.receipts[y].mark
              IN asked(QuarantineSingleton(store, t.fence, r, now), "quarantined",
                       [t EXCEPT !.pc = "claim", !.ops = {}, !.fence = 0],
                       [kind |-> "isolate", fence |-> t.fence, op |-> r, at |-> now], FALSE)
        \/ /\ Fault("prepare") /\ To(n, "close") /\ UNCHANGED <<batchOps, orphans>>
           /\ store' = ReleaseCandidate(ExpireOpen(store, now), t.fence)
     /\ UNCHANGED <<now, gate, policy, call, drain, applied, published, accepted>>

\* deliver up to the first attempt: acquire_sink_permission.
Permit(n) ==
  LET p == policy[n]
      refused(q, old) ==
        /\ policy' = [policy EXCEPT ![n] = q]
        /\ To(n, IF (turn[n].force \/ old) /\ HasQueue THEN "handoff" ELSE "release")
  IN /\ turn[n].pc = "permit"
     /\ \E old \in BOOLEAN :
          LET q == IF p.health = "open" /\ old THEN FallBack(p) ELSE p
          IN \/ /\ p.health # "open" /\ ~old
                /\ policy' = policy /\ turn' = [turn EXCEPT ![n].pc = "attempt", ![n].tries = 0]
             \/ /\ p.health = "open" /\ policy' = [policy EXCEPT ![n] = [q EXCEPT !.health = "halfOpen"]]
                /\ turn' = [turn EXCEPT ![n].pc = "attempt", ![n].tries = 0]
             \/ p.health = "open" /\ refused(RecordFailure(q, FALSE), old)
             \/ p.health = "open" /\ refused(q, old)
     /\ UNCHANGED <<store, now, gate, call, drain, orphans, applied, published, accepted, batchOps, faults>>

\* classify: what a sink's answer means for the pending operations.  done are
\* the operations it reports complete.
Failures == {"retryable", "unknown", "permanent", "invalid"}

AfterSink(t, done, failure) ==
  CASE failure = "none" -> [t EXCEPT !.pc = "delivered", !.done = {}]
    [] failure = "permanent" -> [t EXCEPT !.pc = "quarantine", !.done = done]
    [] failure = "invalid" -> [t EXCEPT !.pc = "release"]
    [] failure \in {"retryable", "unknown"} ->
         IF done = {} THEN [t EXCEPT !.pc = "failed"]
         ELSE [t EXCEPT !.pc = "partial", !.done = done, !.ops = @ \ done]

\* One attempt.  The sink applies operations and answers; the answer is lost
\* when the deadline passes.
Attempt(n) ==
  LET t == turn[n]
  IN /\ t.pc = "attempt"
     /\ \/ /\ applied' = applied \cup t.ops /\ turn' = [turn EXCEPT ![n] = AfterSink(t, {}, "none")]
           /\ UNCHANGED faults
        \/ /\ Fault("sink")
           /\ \E landed \in SUBSET t.ops, failure \in Failures :
                \E done \in {{}, landed} :
                  /\ done # t.ops
                  /\ failure = "invalid" => done = {}
                  /\ failure = "retryable" => done = landed
                  /\ applied' = applied \cup landed
                  /\ turn' = [turn EXCEPT ![n] = AfterSink(t, done, failure)]
        \/ Fault("prepare") /\ UNCHANGED applied
           /\ turn' = [turn EXCEPT ![n].pc = "quarantine", ![n].done = {}]
        \/ Fault("timeout") /\ UNCHANGED applied /\ To(n, "release")
     /\ UNCHANGED <<store, now, gate, policy, call, drain, orphans, published, accepted, batchOps>>

\* settle_leased with what follows each disposition.
Disposition(pc) ==
  CASE pc = "delivered" -> "delivered" [] pc = "partial" -> "partial" [] pc = "quarantine" -> "quarantine"
    [] pc = "queued" -> "queued" [] pc = "release" -> "release"

NextStep(pc, ok) ==
  CASE pc = "release" -> "close"
    [] pc = "partial" /\ ok -> "failed"
    [] pc \in {"delivered", "quarantine", "queued"} /\ ok -> "look"
    [] OTHER -> "close"

Settle(n) ==
  LET t == turn[n]
      how == Disposition(t.pc)
      a == SettleBatch(store, t.batch, t.fence, how, t.done, now)
      done == a.result = "settled"
  IN /\ t.pc \in {"delivered", "partial", "quarantine", "queued", "release"}
     /\ \/ /\ store' = a.state /\ UNCHANGED <<orphans, faults>>
           /\ turn' = [turn EXCEPT ![n] = At([t EXCEPT !.done = {}], NextStep(t.pc, done))]
           /\ policy' = IF t.pc = "delivered" /\ done
                        THEN [policy EXCEPT ![n] = RecordSuccess(@)] ELSE policy
        \/ /\ Fault("timeout") /\ UNCHANGED <<store, policy>>
           /\ turn' = [turn EXCEPT ![n] = At([t EXCEPT !.done = {}], NextStep(t.pc, FALSE))]
           /\ LeftBehind([kind |-> "settle", batch |-> t.batch, fence |-> t.fence, how |-> how,
                          done |-> t.done, at |-> now])
     /\ UNCHANGED <<now, gate, call, drain, applied, published, accepted, batchOps>>

\* retry_failed_write: the breaker, then a handoff for an old batch, another
\* attempt or the end of the turn.
Failed(n) ==
  LET t == turn[n]
  IN /\ t.pc = "failed"
     /\ \E old \in BOOLEAN :
          LET p == RecordFailure(policy[n], old)
              again == t.tries + 1 < MaxAttempts /\ p.health # "open"
          IN /\ policy' = [policy EXCEPT ![n] = IF old THEN FallBack(p) ELSE p]
             /\ \/ old /\ HasQueue /\ To(n, "handoff")
                \/ /\ ~(old /\ HasQueue) /\ again
                   /\ turn' = [turn EXCEPT ![n].pc = "attempt", ![n].tries = @ + 1]
                \/ ~(old /\ HasQueue) /\ ~again /\ To(n, "release")
     /\ UNCHANGED <<store, now, gate, call, drain, orphans, applied, published, accepted, batchOps, faults>>

\* Mutant: a failed publication settles the batch as queued.
Handoff_IgnoresFailure(n) ==
  /\ turn[n].pc = "handoff" /\ To(n, "queued")
  /\ \/ published' = published \cup {turn[n].batch} /\ UNCHANGED faults
     \/ Fault("queue") /\ published' \in {published, published \cup {turn[n].batch}}
  /\ UNCHANGED <<store, now, gate, policy, call, drain, orphans, applied, accepted, batchOps>>

\* try_handoff_leased: a publication that fails may have reached the queue.
Handoff(n) ==
  /\ turn[n].pc = "handoff"
  /\ \/ published' = published \cup {turn[n].batch} /\ To(n, "queued") /\ UNCHANGED faults
     \/ /\ Fault("queue")
        /\ published' \in {published, published \cup {turn[n].batch}} /\ To(n, "release")
  /\ UNCHANGED <<store, now, gate, policy, call, drain, orphans, applied, accepted, batchOps>>

\* The end of the turn: a last inspection, and turn_lock is released.
Close(n) ==
  LET t == turn[n]
  IN /\ t.pc = "close"
     /\ \E low \in {TRUE, TotalItems(store) = 0} :
          policy' = [policy EXCEPT ![n] = RestoreMode(@, low)]
     /\ turn' = [turn EXCEPT ![n] = NoTurn]
     /\ call' = [c \in Callers |-> IF c = t.by THEN [call[c] EXCEPT !.pc = "settled"] ELSE call[c]]
     /\ drain' = [drain EXCEPT ![n].pc = IF t.by = "drain" THEN "report" ELSE @]
     /\ UNCHANGED <<store, now, gate, orphans, applied, published, accepted, batchOps, faults>>

-----------------------------------------------------------------------------
(* Shutdown                                                                *)

BeginDrain(n) ==
  /\ drain[n].pc = "none"
  /\ drain' = [drain EXCEPT ![n].pc = "idle"]
  /\ gate' = [gate EXCEPT ![n].closed = TRUE]
  /\ policy' = [policy EXCEPT ![n].mode = "draining"]
  /\ UNCHANGED <<store, now, turn, call, orphans, applied, published, accepted, batchOps, faults>>

\* Admissions become idle, or the work deadline passes; then a forced turn.
DrainTurn(n) ==
  /\ drain[n].pc = "idle"
  /\ \E idle \in BOOLEAN :
       /\ idle => gate[n].mutations = 0
       /\ ~idle => "timeout" \in Faults
       /\ gate' = [gate EXCEPT ![n] = Reconcile(@, store)]
       /\ \/ /\ Open(n, "drain", Cardinality(Records) * 2, TRUE) /\ UNCHANGED faults
             /\ drain' = [drain EXCEPT ![n].pc = "turn", ![n].idle = idle]
          \/ /\ Fault("timeout") /\ UNCHANGED turn
             /\ drain' = [drain EXCEPT ![n].pc = "report", ![n].idle = idle]
  /\ UNCHANGED <<store, now, policy, call, orphans, applied, published, accepted, batchOps>>

\* finish_shutdown_drain; clean is DrainReport::is_clean.
DrainReport(n) ==
  LET g == Reconcile(gate[n], store)
      clean == /\ drain[n].idle /\ Unknown(g) = {} /\ Dispatched(g) = {}
               /\ Unsettled(store) = {} /\ QuarantineCount(store) = 0
  IN /\ drain[n].pc = "report"
     /\ \/ UNCHANGED faults /\ drain' = [drain EXCEPT ![n].pc = "done", ![n].clean = clean]
        \/ Fault("timeout") /\ drain' = [drain EXCEPT ![n].pc = "done"]
     /\ gate' = [gate EXCEPT ![n] = g]
     /\ policy' = [policy EXCEPT ![n].mode = "stopped"]
     /\ UNCHANGED <<store, now, turn, call, orphans, applied, published, accepted, batchOps>>

-----------------------------------------------------------------------------
(* Late requests, time and crashes                                         *)

\* A request nobody waits for reaches the provider with the time it carries.
Late(req) ==
  /\ req \in orphans /\ orphans' = orphans \ {req}
  /\ store' =
       CASE req.kind = "append" -> AppendRecord(store, req.op, req.print).state
         [] req.kind = "claim" -> ClaimWork(store, Claimable(store, req.at), req.open, req.upTo, req.at).state
         [] req.kind = "install" ->
              InstallBatch(store, req.fence, req.batch, req.ops, req.size, req.at).state
         [] req.kind = "isolate" -> QuarantineSingleton(store, req.fence, req.op, req.at).state
         [] req.kind = "settle" ->
              SettleBatch(store, req.batch, req.fence, req.how, req.done, req.at).state
  /\ accepted' = IF req.kind = "append" /\ AppendRecord(store, req.op, req.print).result = "appended"
                 THEN accepted \cup {req.op} ELSE accepted
  /\ UNCHANGED <<now, gate, policy, turn, call, drain, applied, published, batchOps, faults>>

Tick == now < MaxTime /\ now' = now + 1
        /\ UNCHANGED <<store, gate, policy, turn, call, drain, orphans, applied, published, accepted, batchOps, faults>>

\* The process of node n stops and starts again with an empty engine.
Crash(n) ==
  LET mine == {c \in Callers : call[c].node = n /\ call[c].pc # "done"}
  IN /\ Fault("crash") /\ (mine # {} \/ turn[n] # NoTurn)
     /\ gate' = [gate EXCEPT ![n] = FreshGate] /\ policy' = [policy EXCEPT ![n] = FreshPolicy]
     /\ turn' = [turn EXCEPT ![n] = NoTurn] /\ drain' = [drain EXCEPT ![n] = NoDrain]
     /\ call' = [c \in Callers |-> IF c \in mine THEN Returned(c, "crashed")[c] ELSE call[c]]
     /\ LET former(q) == IF q.kind = "append" /\ q.node = n THEN [q EXCEPT !.node = "former"] ELSE q
            sent == IF "late" \in Faults THEN {c \in mine : call[c].pc = "append"} ELSE {}
        IN \E late \in SUBSET sent :
             /\ orphans' = {former(q) : q \in orphans \cup {AppendRequest(c) : c \in late}}
             /\ Cardinality(orphans') <= MaxOrphans
     /\ UNCHANGED <<store, now, applied, published, accepted, batchOps>>

CallerNext(c) ==
  \/ \E n \in Nodes, r \in Records, print \in Prints : Begin(c, n, r, print)
  \/ Stage(c) \/ AppendOnce(c) \/ StartSyncTurn(c) \/ SyncReturn(c)
  \/ Fault("timeout") /\ GiveUp(c, "deadline")
  \/ Fault("cancel") /\ GiveUp(c, "cancelled")

TurnNext(n) ==
  \/ StartDriverTurn(n) \/ Look(n) \/ Claim(n) \/ Seal(n) \/ Permit(n) \/ Attempt(n)
  \/ Settle(n) \/ Failed(n) \/ Handoff(n) \/ Close(n)

DrainNext(n) == BeginDrain(n) \/ DrainTurn(n) \/ DrainReport(n)

EngineNext ==
  \/ \E c \in Callers : CallerNext(c)
  \/ \E n \in Nodes : TurnNext(n) \/ DrainNext(n) \/ Crash(n)
  \/ \E req \in orphans : Late(req)
  \/ Tick

EngineSpec == EngineInit /\ [][EngineNext]_engineVars

=============================================================================
