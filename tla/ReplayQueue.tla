----------------------------- MODULE ReplayQueue -----------------------------
(***************************************************************************)
(* Handoff and replay in buffered-writes: a producer publishes sealed      *)
(* batches to an at-least-once queue and replay workers receive, deliver   *)
(* and acknowledge or quarantine them.  A copy of a message is an entry of *)
(* the queue; a receipt handle names the copy.                             *)
(***************************************************************************)
EXTENDS Integers, Sequences, FiniteSets

CONSTANTS
  Envelopes,       \* published batches
  Poison,          \* those a worker cannot decode, or that are too old
  Operations,      \* operations of each batch
  Workers, Copies, \* Copies: entries the queue may hold over time
  MaxQueueFaults

ASSUME QueueAssumption == Poison \subseteq Envelopes /\ Copies \subseteq Nat /\ MaxQueueFaults \in Nat

VARIABLES
  message,     \* copy -> [batch, state]; state: none, visible, flight
  sent,        \* batches whose publication took effect
  worker,      \* the envelopes a replay_once call received and where it is
  delivered,   \* operations the sink has applied
  graves,      \* quarantine records
  queueFaults

queueVars == <<message, sent, worker, delivered, graves, queueFaults>>

NoCopy == [batch |-> "none", state |-> "none"]
IdleWorker == [pc |-> "idle", list |-> <<>>, done |-> {}]

QueueInit ==
  /\ message = [k \in Copies |-> NoCopy] /\ sent = {}
  /\ worker = [w \in Workers |-> IdleWorker]
  /\ delivered = {} /\ graves = {} /\ queueFaults = 0

FreshCopies == {k \in Copies : message[k] = NoCopy /\ \A j \in Copies : j < k => message[j] # NoCopy}
QueueFault == queueFaults < MaxQueueFaults /\ queueFaults' = queueFaults + 1
Gone == [batch |-> "none", state |-> "gone"]

\* publish: the answer may be lost (AmbiguousPublish) and the batch sent again.
Publish(b) ==
  /\ \E k \in FreshCopies :
       /\ message' = [message EXCEPT ![k] = [batch |-> b, state |-> "visible"]]
       /\ sent' = sent \cup {b}
       /\ IF b \in sent THEN QueueFault ELSE UNCHANGED queueFaults
  /\ UNCHANGED <<worker, delivered, graves>>

\* receive: up to two visible entries become invisible.
Receive(w) ==
  LET visible == {k \in Copies : message[k].state = "visible"}
  IN /\ worker[w].pc = "idle"
     /\ \E ks \in SUBSET visible :
          /\ Cardinality(ks) \in {1, 2}
          /\ message' = [k \in Copies |-> IF k \in ks THEN [message[k] EXCEPT !.state = "flight"]
                                          ELSE message[k]]
          /\ \E list \in [1 .. Cardinality(ks) -> ks] :
               /\ \A i, j \in DOMAIN list : i < j => list[i] < list[j]
               /\ worker' = [worker EXCEPT ![w] =
                    [pc |-> "prepare", list |-> [i \in DOMAIN list |-> [copy |-> list[i], batch |-> message[list[i]].batch]],
                     done |-> {}]]
     /\ UNCHANGED <<sent, delivered, graves, queueFaults>>

Current(w) == Head(worker[w].list)
OpsOf(b) == {<<b, o>> : o \in Operations}

\* deliver_envelope returned: the next envelope, or the end of replay_once.
NextEnvelope(w) ==
  worker' = [worker EXCEPT ![w] = IF Len(@.list) = 1 THEN IdleWorker
                                  ELSE [pc |-> "prepare", list |-> Tail(@.list), done |-> {}]]

\* An error ends replay_once; the envelopes left stay invisible until they expire.
Abandon(w) == worker' = [worker EXCEPT ![w] = IdleWorker]
GoTo(w, pc, done) == worker' = [worker EXCEPT ![w].pc = pc, ![w].done = done]

\* prepare_replay_attempt, then renew_visibility.
PrepareReplay(w) ==
  /\ worker[w].pc = "prepare"
  /\ \/ Current(w).batch \in Poison /\ GoTo(w, "bury", {}) /\ UNCHANGED queueFaults
     \/ /\ Current(w).batch \notin Poison /\ message[Current(w).copy].state # "gone"
        /\ GoTo(w, "sink", {}) /\ UNCHANGED queueFaults
     \/ /\ Current(w).batch \notin Poison /\ message[Current(w).copy].state = "gone"
        /\ Abandon(w) /\ UNCHANGED queueFaults
     \/ Current(w).batch \notin Poison /\ QueueFault /\ Abandon(w)
  /\ UNCHANGED <<message, sent, delivered, graves>>

\* handle_sink_result.
SinkAnswer(w, landed, done, failure) ==
  IF failure = "none" THEN GoTo(w, "acknowledge", {})
  ELSE IF failure = "permanent" THEN GoTo(w, "bury", done)
  ELSE NextEnvelope(w)

\* The sink applies operations, all of them unless it fails, and reports some
\* of those it applied.
FlushWrites(w) ==
  LET ops == OpsOf(Current(w).batch)
  IN /\ worker[w].pc = "sink"
     /\ \/ /\ delivered' = delivered \cup ops /\ UNCHANGED queueFaults
           /\ SinkAnswer(w, ops, {}, "none")
        \/ /\ QueueFault
           /\ \E landed \in SUBSET ops, failure \in {"retryable", "unknown", "permanent"} :
                \E done \in {{}, landed} :
                  /\ done # ops
                  /\ delivered' = delivered \cup landed /\ SinkAnswer(w, landed, done, failure)
     /\ UNCHANGED <<message, sent, graves>>

RemoveCopies(k) == message' = [message EXCEPT ![k] = Gone]

\* acknowledge: the request may be lost, or its answer.
Acknowledge(w) ==
  /\ worker[w].pc = "acknowledge"
  /\ \/ RemoveCopies(Current(w).copy) /\ NextEnvelope(w) /\ UNCHANGED queueFaults
     \/ QueueFault /\ Abandon(w) /\ (RemoveCopies(Current(w).copy) \/ UNCHANGED message)
  /\ UNCHANGED <<sent, delivered, graves>>

\* Mutant: the source is deleted before the record is stored.
Bury_SourceFirst(w) ==
  /\ worker[w].pc = "bury" /\ RemoveCopies(Current(w).copy)
  /\ \/ NextEnvelope(w) /\ UNCHANGED queueFaults
        /\ graves' = graves \cup {[batch |-> Current(w).batch, done |-> worker[w].done]}
     \/ QueueFault /\ Abandon(w) /\ UNCHANGED graves
  /\ UNCHANGED <<sent, delivered>>

\* quarantine: the record is published, then the source deleted.
Bury(w) ==
  /\ worker[w].pc = "bury"
  /\ \/ /\ graves' = graves \cup {[batch |-> Current(w).batch, done |-> worker[w].done]}
        /\ \/ RemoveCopies(Current(w).copy) /\ NextEnvelope(w) /\ UNCHANGED queueFaults
           \/ QueueFault /\ Abandon(w) /\ (RemoveCopies(Current(w).copy) \/ UNCHANGED message)
     \/ QueueFault /\ Abandon(w) /\ UNCHANGED <<graves, message>>
  /\ UNCHANGED <<sent, delivered>>

\* The visibility timeout of an entry ends, whoever still works on it.
Reappear(k) ==
  /\ message[k].state = "flight"
  /\ message' = [message EXCEPT ![k].state = "visible"]
  /\ IF \E w \in Workers : worker[w].pc # "idle" /\ \E i \in DOMAIN worker[w].list : worker[w].list[i].copy = k
     THEN QueueFault ELSE UNCHANGED queueFaults
  /\ UNCHANGED <<sent, worker, delivered, graves>>

WorkerStops(w) ==
  /\ worker[w].pc # "idle" /\ QueueFault /\ Abandon(w)
  /\ UNCHANGED <<message, sent, delivered, graves>>

WorkerStep(w) == Receive(w) \/ PrepareReplay(w) \/ FlushWrites(w) \/ Acknowledge(w) \/ Bury(w)

QueueNext ==
  \/ \E b \in Envelopes : Publish(b)
  \/ \E w \in Workers : WorkerStep(w) \/ WorkerStops(w)
  \/ \E k \in Copies : Reappear(k)

-----------------------------------------------------------------------------
(* Properties                                                              *)

InQueue(b) == \E k \in Copies : message[k].batch = b
Buried(b) == \E g \in graves : g.batch = b

\* A batch the queue accepted is never dropped: it is still there, the sink has
\* applied all of it, or a quarantine record names it, whichever worker's
\* acknowledgement, expiry or failure comes first (acknowledge_delivery,
\* quarantine).
HandoffKept == \A b \in sent : InQueue(b) \/ Buried(b) \/ OpsOf(b) \subseteq delivered

\* A quarantine record claims only progress the sink really made, so whoever
\* repairs the batch may skip those operations (with_completed).
GravesTruthful == \A g \in graves : g.done \subseteq delivered

\* A batch is handed over and buried without losing an operation or claiming one that was not made
\* (replay_once).
ReplaySafe == HandoffKept /\ GravesTruthful

=============================================================================
