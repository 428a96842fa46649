-------------------------- MODULE BufferProperties --------------------------
(***************************************************************************)
(* What the buffered-writes engine promises.                               *)
(***************************************************************************)
EXTENDS BufferEngine

\* Every value the engine and the provider hold has its type; a leased batch
\* and a pending request name records of the instance.
BufferTypeOK ==
  /\ store \in State
  /\ applied \subseteq Records /\ published \subseteq Batches /\ accepted \subseteq Records
  /\ \A n \in Nodes : turn[n].ops \subseteq Records /\ gate[n].mutations \in Nat
                      /\ gate[n].submissions \in Nat

Quarantined(s) == s.lost \cup UNION {s.lostBatches[b].ops : b \in LostBatches(s)}

\* An operation whose append took effect is never lost: it waits, is
\* quarantined, was applied by the sink, or is in a batch the queue holds,
\* whatever times out, lands late, crashes or fails (append_record,
\* seal_candidate, settle_batch).
NothingLost ==
  \A r \in accepted :
    \/ r \in Unsettled(store) \cup Quarantined(store) \cup applied
    \/ \E b \in published : r \in batchOps[b]

\* A retained operation is in one place: open, in one sealed batch, or in
\* quarantine, and a completed receipt means it is in none; otherwise one
\* write would be delivered under two batch identities.
HeldOnce ==
  \A r \in Records :
    LET places == (IF r \in OpenRecords(store) THEN {<<"open", 0>>} ELSE {})
                  \cup (IF r \in store.lost THEN {<<"lost", 0>>} ELSE {})
                  \cup {<<"sealed", b>> : b \in {x \in Batches : r \in store.sealed[x].ops}}
                  \cup {<<"lost", b>> : b \in {x \in Batches : r \in store.lostBatches[x].ops}}
    IN /\ Cardinality(places) = IF store.receipts[r].status = "buffered" THEN 1 ELSE 0

\* What was accepted is kept, and kept once, in a well-formed store (append_record, seal_candidate,
\* settle_batch, quarantine).
RetentionExact == BufferTypeOK /\ NothingLost /\ HeldOnce

\* A receipt says "written" only when the sink has applied the operation and
\* "queued" only when the queue holds its batch, so a synchronous caller that
\* is told so can rely on it.
ReceiptsTruthful ==
  \A r \in Records :
    /\ store.receipts[r].status = "written" => r \in applied
    /\ store.receipts[r].status = "queued" => \E b \in published : r \in batchOps[b]

\* The charges of retained work never exceed the configured capacity, so
\* sealing and quarantine always find the space admission reserved for them
\* (check_append_capacity, check_seal_capacity).
WithinCapacity ==
  /\ ActiveItems(store) <= ItemLimit
  /\ TotalBytes(store) - CompletedBytes(store) <= ByteLimit

\* The gate's counters are exactly the submissions inside: a leaked permit
\* would close admission for good, a lost lease would let a drain finish early.
GateExact ==
  \A n \in Nodes :
    LET inside(pcs) == {c \in Callers : call[c].node = n /\ call[c].pc \in pcs}
    IN /\ gate[n].mutations = Cardinality(inside({"reserve", "again", "append"}))
       /\ gate[n].submissions =
            Cardinality(inside({"reserve", "again", "append", "sync", "turn", "settled"}))
       /\ \A r \in Records : gate[n].dispatch[r].active =
            Cardinality({c \in inside({"append"}) : call[c].op = r})

\* A clean drain report means what it says: when it was written nothing was
\* retained, and no append this process sent may still add a new operation.
CleanDrainIsFinal ==
  \A n \in Nodes : drain[n].clean =>
    /\ \A c \in Callers : call[c].node = n => call[c].pc \notin {"reserve", "again", "append"}
    /\ \A q \in orphans : q.kind = "append" /\ q.node = n => q.op \in accepted

\* The gate counts who is inside, so a drain that reports clean is final (AdmissionGate, drain).
DrainExact == GateExact /\ CleanDrainIsFinal

\* The instance has no further fence to hand out.
FencesSpent == store.fence = MaxFence

\* Under fair turns and a sink that recovers every accepted operation leaves
\* the buffer: it is applied, handed to the queue or quarantined.  A caller
\* that waits for capacity while it holds the admission turn, a breaker that
\* opened, a lease that was abandoned must not stop it (flush_turn,
\* wait_for_capacity).
EventuallySettled ==
  \A r \in Records : (r \in Unsettled(store)) ~> (r \notin Unsettled(store) \/ FencesSpent)

\* A submission that waits for capacity is served once deliveries free it.  Two
\* things may keep it waiting: an append whose outcome is unknown, which keeps
\* its credit until it is retried, and quarantined items, which admission counts
\* and nothing removes (capacity.rs:78-91); AdmissionIgnoresQuarantine is what
\* the repository says of the latter (reserve_staging,
\* append_with_backpressure, settle_synchronous_submission).
SubmissionsReturn ==
  \A c \in Callers :
    (call[c].pc # "idle") ~> \/ call[c].pc = "done" \/ FencesSpent
                             \/ QuarantineCount(store) > 0
                             \/ \E n \in Nodes : Unknown(gate[n]) # {}

\* Room for an operation beside the active charges and the appends in flight.
ActiveRoom(g, r) ==
  /\ ActiveItems(store) + PendingItems(g, r) < ItemLimit
  /\ ActiveBytes(store) - CompletedBytes(store) + PendingBytes(g, r) + Charge(r) <= ByteLimit

\* Quarantined items "are already lost and must not prevent new admissions from
\* being accepted" (accounting.rs:66-68): a submission at its reservation is
\* turned away as full only if the other charges leave it no room.
AdmissionIgnoresQuarantine ==
  [][\A c \in Callers :
       call[c].pc = "reserve" /\ call'[c].pc = "done" /\ call'[c].result = "full"
         => ~ActiveRoom(gate[call[c].node], call[c].op)]_engineVars

=============================================================================
