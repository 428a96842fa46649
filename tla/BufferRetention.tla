-------------------------- MODULE BufferRetention --------------------------
(***************************************************************************)
(* The retention state machine of buffered-writes, shared by the memory,   *)
(* disk and Valkey buffers: admitted records wait in the open queue, are   *)
(* sealed into batches and stay until they are settled.  Every operation   *)
(* is a function from a state to a result and the next state; a provider   *)
(* evaluates one at a time.                                                *)
(***************************************************************************)
EXTENDS Integers, Sequences, FiniteSets, FiniteSetsExt, SequencesExt

CONSTANTS
  Records,       \* identities callers admit writes under
  Scope,         \* tenant scope of each record
  Cost,          \* bytes an open record reserves: the record, its sealing
                 \* and its quarantine
  ReceiptCost,   \* bytes of one admission receipt
  ItemLimit, ByteLimit,   \* BufferCapacity
  BatchItems, BatchBytes, \* PreparationLimits on the input of one batch
  MaxReceipts,   \* MAX_COMPLETED_OPERATION_RECEIPTS
  Batches,       \* batch identities
  LeaseTime      \* lease_duration

ASSUME RetentionAssumption ==
  /\ IsFiniteSet(Records) /\ Cost \in [Records -> Nat \ {0}]
  /\ ReceiptCost \in Nat /\ ItemLimit \in Nat /\ ByteLimit \in Nat
  /\ BatchItems \in Nat \ {0} /\ BatchBytes \in Nat
  /\ MaxReceipts \in Nat /\ Batches \subseteq Nat /\ LeaseTime \in Nat \ {0}

NoFence == 0
Statuses == {"none", "buffered", "written", "queued"}

\* leased_fence and lease_expires_at_ms; mark = 0: the record is not open.
OpenEntry == [mark : Nat, fence : Nat, until : Nat]
NotOpen == [mark |-> 0, fence |-> NoFence, until |-> 0]

\* ops is the immutable membership; until = 0: not leased.
Batch == [ops : SUBSET Records, done : SUBSET Records, fence : Nat, until : Nat, size : Nat]
NoBatch == [ops |-> {}, done |-> {}, fence |-> NoFence, until |-> 0, size |-> 0]

Receipt == [status : Statuses, print : Nat, mark : Nat]
NoReceipt == [status |-> "none", print |-> 0, mark |-> 0]

State ==
  [mark : Nat, fence : Nat, open : [Records -> OpenEntry], sealed : [Batches -> Batch],
   receipts : [Records -> Receipt], order : Seq(Records),
   lost : SUBSET Records, lostBatches : [Batches -> Batch]]

EmptyState ==
  [mark |-> 0, fence |-> NoFence, open |-> [r \in Records |-> NotOpen],
   sealed |-> [b \in Batches |-> NoBatch], receipts |-> [r \in Records |-> NoReceipt],
   order |-> <<>>, lost |-> {}, lostBatches |-> [b \in Batches |-> NoBatch]]

OpenRecords(s) == {r \in Records : s.open[r] # NotOpen}
SealedBatches(s) == {b \in Batches : s.sealed[b] # NoBatch}
LostBatches(s) == {b \in Batches : s.lostBatches[b] # NoBatch}
Completed(receipt) == receipt.status \in {"written", "queued"}

-----------------------------------------------------------------------------
(* Accounting                                                              *)

QuarantineCount(s) ==
  Cardinality(s.lost) + MapThenSumSet(LAMBDA b : Cardinality(s.lostBatches[b].ops), LostBatches(s))

TotalItems(s) ==
  Cardinality(OpenRecords(s)) + QuarantineCount(s)
    + MapThenSumSet(LAMBDA b : Cardinality(s.sealed[b].ops), SealedBatches(s))

QuarantinedBytes(s) ==
  MapThenSumSet(LAMBDA r : Cost[r], s.lost)
    + MapThenSumSet(LAMBDA b : s.lostBatches[b].size, LostBatches(s))

CompletedBytes(s) ==
  ReceiptCost * Cardinality({r \in Records : Completed(s.receipts[r])})

TotalBytes(s) ==
  MapThenSumSet(LAMBDA r : Cost[r], OpenRecords(s))
    + MapThenSumSet(LAMBDA b : s.sealed[b].size, SealedBatches(s))
    + QuarantinedBytes(s)
    + ReceiptCost * Cardinality({r \in Records : s.receipts[r] # NoReceipt})

ActiveItems(s) == TotalItems(s) - QuarantineCount(s)
ActiveBytes(s) == TotalBytes(s) - QuarantinedBytes(s)

-----------------------------------------------------------------------------
(* Receipts                                                                *)

\* evict_oldest_completed, n times.
Evict(s, n) ==
  LET gone == {s.order[i] : i \in 1 .. n}
  IN [s EXCEPT !.order = SubSeq(@, n + 1, Len(@)),
               !.receipts = [r \in Records |->
                  IF r \in gone /\ Completed(@[r]) THEN NoReceipt ELSE @[r]]]

Trim(s) == IF Len(s.order) > MaxReceipts THEN Evict(s, Len(s.order) - MaxReceipts) ELSE s

\* complete_batch_receipts, in the order of admission.
CompleteReceipts(s, ops, status) ==
  LET known == {r \in ops : s.receipts[r] # NoReceipt}
      fresh == SetToSortSeq({r \in known : ~Completed(s.receipts[r])},
                            LAMBDA x, y : s.receipts[x].mark < s.receipts[y].mark)
  IN Trim([s EXCEPT !.order = @ \o fresh,
                    !.receipts = [r \in Records |->
                       IF r \in known THEN [@[r] EXCEPT !.status = status] ELSE @[r]]])

\* reclaim_completed_receipts: evicts until the target is met, or all of them.
Reclaim(s, target) ==
  LET enough == {n \in 0 .. Len(s.order) : TotalBytes(Evict(s, n)) <= target}
  IN IF enough = {} THEN [ok |-> FALSE, state |-> Evict(s, Len(s.order))]
     ELSE [ok |-> TRUE, state |-> Evict(s, Min(enough))]

-----------------------------------------------------------------------------
(* Admission                                                               *)

Answer(result, s) == [result |-> result, state |-> s]

\* Mutant: abandoned claims of open records never expire.
ExpireOpen_Never(s, now) == s

ExpireOpen(s, now) ==
  [s EXCEPT !.open = [r \in Records |->
     IF @[r].fence # NoFence /\ @[r].until <= now THEN [@[r] EXCEPT !.fence = NoFence] ELSE @[r]]]

Fits(s, charge) ==
  /\ ActiveItems(s) + 1 <= ItemLimit
  /\ ActiveBytes(s) - CompletedBytes(s) + charge <= ByteLimit

\* append_record.  A failed reclaim has already evicted every receipt.
AppendRecord(s, r, print) ==
  LET charge == Cost[r] + ReceiptCost
      room == Reclaim(s, ByteLimit - charge)
      mark == s.mark + 1
      receipt == [status |-> "buffered", print |-> print, mark |-> mark]
  IN CASE s.receipts[r] # NoReceipt ->
            Answer(IF s.receipts[r].print = print THEN "appended" ELSE "conflict", s)
       [] s.receipts[r] = NoReceipt /\ charge > ByteLimit -> Answer("oversized", s)
       [] s.receipts[r] = NoReceipt /\ charge <= ByteLimit /\ ~Fits(s, charge) -> Answer("full", s)
       [] OTHER ->
            IF room.ok
            THEN Answer("appended",
                   Trim([room.state EXCEPT !.mark = mark, !.receipts[r] = receipt,
                           !.open[r] = [mark |-> mark, fence |-> NoFence, until |-> 0]]))
            ELSE Answer("full", room.state)

-----------------------------------------------------------------------------
(* Claims                                                                  *)

Leased(entry, now) == entry.until > now
Pending(entry) == entry.ops \ entry.done

\* Sealed batches that may be leased again.  Which of them are due depends on
\* wall clocks that may step, so any due set is considered unless forced.
Claimable(s, now) == {b \in SealedBatches(s) : ~Leased(s.sealed[b], now)}

ClaimSealed(s, b, now) ==
  [s EXCEPT !.fence = @ + 1,
            !.sealed[b].fence = s.fence + 1, !.sealed[b].until = now + LeaseTime]

Eligible(s, upTo) == {r \in OpenRecords(s) : s.open[r].fence = NoFence /\ s.open[r].mark <= upTo}

Oldest(s, rs) == CHOOSE r \in rs : \A q \in rs : s.open[r].mark <= s.open[q].mark

\* claim_open_candidate: the oldest eligible record chooses the scope and the
\* records of that scope follow in order up to the limits of one batch.
Candidate(s, upTo) ==
  LET rs == Eligible(s, upTo)
      same == {r \in rs : Scope[r] = Scope[Oldest(s, rs)]}
      before(r) == {q \in same : s.open[q].mark < s.open[r].mark}
  IN {r \in same : /\ Cardinality(before(r)) < BatchItems
                   /\ \/ before(r) = {}
                      \/ MapThenSumSet(LAMBDA q : Cost[q], before(r) \cup {r}) <= BatchBytes}

ClaimOpen(s, rs, now) ==
  [s EXCEPT !.fence = @ + 1,
            !.open = [r \in Records |->
              IF r \in rs THEN [@[r] EXCEPT !.fence = s.fence + 1, !.until = now + LeaseTime]
              ELSE @[r]]]

ReleaseCandidate(s, fence) ==
  [s EXCEPT !.open = [r \in Records |->
     IF @[r].fence = fence THEN [@[r] EXCEPT !.fence = NoFence] ELSE @[r]]]

Claimed(s, fence) == {r \in OpenRecords(s) : s.open[r].fence = fence}

\* Mutant: the encoded batch is taken whatever its size.
SealRoom_Always(s, released, retained) == TRUE

\* check_seal_capacity.
SealRoom(s, released, retained) == TotalBytes(s) - released + retained <= ByteLimit

\* Mutant: the records of a request that lands late are not looked up again.
ClaimedExactly_Unchecked(s, fence, b, ops) == b \notin SealedBatches(s) \cup LostBatches(s) /\ ops # {}

\* claimed_batch_bytes: a new identity, and every record held under the fence.
ClaimedExactly(s, fence, b, ops) ==
  b \notin SealedBatches(s) \cup LostBatches(s) /\ ops # {} /\ ops \subseteq Claimed(s, fence)

Reserved(ops) == MapThenSumSet(LAMBDA r : Cost[r], ops)

\* seal_candidate with InstallBatch.
InstallBatch(s0, fence, b, ops, size, now) ==
  LET s == ExpireOpen(s0, now)
  IN IF ~ClaimedExactly(s, fence, b, ops) THEN Answer("stale", s)
     ELSE IF ~SealRoom(s, Reserved(ops), size) THEN Answer("full", s)
     ELSE Answer("sealed",
            [ReleaseCandidate([s EXCEPT !.open = [r \in Records |->
                                 IF r \in ops THEN NotOpen ELSE @[r]]], fence)
               EXCEPT !.sealed[b] = [ops |-> ops, done |-> {}, fence |-> fence,
                                     until |-> now + LeaseTime, size |-> size]])

\* seal_candidate with QuarantineSingleton.
QuarantineSingleton(s0, fence, r, now) ==
  LET s == ExpireOpen(s0, now)
  IN IF r \notin Claimed(s, fence) THEN Answer("stale", s)
     ELSE IF ~SealRoom(s, Cost[r], Cost[r]) THEN Answer("full", s)
     ELSE Answer("quarantined",
            ReleaseCandidate([s EXCEPT !.open[r] = NotOpen, !.lost = @ \cup {r}], fence))

-----------------------------------------------------------------------------
(* Settlement                                                              *)

\* validate_lease: expiry alone ends authority.
Authority(s, b, fence, now) ==
  s.sealed[b] # NoBatch /\ s.sealed[b].fence = fence /\ Leased(s.sealed[b], now)

\* settle_batch.
SettleBatch(s, b, fence, how, done, now) ==
  LET entry == [s.sealed[b] EXCEPT !.done = @ \cup done]
      without == [s EXCEPT !.sealed[b] = NoBatch]
  IN IF ~Authority(s, b, fence, now) \/ ~(done \subseteq s.sealed[b].ops) THEN Answer("stale", s)
     ELSE Answer("settled",
            CASE how = "delivered" -> CompleteReceipts(without, entry.ops, "written")
              [] how = "queued" -> CompleteReceipts(without, entry.ops, "queued")
              [] how = "partial" ->
                   IF Pending(entry) = {} THEN CompleteReceipts(without, entry.ops, "written")
                   ELSE [s EXCEPT !.sealed[b] = entry]
              [] how = "release" -> [s EXCEPT !.sealed[b].until = 0]
              [] how = "quarantine" -> [without EXCEPT !.lostBatches[b] = entry])

=============================================================================
