---------------------------- MODULE BufferProofs ----------------------------
(***************************************************************************)
(* What the buffered-writes engine keeps and what its receipts say, for    *)
(* any number of records, batches, callers and nodes.  The argument is in  *)
(* four layers: what each retention operation does to the parts of a       *)
(* state; that it keeps the state sound and its records in one place; that *)
(* every step of the engine asks only for operations it is entitled to,    *)
(* however late they arrive; and that the admission gate counts exactly    *)
(* the submissions inside it, so that a clean drain is final.              *)
(***************************************************************************)
EXTENDS BufferProperties, TLAPS, WellFoundedInduction, FiniteSetTheorems

-----------------------------------------------------------------------------
(* What the retention state keeps                                          *)

\* The parts of a retention state.
StoreFields == {"mark", "fence", "open", "sealed", "receipts", "order", "lost", "lostBatches"}
EntryFields == {"mark", "fence", "until"}
BatchFields == {"ops", "done", "fence", "until", "size"}
ReceiptFields == {"status", "print", "mark"}

\* An open entry has a mark, a sealed batch has members: neither can be taken
\* for an absent one when its lease changes.
Shape(s) ==
  /\ DOMAIN s = StoreFields /\ s.mark \in Nat
  /\ DOMAIN s.open = Records /\ DOMAIN s.receipts = Records
  /\ DOMAIN s.sealed = Batches /\ DOMAIN s.lostBatches = Batches
  /\ \A r \in Records :
       /\ DOMAIN s.open[r] = EntryFields /\ (s.open[r] = NotOpen \/ s.open[r].mark # 0)
       /\ DOMAIN s.receipts[r] = ReceiptFields /\ s.receipts[r].mark \in Nat
  /\ \A b \in Batches :
       /\ DOMAIN s.sealed[b] = BatchFields
       /\ s.sealed[b] = NoBatch \/ s.sealed[b].ops \in (SUBSET Records) \ {{}}

\* Record r is somewhere in the state.
Held(s, r) ==
  \/ s.open[r] # NotOpen \/ r \in s.lost
  \/ \E b \in Batches : r \in s.sealed[b].ops
  \/ \E b \in Batches : r \in s.lostBatches[b].ops

\* Record r has left the buffer for good: the sink has it, or the queue has its batch.
Outside(r, B, ap, pub) == r \in ap \/ \E b \in pub : r \in B[b]

\* What every retention state satisfies when acc are the accepted operations,
\* B the membership of the batches, ap what the sink applied and pub what the
\* queue holds.
Sound(s, acc, B, ap, pub) ==
  /\ Shape(s)
  /\ \A r \in Records :
       /\ s.receipts[r].status = "written" => r \in ap
       /\ s.receipts[r].status = "queued" => \E b \in pub : r \in B[b]
       /\ r \in acc \/ s.receipts[r] # NoReceipt => Held(s, r) \/ Outside(r, B, ap, pub)
  /\ \A b \in Batches : s.sealed[b] # NoBatch =>
       /\ s.sealed[b].ops = B[b] /\ s.sealed[b].done \subseteq ap
       /\ s.lostBatches[b] = NoBatch

\* Phases of a turn that has a batch in hand.
Delivering == {"permit", "attempt", "failed", "handoff", "release", "partial", "quarantine",
               "delivered", "queued"}
TurnFields == {"pc", "by", "upTo", "force", "open", "fence", "batch", "ops", "tries", "done"}

\* What may be settled as the given disposition.
MaySettle(how, b, done, B, ap, pub) ==
  /\ b \in Batches /\ done \subseteq ap
  /\ how \in {"delivered", "partial", "quarantine", "queued", "release"}
  /\ how = "delivered" => B[b] \subseteq ap
  /\ how = "queued" => b \in pub

\* A turn with a batch still holds every member the sink has not applied.
TurnSound(t, B, ap, pub) ==
  /\ DOMAIN t = TurnFields /\ t.done \subseteq ap
  /\ t.pc \in Delivering =>
       t.batch \in Batches /\ B[t.batch] # {} /\ B[t.batch] \subseteq t.ops \cup ap
  /\ t.pc = "delivered" => B[t.batch] \subseteq ap
  /\ t.pc = "queued" => t.batch \in pub

\* A request nobody waits for is one that an engine was entitled to send.
RequestSound(q, B, ap, pub) ==
  \/ q.kind = "append" /\ DOMAIN q = {"kind", "op", "print", "node"} /\ q.op \in Records
  \/ q.kind = "claim"
  \/ q.kind = "install" /\ q.batch \in Batches /\ q.ops = B[q.batch] /\ q.ops # {}
  \/ q.kind = "isolate"
  \/ /\ q.kind = "settle" /\ B[q.batch] # {}
     /\ MaySettle(q.how, q.batch, q.done, B, ap, pub)

CallFields == {"pc", "node", "op", "print", "mark", "result"}
CallSound(a) ==
  DOMAIN a = CallFields /\ (a.pc \in {"reserve", "again", "append"} => a.op \in Records)

BufferInv ==
  /\ Sound(store, accepted, batchOps, applied, published)
  /\ accepted \subseteq Records /\ published \subseteq Batches /\ DOMAIN batchOps = Batches
  /\ DOMAIN turn = Nodes /\ \A n \in Nodes : TurnSound(turn[n], batchOps, applied, published)
  /\ DOMAIN call = Callers /\ \A c \in Callers : CallSound(call[c])
  /\ \A q \in orphans : RequestSound(q, batchOps, applied, published)
-----------------------------------------------------------------------------
(* What the operations of the retention state do to its parts              *)

\* t is s with some completed receipts forgotten.
Evicts(s, t) ==
  /\ Shape(t) /\ t.mark = s.mark /\ t.open = s.open /\ t.sealed = s.sealed
  /\ t.lost = s.lost /\ t.lostBatches = s.lostBatches
  /\ \A r \in Records :
       t.receipts[r] = s.receipts[r] \/ (Completed(s.receipts[r]) /\ t.receipts[r] = NoReceipt)

\* Eviction forgets completed receipts and nothing else.
LEMMA EvictEvicts ==
  ASSUME NEW s, Shape(s), NEW n
  PROVE  Evicts(s, Evict(s, n))
<1> DEFINE gone == {s.order[i] : i \in 1 .. n}
           order == SubSeq(s.order, n + 1, Len(s.order))
           left == [r \in Records |->
                      IF r \in gone /\ Completed(s.receipts[r]) THEN NoReceipt ELSE s.receipts[r]]
           t == [s EXCEPT !.order = order, !.receipts = left]
<1>1. Evict(s, n) = t
  BY DEF Evict
<1> HIDE DEF gone, order
<1>2. /\ DOMAIN left = Records
      /\ \A r \in Records : /\ DOMAIN left[r] = ReceiptFields /\ left[r].mark \in Nat
                            /\ \/ left[r] = s.receipts[r]
                               \/ Completed(s.receipts[r]) /\ left[r] = NoReceipt
  BY DEF Shape, NoReceipt, ReceiptFields
<1> HIDE DEF left
<1>3. /\ DOMAIN t = StoreFields /\ t.mark = s.mark /\ t.open = s.open /\ t.sealed = s.sealed
      /\ t.lost = s.lost /\ t.lostBatches = s.lostBatches /\ t.receipts = left
  BY DEF Shape, StoreFields
<1> HIDE DEF t
<1>4. Shape(t)
  BY <1>2, <1>3 DEF Shape
<1> QED
  BY <1>1, <1>2, <1>3, <1>4 DEF Evicts

\* So does trimming the receipts to their limit.
LEMMA TrimEvicts ==
  ASSUME NEW s, Shape(s)
  PROVE  Evicts(s, Trim(s))
<1>1. Evicts(s, s)
  BY DEF Evicts
<1> QED
  BY <1>1, EvictEvicts DEF Trim

\* And making room for an admission, whether it succeeds or not.
LEMMA ReclaimEvicts ==
  ASSUME NEW s, Shape(s), NEW target
  PROVE  Evicts(s, Reclaim(s, target).state)
<1> DEFINE enough == {n \in 0 .. Len(s.order) : TotalBytes(Evict(s, n)) <= target}
<1>1. Evicts(s, Evict(s, Len(s.order))) /\ Evicts(s, Evict(s, Min(enough)))
  BY EvictEvicts
<1>2. CASE enough = {}
  <2>1. Reclaim(s, target).state = Evict(s, Len(s.order))
    BY <1>2 DEF Reclaim
  <2> QED BY <1>1, <2>1
<1>3. CASE enough # {}
  <2>1. Reclaim(s, target).state = Evict(s, Min(enough))
    BY <1>3 DEF Reclaim
  <2> QED BY <1>1, <2>1
<1> QED BY <1>2, <1>3

\* t is s with the known receipts of ops completed, of which some completed
\* ones may be forgotten.
Completes(s, ops, status, t) ==
  /\ Shape(t) /\ t.mark = s.mark /\ t.open = s.open /\ t.sealed = s.sealed
  /\ t.lost = s.lost /\ t.lostBatches = s.lostBatches
  /\ \A r \in Records :
       \/ t.receipts[r] = NoReceipt /\ (r \in ops \/ Completed(s.receipts[r]) \/ s.receipts[r] = NoReceipt)
       \/ /\ r \in ops /\ s.receipts[r] # NoReceipt
          /\ t.receipts[r].status = status
       \/ (r \notin ops \/ s.receipts[r] = NoReceipt) /\ t.receipts[r] = s.receipts[r]

\* complete_batch_receipts does this.
LEMMA CompleteCompletes ==
  ASSUME NEW s, Shape(s), NEW ops, NEW status \in {"written", "queued"}
  PROVE  Completes(s, ops, status, CompleteReceipts(s, ops, status))
<1> DEFINE known == {r \in ops : s.receipts[r] # NoReceipt}
           fresh == SetToSortSeq({r \in known : ~Completed(s.receipts[r])},
                                 LAMBDA x, y : s.receipts[x].mark < s.receipts[y].mark)
           order == s.order \o fresh
           now1 == [r \in Records |->
                      IF r \in known THEN [s.receipts[r] EXCEPT !.status = status]
                      ELSE s.receipts[r]]
           m == [s EXCEPT !.order = order, !.receipts = now1]
<1>1. CompleteReceipts(s, ops, status) = Trim(m)
  BY DEF CompleteReceipts
<1>2. \A r \in Records : r \in known <=> r \in ops /\ s.receipts[r] # NoReceipt
  OBVIOUS
<1> HIDE DEF known, fresh, order
<1>3. ASSUME NEW r \in Records
      PROVE  /\ DOMAIN now1[r] = ReceiptFields /\ now1[r].mark \in Nat
             /\ IF r \in known THEN now1[r].status = status ELSE now1[r] = s.receipts[r]
  BY DEF Shape, ReceiptFields
<1>4. DOMAIN now1 = Records
  OBVIOUS
<1> HIDE DEF now1
<1>5. /\ DOMAIN m = StoreFields /\ m.mark = s.mark /\ m.open = s.open /\ m.sealed = s.sealed
      /\ m.lost = s.lost /\ m.lostBatches = s.lostBatches /\ m.receipts = now1
  BY DEF Shape, StoreFields
<1> HIDE DEF m
<1>6. Shape(m)
  BY <1>3, <1>4, <1>5 DEF Shape
<1>7. Evicts(m, Trim(m))
  BY <1>6, TrimEvicts
<1> DEFINE t == Trim(m)
<1> HIDE DEF t
<1>8. ASSUME NEW r \in Records
      PROVE  \/ t.receipts[r] = NoReceipt /\ (r \in ops \/ Completed(s.receipts[r]) \/ s.receipts[r] = NoReceipt)
             \/ r \in ops /\ s.receipts[r] # NoReceipt /\ t.receipts[r].status = status
             \/ (r \notin ops \/ s.receipts[r] = NoReceipt) /\ t.receipts[r] = s.receipts[r]
  <2>1. t.receipts[r] = now1[r] \/ (Completed(now1[r]) /\ t.receipts[r] = NoReceipt)
    BY <1>5, <1>7 DEF Evicts, t
  <2>2. CASE r \in known
    BY <1>2, <1>3, <2>1, <2>2
  <2>3. CASE r \notin known
    BY <1>2, <1>3, <2>1, <2>3
  <2> QED BY <2>2, <2>3
<1>9. Completes(s, ops, status, t)
  BY <1>5, <1>7, <1>8 DEF Evicts, Completes, t
<1> QED BY <1>1, <1>9 DEF t

\* An entry whose lease alone changes is still open.
LEMMA EntryLease ==
  ASSUME NEW e, DOMAIN e = EntryFields, e.mark # 0, NEW f, NEW u
  PROVE  /\ DOMAIN [e EXCEPT !.fence = f] = EntryFields /\ [e EXCEPT !.fence = f].mark = e.mark
         /\ DOMAIN [e EXCEPT !.fence = f, !.until = u] = EntryFields
         /\ [e EXCEPT !.fence = f, !.until = u].mark = e.mark
  BY DEF EntryFields

\* t is s with the leases of open records changed.
Releases(s, t) ==
  /\ Shape(t) /\ t.mark = s.mark /\ t.sealed = s.sealed /\ t.receipts = s.receipts
  /\ t.lost = s.lost /\ t.lostBatches = s.lostBatches
  /\ \A r \in Records : t.open[r] = NotOpen <=> s.open[r] = NotOpen

\* Replacing the open entries by entries that are open for the same records.
LEMMA ReplaceOpen ==
  ASSUME NEW s, Shape(s), NEW new, DOMAIN new = Records,
         \A r \in Records : DOMAIN new[r] = EntryFields /\ (new[r] = NotOpen \/ new[r].mark # 0),
         \A r \in Records : new[r] = NotOpen <=> s.open[r] = NotOpen
  PROVE  Releases(s, [s EXCEPT !.open = new])
<1> DEFINE t == [s EXCEPT !.open = new]
<1>1. /\ DOMAIN t = StoreFields /\ t.mark = s.mark /\ t.open = new /\ t.sealed = s.sealed
      /\ t.lost = s.lost /\ t.lostBatches = s.lostBatches /\ t.receipts = s.receipts
  BY DEF Shape, StoreFields
<1> HIDE DEF t
<1>2. Shape(t)
  BY <1>1 DEF Shape
<1> QED BY <1>1, <1>2 DEF Releases, t

\* The expiry of claims changes leases of open records only.
LEMMA ExpireReleases ==
  ASSUME NEW s, Shape(s), NEW at
  PROVE  Releases(s, ExpireOpen(s, at))
<1> DEFINE new == [r \in Records |->
                     IF s.open[r].fence # NoFence /\ s.open[r].until <= at
                     THEN [s.open[r] EXCEPT !.fence = NoFence] ELSE s.open[r]]
<1>1. ExpireOpen(s, at) = [s EXCEPT !.open = new]
  BY DEF ExpireOpen
<1>2. ASSUME NEW r \in Records
      PROVE  /\ DOMAIN new[r] = EntryFields /\ (new[r] = NotOpen \/ new[r].mark # 0)
             /\ new[r] = NotOpen <=> s.open[r] = NotOpen
  <2>1. CASE s.open[r] = NotOpen
    BY <2>1 DEF NotOpen, NoFence, EntryFields
  <2>2. CASE s.open[r] # NotOpen
    <3>1. DOMAIN s.open[r] = EntryFields /\ s.open[r].mark # 0
      BY <2>2 DEF Shape
    <3>2. DOMAIN new[r] = EntryFields /\ new[r].mark = s.open[r].mark
      BY <3>1, EntryLease
    <3> QED BY <2>2, <3>1, <3>2 DEF NotOpen
  <2> QED BY <2>1, <2>2
<1>3. DOMAIN new = Records
  OBVIOUS
<1> HIDE DEF new
<1> QED BY <1>1, <1>2, <1>3, ReplaceOpen

\* The release of a candidate, too, when no absent record carries its fence.
LEMMA ReleaseReleases ==
  ASSUME NEW s, Shape(s), NEW fence
  PROVE  Releases(s, ReleaseCandidate(s, fence))
<1> DEFINE new == [r \in Records |->
                     IF s.open[r].fence = fence THEN [s.open[r] EXCEPT !.fence = NoFence]
                     ELSE s.open[r]]
<1>1. ReleaseCandidate(s, fence) = [s EXCEPT !.open = new]
  BY DEF ReleaseCandidate
<1>2. ASSUME NEW r \in Records
      PROVE  /\ DOMAIN new[r] = EntryFields /\ (new[r] = NotOpen \/ new[r].mark # 0)
             /\ new[r] = NotOpen <=> s.open[r] = NotOpen
  <2>1. CASE s.open[r] = NotOpen
    <3>1. [NotOpen EXCEPT !.fence = NoFence] = NotOpen
      BY DEF NotOpen, NoFence
    <3>2. DOMAIN NotOpen = EntryFields
      BY DEF NotOpen, EntryFields
    <3> QED BY <2>1, <3>1, <3>2
  <2>2. CASE s.open[r] # NotOpen
    <3>1. DOMAIN s.open[r] = EntryFields /\ s.open[r].mark # 0
      BY <2>2 DEF Shape
    <3>2. DOMAIN new[r] = EntryFields /\ new[r].mark = s.open[r].mark
      BY <3>1, EntryLease
    <3> QED BY <2>2, <3>1, <3>2 DEF NotOpen
  <2> QED BY <2>1, <2>2
<1>3. DOMAIN new = Records
  OBVIOUS
<1> HIDE DEF new
<1> QED BY <1>1, <1>2, <1>3, ReplaceOpen

\* Candidates are open records.
LEMMA CandidateOpen ==
  ASSUME NEW s, NEW upTo
  PROVE  Candidate(s, upTo) \subseteq OpenRecords(s)
  BY DEF Candidate, Eligible

\* A claim of open records changes their leases only.
LEMMA ClaimOpenReleases ==
  ASSUME NEW s, Shape(s), NEW rs, rs \subseteq OpenRecords(s), NEW at
  PROVE  Releases(s, ClaimOpen(s, rs, at))
<1> DEFINE f == s.fence + 1
           u == at + LeaseTime
           new == [r \in Records |->
                     IF r \in rs THEN [s.open[r] EXCEPT !.fence = f, !.until = u] ELSE s.open[r]]
           t == [s EXCEPT !.fence = f]
<1>0. ClaimOpen(s, rs, at) = [s EXCEPT !.fence = f, !.open = new]
  BY DEF ClaimOpen
<1> HIDE DEF f, u
<1>1. ASSUME NEW r \in Records
      PROVE  /\ DOMAIN new[r] = EntryFields /\ (new[r] = NotOpen \/ new[r].mark # 0)
             /\ new[r] = NotOpen <=> s.open[r] = NotOpen
  <2>1. CASE r \notin rs
    BY <2>1 DEF Shape
  <2>2. CASE r \in rs
    <3>1. DOMAIN s.open[r] = EntryFields /\ s.open[r].mark # 0 /\ s.open[r] # NotOpen
      BY <2>2 DEF Shape, OpenRecords
    <3>2. new[r] = [s.open[r] EXCEPT !.fence = f, !.until = u]
      BY <2>2
    <3>3. DOMAIN new[r] = EntryFields /\ new[r].mark = s.open[r].mark
      BY <3>1, <3>2, EntryLease
    <3> HIDE DEF new
    <3> QED BY <3>1, <3>3 DEF NotOpen
  <2> QED BY <2>1, <2>2
<1>2. DOMAIN new = Records
  OBVIOUS
<1> HIDE DEF new
<1>4. [s EXCEPT !.fence = f, !.open = new] = [t EXCEPT !.open = new]
  BY DEF Shape, StoreFields
<1>5. /\ DOMAIN t = StoreFields /\ t.mark = s.mark /\ t.open = s.open /\ t.sealed = s.sealed
      /\ t.lost = s.lost /\ t.lostBatches = s.lostBatches /\ t.receipts = s.receipts
  BY DEF Shape, StoreFields
<1> HIDE DEF t
<1>6. Shape(t)
  BY <1>5 DEF Shape
<1>7. Releases(t, [t EXCEPT !.open = new])
  BY <1>1, <1>2, <1>5, <1>6, ReplaceOpen
<1> QED BY <1>0, <1>4, <1>5, <1>7 DEF Releases

\* t is s with batch b replaced by entry.
Reseals(s, b, entry, t) ==
  /\ DOMAIN t = StoreFields /\ t.mark = s.mark /\ t.open = s.open /\ t.receipts = s.receipts
  /\ t.lost = s.lost /\ t.lostBatches = s.lostBatches
  /\ DOMAIN t.sealed = Batches /\ t.sealed[b] = entry
  /\ \A x \in Batches \ {b} : t.sealed[x] = s.sealed[x]

\* Replacing a batch by a batch with members keeps the shape.
LEMMA ResealShape ==
  ASSUME NEW s, Shape(s), NEW b \in Batches, NEW entry, NEW t, Reseals(s, b, entry, t),
         DOMAIN entry = BatchFields, entry = NoBatch \/ entry.ops \in (SUBSET Records) \ {{}}
  PROVE  Shape(t)
<1>1. ASSUME NEW x \in Batches
      PROVE  DOMAIN t.sealed[x] = BatchFields /\ (t.sealed[x] = NoBatch \/ t.sealed[x].ops \in (SUBSET Records) \ {{}})
  <2>1. CASE x = b
    BY <2>1 DEF Reseals
  <2>2. CASE x # b
    BY <2>2 DEF Reseals, Shape
  <2> QED BY <2>1, <2>2
<1> QED
  BY <1>1 DEF Shape, Reseals

\* A claim of a sealed batch changes its lease and takes a fence.
LEMMA ClaimSealedReseals ==
  ASSUME NEW s, Shape(s), NEW b \in Batches, s.sealed[b] # NoBatch, NEW at
  PROVE  \E entry :
           /\ Reseals(s, b, entry, ClaimSealed(s, b, at))
           /\ DOMAIN entry = BatchFields /\ entry.ops = s.sealed[b].ops /\ entry.done = s.sealed[b].done
<1> DEFINE entry == [s.sealed[b] EXCEPT !.fence = s.fence + 1, !.until = at + LeaseTime]
           t == ClaimSealed(s, b, at)
<1>1. DOMAIN entry = BatchFields /\ entry.ops = s.sealed[b].ops /\ entry.done = s.sealed[b].done
  BY DEF Shape, BatchFields
<1>2. t = [s EXCEPT !.fence = s.fence + 1, !.sealed = [s.sealed EXCEPT ![b] = entry]]
  BY DEF ClaimSealed, Shape, StoreFields, BatchFields
<1> HIDE DEF entry, t
<1>3. Reseals(s, b, entry, t)
  BY <1>2 DEF Reseals, Shape, StoreFields
<1> QED BY <1>1, <1>3 DEF t

-----------------------------------------------------------------------------
(* The operations keep the state sound                                     *)

\* A record stays held when nothing but leases changes.
LEMMA HeldStays ==
  ASSUME NEW s, NEW t, NEW r \in Records, Held(s, r),
         t.open[r] = NotOpen => s.open[r] = NotOpen, t.lost = s.lost,
         \A b \in Batches : t.sealed[b].ops = s.sealed[b].ops, t.lostBatches = s.lostBatches
  PROVE  Held(t, r)
  BY DEF Held

\* Forgetting completed receipts keeps the state sound.
LEMMA EvictsSound ==
  ASSUME NEW s, NEW t, NEW acc, NEW B, NEW ap, NEW pub, Sound(s, acc, B, ap, pub), Evicts(s, t)
  PROVE  Sound(t, acc, B, ap, pub)
<1>1. Shape(t) /\ t.sealed = s.sealed /\ t.lostBatches = s.lostBatches /\ t.open = s.open /\ t.lost = s.lost
  BY DEF Evicts
<1>2. ASSUME NEW r \in Records
      PROVE  /\ t.receipts[r].status = "written" => r \in ap
             /\ t.receipts[r].status = "queued" => \E b \in pub : r \in B[b]
             /\ r \in acc \/ t.receipts[r] # NoReceipt => Held(t, r) \/ Outside(r, B, ap, pub)
  <2>1. t.receipts[r] = s.receipts[r] \/ t.receipts[r] = NoReceipt
    BY DEF Evicts
  <2>2. Held(s, r) => Held(t, r)
    BY <1>1, HeldStays
  <2> QED BY <2>1, <2>2 DEF Sound, NoReceipt
<1> QED BY <1>1, <1>2 DEF Sound

\* A change of the leases of open records keeps the state sound.
LEMMA ReleasesSound ==
  ASSUME NEW s, NEW t, NEW acc, NEW B, NEW ap, NEW pub, Sound(s, acc, B, ap, pub), Releases(s, t)
  PROVE  Sound(t, acc, B, ap, pub)
<1>1. /\ Shape(t) /\ t.sealed = s.sealed /\ t.lostBatches = s.lostBatches
      /\ t.receipts = s.receipts /\ t.lost = s.lost
  BY DEF Releases
<1>2. ASSUME NEW r \in Records
      PROVE  Held(s, r) => Held(t, r)
  <2>1. t.open[r] = NotOpen => s.open[r] = NotOpen
    BY DEF Releases
  <2> QED BY <1>1, <2>1, HeldStays
<1> QED BY <1>1, <1>2 DEF Sound

\* So does a change of one sealed batch that keeps its members and records
\* among its done operations only what the sink applied.
LEMMA ResealsSound ==
  ASSUME NEW s, NEW t, NEW acc, NEW B, NEW ap, NEW pub, Sound(s, acc, B, ap, pub),
         NEW b \in Batches, NEW entry, Reseals(s, b, entry, t), s.sealed[b] # NoBatch,
         DOMAIN entry = BatchFields, entry.ops = s.sealed[b].ops, entry.done \subseteq ap
  PROVE  Sound(t, acc, B, ap, pub)
<1>1. entry.ops \in (SUBSET Records) \ {{}}
  BY DEF Sound, Shape
<1>2. Shape(t)
  BY <1>1, ResealShape DEF Sound
<1>3. /\ t.open = s.open /\ t.receipts = s.receipts /\ t.lost = s.lost /\ t.lostBatches = s.lostBatches
      /\ t.sealed[b] = entry /\ \A x \in Batches \ {b} : t.sealed[x] = s.sealed[x]
  BY DEF Reseals
<1>4. \A x \in Batches : t.sealed[x].ops = s.sealed[x].ops
  BY <1>3
<1>5. ASSUME NEW r \in Records
      PROVE  Held(s, r) => Held(t, r)
  BY <1>3, <1>4, HeldStays
<1>6. ASSUME NEW x \in Batches, t.sealed[x] # NoBatch
      PROVE  /\ t.sealed[x].ops = B[x] /\ t.sealed[x].done \subseteq ap
             /\ t.lostBatches[x] = NoBatch
  <2>1. CASE x = b
    BY <1>3, <2>1 DEF Sound
  <2>2. CASE x # b
    BY <1>3, <1>6, <2>2 DEF Sound
  <2> QED BY <2>1, <2>2
<1> QED BY <1>2, <1>3, <1>5, <1>6 DEF Sound

\* A batch whose members are all outside may be removed and its receipts
\* completed.
LEMMA CompleteSound ==
  ASSUME NEW s, NEW acc, NEW B, NEW ap, NEW pub, Sound(s, acc, B, ap, pub),
         NEW b \in Batches, s.sealed[b] # NoBatch, NEW status \in {"written", "queued"},
         status = "written" => B[b] \subseteq ap, status = "queued" => b \in pub
  PROVE  Sound(CompleteReceipts([s EXCEPT !.sealed[b] = NoBatch], s.sealed[b].ops, status),
               acc, B, ap, pub)
<1> DEFINE m == [s EXCEPT !.sealed[b] = NoBatch]
           ops == s.sealed[b].ops
           t == CompleteReceipts(m, ops, status)
<1>1. Shape(s) /\ ops = B[b]
  BY DEF Sound
<1>2. Reseals(s, b, NoBatch, m)
  BY <1>1 DEF Reseals, Shape, StoreFields
<1>3. DOMAIN NoBatch = BatchFields /\ NoBatch.ops = {}
  BY DEF NoBatch, BatchFields
<1>4. Shape(m)
  BY <1>1, <1>2, <1>3, ResealShape
<1> HIDE DEF m, ops
<1>5. Completes(m, ops, status, t)
  BY <1>4, CompleteCompletes
<1> HIDE DEF t
<1>6. /\ Shape(t) /\ t.open = s.open /\ t.lost = s.lost /\ t.lostBatches = s.lostBatches
      /\ t.sealed[b] = NoBatch /\ \A x \in Batches \ {b} : t.sealed[x] = s.sealed[x]
  BY <1>2, <1>5 DEF Completes, Reseals
<1>7. ASSUME NEW r \in Records
      PROVE  /\ t.receipts[r].status = "written" => r \in ap
             /\ t.receipts[r].status = "queued" => \E x \in pub : r \in B[x]
             /\ r \in acc \/ t.receipts[r] # NoReceipt => Held(t, r) \/ Outside(r, B, ap, pub)
  <2>1. \/ t.receipts[r] = NoReceipt
        \/ r \in ops /\ s.receipts[r] # NoReceipt /\ t.receipts[r].status = status
        \/ t.receipts[r] = s.receipts[r]
    BY <1>2, <1>5 DEF Completes, Reseals
  <2>2. CASE r \in ops
    <3>1. status = "written" => r \in ap
      BY <1>1, <2>2
    <3>2. status = "queued" => \E x \in pub : r \in B[x]
      BY <1>1, <2>2
    <3>3. Outside(r, B, ap, pub)
      BY <3>1, <3>2 DEF Outside
    <3> QED BY <2>1, <3>1, <3>2, <3>3 DEF Sound, NoReceipt
  <2>3. CASE r \notin ops
    <3>1. Held(s, r) => Held(t, r)
      BY <1>6, <2>3 DEF Held, ops
    <3> QED BY <2>1, <2>3, <3>1 DEF Sound, NoReceipt
  <2> QED BY <2>2, <2>3
<1>8. ASSUME NEW x \in Batches, t.sealed[x] # NoBatch
      PROVE  /\ t.sealed[x].ops = B[x] /\ t.sealed[x].done \subseteq ap
             /\ t.lostBatches[x] = NoBatch
  BY <1>6, <1>8 DEF Sound
<1> QED BY <1>6, <1>7, <1>8 DEF Sound, t, m, ops

\* A set of numbers that is not empty has a least one.
LEMMA LeastNat ==
  ASSUME NEW S \in SUBSET Nat, S # {}
  PROVE  \E x \in S : \A y \in S : x <= y
<1> DEFINE R == OpToRel(<, Nat)
<1>1. IsWellFoundedOn(R, Nat)
  BY NatLessThanWellFounded
<1>2. \A x, y \in Nat : x < y => <<x, y>> \in R
  BY DEF OpToRel
<1> HIDE DEF R
<1>3. PICK x \in S : \A y \in S : ~(<<y, x>> \in R)
  BY <1>1, WFMin
<1>4. ASSUME NEW y \in S PROVE x <= y
  <2>1. ~(y < x)
    BY <1>2, <1>3
  <2> QED BY <2>1
<1> QED
  BY <1>4

\* t is s with record r open under the receipt.
Opens(s, r, receipt, t) ==
  /\ Shape(t) /\ t.sealed = s.sealed /\ t.lost = s.lost /\ t.lostBatches = s.lostBatches
  /\ t.open[r] # NotOpen /\ \A q \in Records \ {r} : t.open[q] = s.open[q]
  /\ t.receipts[r] = receipt /\ \A q \in Records \ {r} : t.receipts[q] = s.receipts[q]

\* An admission opens the record under the next mark.
LEMMA OpenShape ==
  ASSUME NEW s, Shape(s), NEW r \in Records,
         NEW receipt, DOMAIN receipt = ReceiptFields, receipt.mark \in Nat,
         NEW mark \in Nat, mark # 0
  PROVE  Opens(s, r, receipt, [s EXCEPT !.mark = mark, !.receipts[r] = receipt,
                                        !.open[r] = [mark |-> mark, fence |-> NoFence, until |-> 0]])
<1> DEFINE entry == [mark |-> mark, fence |-> NoFence, until |-> 0]
           t == [s EXCEPT !.mark = mark, !.receipts[r] = receipt, !.open[r] = entry]
<1>1. DOMAIN entry = EntryFields /\ entry.mark # 0 /\ entry # NotOpen
  BY DEF EntryFields, NotOpen
<1> HIDE DEF entry
<1>2. /\ DOMAIN t = StoreFields /\ t.mark = mark /\ t.sealed = s.sealed
      /\ t.lost = s.lost /\ t.lostBatches = s.lostBatches
      /\ DOMAIN t.open = Records /\ t.open[r] = entry
      /\ \A q \in Records \ {r} : t.open[q] = s.open[q]
      /\ DOMAIN t.receipts = Records /\ t.receipts[r] = receipt
      /\ \A q \in Records \ {r} : t.receipts[q] = s.receipts[q]
  BY DEF Shape, StoreFields
<1> HIDE DEF t
<1>3. ASSUME NEW q \in Records
      PROVE  /\ DOMAIN t.open[q] = EntryFields /\ (t.open[q] = NotOpen \/ t.open[q].mark # 0)
             /\ DOMAIN t.receipts[q] = ReceiptFields /\ t.receipts[q].mark \in Nat
  <2>1. CASE q = r
    BY <1>1, <1>2, <2>1
  <2>2. CASE q # r
    BY <1>2, <2>2 DEF Shape
  <2> QED BY <2>1, <2>2
<1>4. Shape(t)
  BY <1>2, <1>3 DEF Shape
<1> QED BY <1>1, <1>2, <1>4 DEF Opens, t, entry

\* It keeps the state sound, and the record may be counted as accepted.
LEMMA OpenSound ==
  ASSUME NEW s, NEW acc, NEW B, NEW ap, NEW pub, Sound(s, acc, B, ap, pub), NEW r \in Records,
         NEW receipt, DOMAIN receipt = ReceiptFields, receipt.mark \in Nat,
         receipt.status = "buffered", NEW mark \in Nat, mark # 0
  PROVE  Sound([s EXCEPT !.mark = mark, !.receipts[r] = receipt,
                         !.open[r] = [mark |-> mark, fence |-> NoFence, until |-> 0]],
               acc \cup {r}, B, ap, pub)
<1> DEFINE t == [s EXCEPT !.mark = mark, !.receipts[r] = receipt,
                          !.open[r] = [mark |-> mark, fence |-> NoFence, until |-> 0]]
<1>1. Shape(s)
  BY DEF Sound
<1>0. Opens(s, r, receipt, t)
  BY <1>1, OpenShape
<1> HIDE DEF t
<1>2. /\ Shape(t) /\ t.sealed = s.sealed /\ t.lost = s.lost /\ t.lostBatches = s.lostBatches
      /\ t.open[r] # NotOpen /\ \A q \in Records \ {r} : t.open[q] = s.open[q]
      /\ t.receipts[r] = receipt /\ \A q \in Records \ {r} : t.receipts[q] = s.receipts[q]
  BY <1>0 DEF Opens
<1>3. ASSUME NEW q \in Records
      PROVE  /\ t.receipts[q].status = "written" => q \in ap
             /\ t.receipts[q].status = "queued" => \E b \in pub : q \in B[b]
             /\ q \in acc \cup {r} \/ t.receipts[q] # NoReceipt => Held(t, q) \/ Outside(q, B, ap, pub)
  <2>1. CASE q = r
    <3>1. Held(t, q)
      BY <1>2, <2>1 DEF Held
    <3> QED BY <1>2, <2>1, <3>1
  <2>2. CASE q # r
    <3>1. Held(s, q) => Held(t, q)
      BY <1>2, <2>2, HeldStays
    <3> QED BY <1>2, <2>2, <3>1 DEF Sound
  <2> QED BY <2>1, <2>2
<1> QED BY <1>2, <1>3 DEF Sound, t

\* append_record keeps the state sound, and what it calls appended may be
\* counted as accepted.
LEMMA AppendSound ==
  ASSUME NEW s, NEW acc, NEW B, NEW ap, NEW pub, Sound(s, acc, B, ap, pub),
         NEW r \in Records, NEW print
  PROVE  LET a == AppendRecord(s, r, print)
         IN /\ Sound(a.state, acc, B, ap, pub)
            /\ a.result = "appended" => Sound(a.state, acc \cup {r}, B, ap, pub)
<1> DEFINE a == AppendRecord(s, r, print)
           charge == Cost[r] + ReceiptCost
           room == Reclaim(s, ByteLimit - charge)
           mark == s.mark + 1
           receipt == [status |-> "buffered", print |-> print, mark |-> mark]
           new == [room.state EXCEPT !.mark = mark, !.receipts[r] = receipt,
                           !.open[r] = [mark |-> mark, fence |-> NoFence, until |-> 0]]
<1>1. Shape(s) /\ mark \in Nat /\ mark # 0
  BY DEF Sound, Shape
<1>2. \/ s.receipts[r] # NoReceipt /\ a = Answer(IF s.receipts[r].print = print THEN "appended" ELSE "conflict", s)
      \/ a = Answer("oversized", s)
      \/ a = Answer("full", s)
      \/ a = Answer("appended", Trim(new))
      \/ a = Answer("full", room.state)
  BY DEF AppendRecord
<1>3. Sound(room.state, acc, B, ap, pub)
  BY <1>1, ReclaimEvicts, EvictsSound
<1>4. DOMAIN receipt = ReceiptFields /\ receipt.mark \in Nat /\ receipt.status = "buffered"
  BY <1>1 DEF ReceiptFields
<1> HIDE DEF a, charge, room, mark, receipt
<1>5. Sound(new, acc \cup {r}, B, ap, pub)
  BY <1>1, <1>3, <1>4, OpenSound
<1> HIDE DEF new
<1>6. Sound(Trim(new), acc \cup {r}, B, ap, pub)
  <2>1. Evicts(new, Trim(new))
    BY <1>5, TrimEvicts DEF Sound
  <2> QED BY <1>5, <2>1, EvictsSound
<1>7. ASSUME NEW t, Sound(t, acc \cup {r}, B, ap, pub)
      PROVE  Sound(t, acc, B, ap, pub)
  BY <1>7 DEF Sound
<1>8. ASSUME s.receipts[r] # NoReceipt
      PROVE  Sound(s, acc \cup {r}, B, ap, pub)
  BY <1>8 DEF Sound
<1>9. a.state \in {s, Trim(new), room.state} /\ (a.result = "appended" => a.state = Trim(new) \/ (a.state = s /\ s.receipts[r] # NoReceipt))
  BY <1>2 DEF Answer
<1>10. /\ Sound(a.state, acc, B, ap, pub)
       /\ a.result = "appended" => Sound(a.state, acc \cup {r}, B, ap, pub)
  BY <1>3, <1>6, <1>7, <1>8, <1>9
<1> QED BY <1>10 DEF a

\* The oldest member of a sealed batch has a mark.
LEMMA FirstItemType ==
  ASSUME NEW s, Shape(s), NEW b \in Batches, s.sealed[b] # NoBatch
  PROVE  FirstItem(s, b) \in Nat
<1> DEFINE S == {s.receipts[r].mark : r \in s.sealed[b].ops}
<1>0. s.sealed[b].ops \in (SUBSET Records) \ {{}} /\ \A r \in Records : s.receipts[r].mark \in Nat
  BY DEF Shape
<1>1. S \in SUBSET Nat /\ S # {}
  BY <1>0
<1> HIDE DEF S
<1>2. \E x \in S : \A y \in S : x <= y
  BY <1>1, LeastNat
<1>3. Min(S) \in S
  BY <1>2 DEF Min
<1> QED BY <1>1, <1>3 DEF FirstItem, S

\* Of a set of sealed batches with members claim_work takes one.
LEMMA OldestDue ==
  ASSUME NEW s, Shape(s), NEW due, due \subseteq SealedBatches(s), due # {}
  PROVE  (CHOOSE x \in due : \A y \in due : FirstItem(s, x) <= FirstItem(s, y)) \in due
<1> DEFINE S == {FirstItem(s, x) : x \in due}
<1>1. S \in SUBSET Nat /\ S # {}
  BY FirstItemType DEF SealedBatches
<1>2. \A x \in due : FirstItem(s, x) \in S
  OBVIOUS
<1>3. \A z \in S : \E x \in due : z = FirstItem(s, x)
  OBVIOUS
<1> HIDE DEF S
<1>4. PICK z \in S : \A y \in S : z <= y
  BY <1>1, LeastNat
<1>5. \E x \in due : \A y \in due : FirstItem(s, x) <= FirstItem(s, y)
  BY <1>2, <1>3, <1>4
<1> QED BY <1>5

\* claim_work keeps the state sound; a sealed batch it hands out is a sealed
\* batch of the state it returns.
LEMMA ClaimSound ==
  ASSUME NEW s, NEW acc, NEW B, NEW ap, NEW pub, Sound(s, acc, B, ap, pub),
         NEW due, due \subseteq SealedBatches(s), NEW open, NEW upTo, NEW at
  PROVE  LET a == ClaimWork(s, due, open, upTo, at)
         IN /\ Sound(a.state, acc, B, ap, pub)
            /\ a.result[1] \in {"sealed", "open", "none"}
            /\ a.result[1] = "sealed" =>
                 a.result[2] \in Batches /\ a.state.sealed[a.result[2]] # NoBatch
<1> DEFINE a == ClaimWork(s, due, open, upTo, at)
           e == ExpireOpen(s, at)
           b == CHOOSE x \in due : \A y \in due : FirstItem(e, x) <= FirstItem(e, y)
           rs == Candidate(e, upTo)
<1>1. Releases(s, e)
  BY ExpireReleases DEF Sound
<1>2. Sound(e, acc, B, ap, pub) /\ Shape(e) /\ due \subseteq SealedBatches(e)
  <2>1. Sound(e, acc, B, ap, pub)
    BY <1>1, ReleasesSound
  <2>2. e.sealed = s.sealed
    BY <1>1 DEF Releases
  <2> QED BY <2>1, <2>2 DEF SealedBatches, Sound
<1>3. due # {} => b \in due
  BY <1>2, OldestDue
<1>4. \/ due # {} /\ a.result = <<"sealed", b>> /\ a.state = ClaimSealed(e, b, at)
      \/ due = {} /\ a.result = <<"open", 0>> /\ a.state = ClaimOpen(e, rs, at)
      \/ due = {} /\ a.result = <<"none", 0>> /\ a.state = e
  <2>1. CASE due # {}
    BY <2>1 DEF ClaimWork, Answer
  <2>2. CASE due = {} /\ open /\ Eligible(e, upTo) # {}
    BY <2>2 DEF ClaimWork, Answer
  <2>3. CASE due = {} /\ ~(open /\ Eligible(e, upTo) # {})
    BY <2>3 DEF ClaimWork, Answer
  <2> QED BY <2>1, <2>2, <2>3
<1>5. rs \subseteq OpenRecords(e)
  BY CandidateOpen
<1> HIDE DEF a, e, b, rs
<1>6. Sound(ClaimOpen(e, rs, at), acc, B, ap, pub)
  BY <1>2, <1>5, ClaimOpenReleases, ReleasesSound
<1>7. ASSUME due # {}
      PROVE  b \in Batches /\ Sound(ClaimSealed(e, b, at), acc, B, ap, pub) /\ ClaimSealed(e, b, at).sealed[b] # NoBatch
  <2>1. b \in Batches /\ e.sealed[b] # NoBatch
    BY <1>2, <1>3, <1>7 DEF SealedBatches
  <2>2. PICK entry : /\ Reseals(e, b, entry, ClaimSealed(e, b, at))
                     /\ DOMAIN entry = BatchFields /\ entry.ops = e.sealed[b].ops
                     /\ entry.done = e.sealed[b].done
    BY <1>2, <2>1, ClaimSealedReseals
  <2>3. entry.done \subseteq ap /\ entry.ops # {}
    <3>1. e.sealed[b].ops \in (SUBSET Records) \ {{}}
      BY <1>2, <2>1 DEF Shape
    <3>2. e.sealed[b].done \subseteq ap
      BY <1>2, <2>1 DEF Sound
    <3> QED BY <2>2, <3>1, <3>2
  <2>4. Sound(ClaimSealed(e, b, at), acc, B, ap, pub)
    BY <1>2, <2>1, <2>2, <2>3, ResealsSound
  <2>5. ClaimSealed(e, b, at).sealed[b] = entry
    BY <2>2 DEF Reseals
  <2> QED BY <2>1, <2>3, <2>4, <2>5 DEF NoBatch
<1>8. /\ Sound(a.state, acc, B, ap, pub)
      /\ a.result[1] \in {"sealed", "open", "none"}
      /\ a.result[1] = "sealed" => a.result[2] \in Batches /\ a.state.sealed[a.result[2]] # NoBatch
  BY <1>2, <1>4, <1>6, <1>7
<1> QED BY <1>8 DEF a

\* The expiry of claims keeps the state sound.
LEMMA ExpireSound ==
  ASSUME NEW s, NEW acc, NEW B, NEW ap, NEW pub, Sound(s, acc, B, ap, pub), NEW at
  PROVE  Sound(ExpireOpen(s, at), acc, B, ap, pub) /\ Shape(ExpireOpen(s, at))
<1>1. Shape(s)
  BY DEF Sound
<1>2. Releases(s, ExpireOpen(s, at))
  BY <1>1, ExpireReleases
<1>3. Sound(ExpireOpen(s, at), acc, B, ap, pub)
  BY <1>2, ReleasesSound
<1> QED BY <1>3 DEF Sound

\* t is s with the open records ops moved into the new batch b.
Installs(s, b, ops, t) ==
  /\ Shape(t) /\ t.receipts = s.receipts /\ t.lost = s.lost /\ t.lostBatches = s.lostBatches
  /\ s.sealed[b] = NoBatch /\ s.lostBatches[b] = NoBatch /\ \A r \in ops : s.open[r] # NotOpen
  /\ t.sealed[b].ops = ops /\ t.sealed[b].done = {}
  /\ \A x \in Batches \ {b} : t.sealed[x] = s.sealed[x]
  /\ \A r \in Records : t.open[r] = NotOpen <=> r \in ops \/ s.open[r] = NotOpen

\* seal_candidate with InstallBatch does this or nothing, after the expiry.
LEMMA InstallInstalls ==
  ASSUME NEW s, Shape(s), NEW fence, NEW b \in Batches, NEW ops, NEW size, NEW at
  PROVE  LET e == ExpireOpen(s, at)
             t == InstallBatch(s, fence, b, ops, size, at).state
         IN t = e \/ Installs(e, b, ops, t)
<1> DEFINE e == ExpireOpen(s, at)
           left == [r \in Records |-> IF r \in ops THEN NotOpen ELSE e.open[r]]
           m == [e EXCEPT !.open = left]
           w == ReleaseCandidate(m, fence)
           until == at + LeaseTime
           entry == [ops |-> ops, done |-> {}, fence |-> fence, until |-> until, size |-> size]
           t == [w EXCEPT !.sealed[b] = entry]
<1>1. Shape(e)
  BY ExpireReleases DEF Releases
<1>2. CASE ~ClaimedExactly(e, fence, b, ops) \/ ~SealRoom(e, Reserved(ops), size)
  BY <1>2 DEF InstallBatch, Answer
<1>3. CASE ClaimedExactly(e, fence, b, ops) /\ SealRoom(e, Reserved(ops), size)
  <2>1. InstallBatch(s, fence, b, ops, size, at).state = t
    BY <1>3 DEF InstallBatch, Answer
  <2>2. /\ ops # {} /\ ops \subseteq Records /\ e.sealed[b] = NoBatch /\ e.lostBatches[b] = NoBatch
        /\ \A r \in ops : e.open[r] # NotOpen
    BY <1>3 DEF ClaimedExactly, Claimed, OpenRecords, SealedBatches, LostBatches
  <2>3. /\ DOMAIN left = Records
        /\ \A r \in Records :
             /\ DOMAIN left[r] = EntryFields /\ (left[r] = NotOpen \/ left[r].mark # 0)
             /\ left[r] = NotOpen <=> r \in ops \/ e.open[r] = NotOpen
    BY <1>1 DEF Shape, NotOpen, EntryFields
  <2>4. DOMAIN entry = BatchFields /\ entry.ops = ops /\ entry.done = {}
    BY DEF BatchFields
  <2> HIDE DEF e, left, entry, until
  <2>5. /\ DOMAIN m = StoreFields /\ m.mark = e.mark /\ m.open = left /\ m.sealed = e.sealed
        /\ m.lost = e.lost /\ m.lostBatches = e.lostBatches /\ m.receipts = e.receipts
    BY <1>1 DEF Shape, StoreFields
  <2> HIDE DEF m
  <2>6. Shape(m)
    BY <1>1, <2>3, <2>5 DEF Shape
  <2>7. Releases(m, w)
    BY <2>6, ReleaseReleases
  <2> HIDE DEF w
  <2>8. Shape(w)
    BY <2>7 DEF Releases
  <2>9. Reseals(w, b, entry, t)
    BY <2>8 DEF Reseals, Shape, StoreFields
  <2> HIDE DEF t
  <2>10. Shape(t)
    BY <2>2, <2>4, <2>8, <2>9, ResealShape
  <2>11. /\ t.receipts = e.receipts /\ t.lost = e.lost /\ t.lostBatches = e.lostBatches
         /\ t.sealed[b] = entry /\ \A x \in Batches \ {b} : t.sealed[x] = e.sealed[x]
         /\ \A r \in Records : t.open[r] = NotOpen <=> r \in ops \/ e.open[r] = NotOpen
    BY <2>3, <2>5, <2>7, <2>9 DEF Releases, Reseals
  <2>12. Installs(e, b, ops, t)
    BY <2>2, <2>4, <2>10, <2>11 DEF Installs
  <2> QED BY <2>1, <2>12 DEF e
<1> QED BY <1>2, <1>3

\* So it keeps the state sound when it installs the members the batch was
\* prepared with.
LEMMA InstallSound ==
  ASSUME NEW s, NEW acc, NEW B, NEW ap, NEW pub, Sound(s, acc, B, ap, pub),
         NEW fence, NEW b \in Batches, NEW ops, ops = B[b], NEW size, NEW at
  PROVE  Sound(InstallBatch(s, fence, b, ops, size, at).state, acc, B, ap, pub)
<1> DEFINE e == ExpireOpen(s, at)
           t == InstallBatch(s, fence, b, ops, size, at).state
<1>1. Sound(e, acc, B, ap, pub)
  BY ExpireSound
<1>2. t = e \/ Installs(e, b, ops, t)
  BY InstallInstalls DEF Sound
<1> HIDE DEF e, t
<1>3. ASSUME Installs(e, b, ops, t)
      PROVE  Sound(t, acc, B, ap, pub)
  <2>1. ASSUME NEW r \in Records, Held(e, r)
        PROVE  Held(t, r)
    <3>1. CASE e.open[r] # NotOpen
      BY <1>3, <3>1 DEF Held, Installs
    <3>2. CASE r \in e.lost \/ \E x \in Batches : r \in e.lostBatches[x].ops
      BY <1>3, <3>2 DEF Held, Installs
    <3>3. CASE \E x \in Batches : r \in e.sealed[x].ops
      <4>1. PICK x \in Batches : r \in e.sealed[x].ops
        BY <3>3
      <4>2. x # b
        BY <1>3, <4>1 DEF NoBatch, Installs
      <4> QED BY <1>3, <4>1, <4>2 DEF Held, Installs
    <3> QED BY <2>1, <3>1, <3>2, <3>3 DEF Held
  <2>2. ASSUME NEW x \in Batches, t.sealed[x] # NoBatch
        PROVE  /\ t.sealed[x].ops = B[x] /\ t.sealed[x].done \subseteq ap
               /\ t.lostBatches[x] = NoBatch
    <3>1. CASE x = b
      BY <1>3, <3>1 DEF Installs
    <3>2. CASE x # b
      BY <1>1, <1>3, <2>2, <3>2 DEF Sound, Installs
    <3> QED BY <3>1, <3>2
  <2> QED BY <1>1, <1>3, <2>1, <2>2 DEF Sound, Installs
<1> QED BY <1>1, <1>2, <1>3 DEF t

\* t is s with the open record r moved to quarantine.
Isolates(s, r, t) ==
  /\ Shape(t) /\ t.receipts = s.receipts /\ t.sealed = s.sealed /\ t.lostBatches = s.lostBatches
  /\ r \in Records /\ s.open[r] # NotOpen /\ t.lost = s.lost \cup {r}
  /\ \A q \in Records : t.open[q] = NotOpen <=> q = r \/ s.open[q] = NotOpen

\* seal_candidate with QuarantineSingleton does this or nothing.
LEMMA IsolateIsolates ==
  ASSUME NEW s, Shape(s), NEW fence, NEW r, NEW at
  PROVE  LET e == ExpireOpen(s, at)
             t == QuarantineSingleton(s, fence, r, at).state
         IN t = e \/ Isolates(e, r, t)
<1> DEFINE e == ExpireOpen(s, at)
           m == [e EXCEPT !.open[r] = NotOpen, !.lost = e.lost \cup {r}]
           w == ReleaseCandidate(m, fence)
<1>1. Shape(e)
  BY ExpireReleases DEF Releases
<1>2. CASE r \notin Claimed(e, fence) \/ ~SealRoom(e, Cost[r], Cost[r])
  BY <1>2 DEF QuarantineSingleton, Answer
<1>3. CASE r \in Claimed(e, fence) /\ SealRoom(e, Cost[r], Cost[r])
  <2>1. QuarantineSingleton(s, fence, r, at).state = w
    BY <1>3 DEF QuarantineSingleton, Answer
  <2>2. r \in Records /\ e.open[r] # NotOpen
    BY <1>3 DEF Claimed, OpenRecords
  <2> HIDE DEF e
  <2>3. /\ DOMAIN m = StoreFields /\ m.mark = e.mark /\ m.sealed = e.sealed
        /\ m.lost = e.lost \cup {r} /\ m.lostBatches = e.lostBatches /\ m.receipts = e.receipts
        /\ DOMAIN m.open = Records /\ m.open[r] = NotOpen
        /\ \A q \in Records \ {r} : m.open[q] = e.open[q]
    BY <1>1, <2>2 DEF Shape, StoreFields
  <2> HIDE DEF m
  <2>4. ASSUME NEW q \in Records
        PROVE  DOMAIN m.open[q] = EntryFields /\ (m.open[q] = NotOpen \/ m.open[q].mark # 0)
    <3>1. CASE q = r
      BY <2>3, <3>1 DEF NotOpen, EntryFields
    <3>2. CASE q # r
      BY <1>1, <2>3, <3>2 DEF Shape
    <3> QED BY <3>1, <3>2
  <2>5. Shape(m)
    BY <1>1, <2>3, <2>4 DEF Shape
  <2>6. Releases(m, w)
    BY <2>5, ReleaseReleases
  <2> HIDE DEF w
  <2>7. Isolates(e, r, w)
    BY <2>2, <2>3, <2>6 DEF Releases, Isolates
  <2> QED BY <2>1, <2>7 DEF e
<1> QED BY <1>2, <1>3

\* So it keeps the state sound.
LEMMA IsolateSound ==
  ASSUME NEW s, NEW acc, NEW B, NEW ap, NEW pub, Sound(s, acc, B, ap, pub),
         NEW fence, NEW r, NEW at
  PROVE  Sound(QuarantineSingleton(s, fence, r, at).state, acc, B, ap, pub)
<1> DEFINE e == ExpireOpen(s, at)
           t == QuarantineSingleton(s, fence, r, at).state
<1>1. Sound(e, acc, B, ap, pub)
  BY ExpireSound
<1>2. t = e \/ Isolates(e, r, t)
  BY IsolateIsolates DEF Sound
<1> HIDE DEF e, t
<1>3. ASSUME Isolates(e, r, t)
      PROVE  Sound(t, acc, B, ap, pub)
  <2>1. ASSUME NEW q \in Records, Held(e, q)
        PROVE  Held(t, q)
    BY <1>3, <2>1 DEF Held, Isolates
  <2> QED BY <1>1, <1>3, <2>1 DEF Sound, Isolates
<1> QED BY <1>1, <1>2, <1>3 DEF t

\* t is s with the sealed batch b moved to quarantine.
SetsAside(s, b, t) ==
  /\ Shape(t) /\ t.open = s.open /\ t.receipts = s.receipts /\ t.lost = s.lost
  /\ t.sealed[b] = NoBatch /\ \A x \in Batches \ {b} : t.sealed[x] = s.sealed[x]
  /\ t.lostBatches[b].ops = s.sealed[b].ops
  /\ \A x \in Batches \ {b} : t.lostBatches[x] = s.lostBatches[x]

\* What a settlement makes of a state: nothing, a completed batch, a batch with
\* another lease or more operations done, or a batch in quarantine.
Settles(s, b, how, done, t) ==
  \/ t = s
  \/ /\ s.sealed[b] # NoBatch
     /\ \E status \in {"written", "queued"} :
          /\ t = CompleteReceipts([s EXCEPT !.sealed[b] = NoBatch], s.sealed[b].ops, status)
          /\ status = "queued" => how = "queued"
          /\ status = "written" => how = "delivered" \/ s.sealed[b].ops \subseteq s.sealed[b].done \cup done
  \/ /\ s.sealed[b] # NoBatch
     /\ \E entry : /\ Reseals(s, b, entry, t) /\ DOMAIN entry = BatchFields
                   /\ entry.ops = s.sealed[b].ops /\ entry.done \subseteq s.sealed[b].done \cup done
  \/ s.sealed[b] # NoBatch /\ SetsAside(s, b, t)

\* settle_batch does one of these.
LEMMA SettleSettles ==
  ASSUME NEW s, Shape(s), NEW b \in Batches, NEW fence, NEW done, NEW at,
         NEW how \in {"delivered", "partial", "quarantine", "queued", "release"}
  PROVE  Settles(s, b, how, done, SettleBatch(s, b, fence, how, done, at).state)
<1> DEFINE entry == [s.sealed[b] EXCEPT !.done = s.sealed[b].done \cup done]
           freed == [s.sealed[b] EXCEPT !.until = 0]
           without == [s EXCEPT !.sealed[b] = NoBatch]
           t == SettleBatch(s, b, fence, how, done, at).state
<1>1. CASE ~Authority(s, b, fence, at) \/ ~(done \subseteq s.sealed[b].ops)
  BY <1>1 DEF SettleBatch, Answer, Settles
<1>2. CASE Authority(s, b, fence, at) /\ done \subseteq s.sealed[b].ops
  <2>1. s.sealed[b] # NoBatch
    BY <1>2 DEF Authority
  <2>2. /\ DOMAIN entry = BatchFields /\ entry.ops = s.sealed[b].ops
        /\ entry.done = s.sealed[b].done \cup done
        /\ DOMAIN freed = BatchFields /\ freed.ops = s.sealed[b].ops /\ freed.done = s.sealed[b].done
    BY DEF Shape, BatchFields
  <2>3. /\ how = "delivered" => t = CompleteReceipts(without, entry.ops, "written")
        /\ how = "queued" => t = CompleteReceipts(without, entry.ops, "queued")
        /\ how = "partial" => t = IF Pending(entry) = {} THEN CompleteReceipts(without, entry.ops, "written")
                                  ELSE [s EXCEPT !.sealed[b] = entry]
        /\ how = "release" => t = [s EXCEPT !.sealed[b].until = 0]
        /\ how = "quarantine" => t = [without EXCEPT !.lostBatches[b] = entry]
    BY <1>2 DEF SettleBatch, Answer
  <2> HIDE DEF entry, freed, t
  <2>4. CASE how = "delivered"
    BY <2>1, <2>2, <2>3, <2>4 DEF Settles, t
  <2>5. CASE how = "queued"
    BY <2>1, <2>2, <2>3, <2>5 DEF Settles, t
  <2>6. CASE how = "partial" /\ Pending(entry) = {}
    <3>1. s.sealed[b].ops \subseteq s.sealed[b].done \cup done
      BY <2>2, <2>6 DEF Pending
    <3> QED BY <2>1, <2>2, <2>3, <2>6, <3>1 DEF Settles, t
  <2>7. CASE how = "partial" /\ Pending(entry) # {}
    <3>1. Reseals(s, b, entry, [s EXCEPT !.sealed[b] = entry])
      BY DEF Reseals, Shape, StoreFields
    <3> QED BY <2>1, <2>2, <2>3, <2>7, <3>1 DEF Settles, t
  <2>8. CASE how = "release"
    <3>1. [s EXCEPT !.sealed[b].until = 0] = [s EXCEPT !.sealed[b] = freed]
      BY DEF freed, Shape, StoreFields, BatchFields
    <3>2. Reseals(s, b, freed, [s EXCEPT !.sealed[b] = freed])
      BY DEF Reseals, Shape, StoreFields
    <3>3. Reseals(s, b, freed, t)
      BY <2>3, <2>8, <3>1, <3>2
    <3> QED BY <2>1, <2>2, <3>3 DEF Settles, t
  <2>9. CASE how = "quarantine"
    <3>1. t = [without EXCEPT !.lostBatches[b] = entry]
      BY <2>3, <2>9
    <3>2. Reseals(s, b, NoBatch, without)
      BY DEF Reseals, Shape, StoreFields
    <3>3. DOMAIN NoBatch = BatchFields
      BY DEF NoBatch, BatchFields
    <3>4. Shape(without)
      BY <3>2, <3>3, ResealShape
    <3> HIDE DEF without
    <3>5. /\ DOMAIN t = StoreFields /\ t.mark = without.mark /\ t.open = without.open
          /\ t.receipts = without.receipts /\ t.sealed = without.sealed /\ t.lost = without.lost
          /\ DOMAIN t.lostBatches = Batches /\ t.lostBatches[b] = entry
          /\ \A x \in Batches \ {b} : t.lostBatches[x] = without.lostBatches[x]
      BY <3>1, <3>4 DEF Shape, StoreFields
    <3>6. Shape(t)
      BY <3>4, <3>5 DEF Shape
    <3>7. SetsAside(s, b, t)
      BY <2>2, <3>2, <3>5, <3>6 DEF Reseals, SetsAside
    <3> QED BY <2>1, <3>7 DEF Settles, t
  <2> QED BY <2>4, <2>5, <2>6, <2>7, <2>8, <2>9
<1> QED BY <1>1, <1>2

\* settle_batch keeps the state sound when the disposition is one the engine
\* was entitled to.
LEMMA SettleSound ==
  ASSUME NEW s, NEW acc, NEW B, NEW ap, NEW pub, Sound(s, acc, B, ap, pub),
         NEW b, NEW fence, NEW how, NEW done, NEW at, MaySettle(how, b, done, B, ap, pub)
  PROVE  Sound(SettleBatch(s, b, fence, how, done, at).state, acc, B, ap, pub)
<1> DEFINE t == SettleBatch(s, b, fence, how, done, at).state
<1>1. /\ b \in Batches /\ how \in {"delivered", "partial", "quarantine", "queued", "release"}
      /\ done \subseteq ap /\ (how = "delivered" => B[b] \subseteq ap) /\ (how = "queued" => b \in pub)
  BY DEF MaySettle
<1>2. Shape(s) /\ (s.sealed[b] # NoBatch => /\ s.sealed[b].ops = B[b] /\ s.sealed[b].done \subseteq ap
                                            /\ s.lostBatches[b] = NoBatch)
  BY <1>1 DEF Sound
<1>3. Settles(s, b, how, done, t)
  BY <1>1, <1>2, SettleSettles
<1> HIDE DEF t
<1>4. ASSUME s.sealed[b] # NoBatch, NEW status \in {"written", "queued"},
             t = CompleteReceipts([s EXCEPT !.sealed[b] = NoBatch], s.sealed[b].ops, status),
             status = "queued" => how = "queued",
             status = "written" => how = "delivered" \/ s.sealed[b].ops \subseteq s.sealed[b].done \cup done
      PROVE  Sound(t, acc, B, ap, pub)
  <2>1. (status = "written" => B[b] \subseteq ap) /\ (status = "queued" => b \in pub)
    BY <1>1, <1>2, <1>4
  <2> QED BY <1>1, <1>4, <2>1, CompleteSound
<1>5. ASSUME s.sealed[b] # NoBatch, NEW entry, Reseals(s, b, entry, t), DOMAIN entry = BatchFields,
             entry.ops = s.sealed[b].ops, entry.done \subseteq s.sealed[b].done \cup done
      PROVE  Sound(t, acc, B, ap, pub)
  <2>1. entry.done \subseteq ap
    BY <1>1, <1>2, <1>5
  <2> QED BY <1>1, <1>5, <2>1, ResealsSound
<1>6. ASSUME s.sealed[b] # NoBatch, SetsAside(s, b, t)
      PROVE  Sound(t, acc, B, ap, pub)
  <2>1. ASSUME NEW r \in Records, Held(s, r)
        PROVE  Held(t, r)
    <3>1. CASE s.open[r] # NotOpen \/ r \in s.lost
      BY <1>6, <3>1 DEF Held, SetsAside
    <3>2. CASE \E x \in Batches : r \in s.sealed[x].ops
      BY <1>1, <1>6, <3>2 DEF Held, SetsAside
    <3>3. CASE \E x \in Batches : r \in s.lostBatches[x].ops
      <4>1. PICK x \in Batches : r \in s.lostBatches[x].ops
        BY <3>3
      <4>2. x # b
        BY <1>2, <1>6, <4>1 DEF NoBatch
      <4> QED BY <1>6, <4>1, <4>2 DEF Held, SetsAside
    <3> QED BY <2>1, <3>1, <3>2, <3>3 DEF Held
  <2>2. ASSUME NEW x \in Batches, t.sealed[x] # NoBatch
        PROVE  /\ t.sealed[x].ops = B[x] /\ t.sealed[x].done \subseteq ap
               /\ t.lostBatches[x] = NoBatch
    BY <1>6, <2>2 DEF Sound, SetsAside
  <2> QED BY <1>6, <2>1, <2>2 DEF Sound, SetsAside
<1>7. Sound(t, acc, B, ap, pub)
  BY <1>3, <1>4, <1>5, <1>6 DEF Settles
<1> QED BY <1>7 DEF t

-----------------------------------------------------------------------------
(* Steps of the engine                                                     *)

\* The sink, the queue and the batch directory only grow, and the members of a
\* prepared batch never change.
Grows(B, ap, pub, B2, ap2, pub2) ==
  /\ ap \subseteq ap2 /\ pub \subseteq pub2 /\ pub \subseteq Batches
  /\ \A b \in Batches : B[b] # {} => B2[b] = B[b]

\* What is sound stays sound when they grow.
LEMMA SoundGrows ==
  ASSUME NEW s, NEW acc, NEW B, NEW ap, NEW pub, NEW B2, NEW ap2, NEW pub2,
         Grows(B, ap, pub, B2, ap2, pub2), Sound(s, acc, B, ap, pub)
  PROVE  Sound(s, acc, B2, ap2, pub2)
<1>1. ASSUME NEW r, \E b \in pub : r \in B[b]
      PROVE  \E b \in pub2 : r \in B2[b]
  BY <1>1 DEF Grows
<1>2. ASSUME NEW r \in Records
      PROVE  /\ s.receipts[r].status = "written" => r \in ap2
             /\ s.receipts[r].status = "queued" => \E b \in pub2 : r \in B2[b]
             /\ r \in acc \/ s.receipts[r] # NoReceipt => Held(s, r) \/ Outside(r, B2, ap2, pub2)
  BY <1>1 DEF Grows, Sound, Outside
<1>3. ASSUME NEW b \in Batches, s.sealed[b] # NoBatch
      PROVE  /\ s.sealed[b].ops = B2[b] /\ s.sealed[b].done \subseteq ap2
             /\ s.lostBatches[b] = NoBatch
  <2>1. /\ s.sealed[b].ops = B[b] /\ s.sealed[b].done \subseteq ap /\ s.lostBatches[b] = NoBatch
        /\ s.sealed[b].ops # {}
    BY <1>3 DEF Sound, Shape
  <2> QED BY <2>1 DEF Grows
<1> QED BY <1>2, <1>3 DEF Sound

\* So does a turn.
LEMMA TurnGrows ==
  ASSUME NEW t, NEW B, NEW ap, NEW pub, NEW B2, NEW ap2, NEW pub2,
         Grows(B, ap, pub, B2, ap2, pub2), TurnSound(t, B, ap, pub)
  PROVE  TurnSound(t, B2, ap2, pub2)
<1>1. t.pc \in Delivering => t.batch \in Batches /\ B2[t.batch] = B[t.batch]
  BY DEF TurnSound, Grows
<1>2. t.pc \in {"delivered", "queued"} => t.pc \in Delivering
  BY DEF Delivering
<1> QED BY <1>1, <1>2 DEF TurnSound, Grows

\* And so does a request nobody waits for.
LEMMA RequestGrows ==
  ASSUME NEW q, NEW B, NEW ap, NEW pub, NEW B2, NEW ap2, NEW pub2,
         Grows(B, ap, pub, B2, ap2, pub2), RequestSound(q, B, ap, pub)
  PROVE  RequestSound(q, B2, ap2, pub2)
<1>1. CASE q.kind = "install" /\ q.batch \in Batches /\ q.ops = B[q.batch] /\ q.ops # {}
  BY <1>1 DEF RequestSound, Grows
<1>2. CASE /\ q.kind = "settle" /\ B[q.batch] # {}
           /\ MaySettle(q.how, q.batch, q.done, B, ap, pub)
  <2>1. B2[q.batch] = B[q.batch]
    BY <1>2 DEF Grows, MaySettle
  <2>2. MaySettle(q.how, q.batch, q.done, B2, ap2, pub2)
    BY <1>2, <2>1 DEF MaySettle, Grows
  <2> QED BY <1>2, <2>1, <2>2 DEF RequestSound
<1> QED BY <1>1, <1>2 DEF RequestSound

\* A step of the sink, the queue and the directory alone.
WorldGrows == Grows(batchOps, applied, published, batchOps', applied', published')

\* The part of the invariant that says where a step may have left things.
StoreNext == Sound(store', accepted', batchOps', applied', published') /\ accepted' \subseteq Records
TurnsNext == DOMAIN turn' = Nodes /\ \A n \in Nodes : TurnSound(turn'[n], batchOps', applied', published')
CallsNext == DOMAIN call' = Callers /\ \A c \in Callers : CallSound(call'[c])
RequestsNext == \A q \in orphans' : RequestSound(q, batchOps', applied', published')

\* Nothing new in the world.
LEMMA SameWorld ==
  ASSUME BufferInv, UNCHANGED <<batchOps, applied, published>>
  PROVE  /\ WorldGrows
         /\ \A s, acc : Sound(s, acc, batchOps', applied', published')
                          <=> Sound(s, acc, batchOps, applied, published)
  BY DEF BufferInv, WorldGrows, Grows

\* Parts that a step does not change stay sound as the world grows.
LEMMA Kept ==
  ASSUME BufferInv, WorldGrows
  PROVE  /\ UNCHANGED <<store, accepted>> => StoreNext
         /\ UNCHANGED turn => TurnsNext
         /\ UNCHANGED call => CallsNext
         /\ orphans' \subseteq orphans => RequestsNext
         /\ \A n \in Nodes : TurnSound(turn[n], batchOps', applied', published')
<1>1. UNCHANGED <<store, accepted>> => StoreNext
  BY SoundGrows DEF BufferInv, WorldGrows, StoreNext
<1>2. \A n \in Nodes : TurnSound(turn[n], batchOps', applied', published')
  BY TurnGrows DEF BufferInv, WorldGrows
<1>3. UNCHANGED turn => TurnsNext
  BY <1>2 DEF BufferInv, TurnsNext
<1>4. UNCHANGED call => CallsNext
  BY DEF BufferInv, CallsNext
<1>5. orphans' \subseteq orphans => RequestsNext
  BY RequestGrows DEF BufferInv, WorldGrows, RequestsNext
<1> QED BY <1>1, <1>2, <1>3, <1>4, <1>5

\* One turn replaced.
LEMMA TurnStep ==
  ASSUME BufferInv, WorldGrows, NEW n \in Nodes, NEW t, turn' = [turn EXCEPT ![n] = t],
         TurnSound(t, batchOps', applied', published')
  PROVE  TurnsNext
<1>1. DOMAIN turn' = Nodes /\ turn'[n] = t /\ \A m \in Nodes \ {n} : turn'[m] = turn[m]
  BY DEF BufferInv
<1>2. \A m \in Nodes : TurnSound(turn[m], batchOps', applied', published')
  BY Kept
<1>3. ASSUME NEW m \in Nodes PROVE TurnSound(turn'[m], batchOps', applied', published')
  <2>1. CASE m = n
    BY <1>1, <2>1
  <2>2. CASE m # n
    BY <1>1, <1>2, <2>2
  <2> QED BY <2>1, <2>2
<1> QED BY <1>1, <1>3 DEF TurnsNext

\* One call replaced.
LEMMA CallStep ==
  ASSUME BufferInv, NEW c \in Callers, NEW a, call' = [call EXCEPT ![c] = a], CallSound(a)
  PROVE  CallsNext
<1>1. DOMAIN call' = Callers /\ call'[c] = a /\ \A d \in Callers \ {c} : call'[d] = call[d]
  BY DEF BufferInv
<1>2. ASSUME NEW d \in Callers PROVE CallSound(call'[d])
  <2>1. CASE d = c
    BY <1>1, <2>1
  <2>2. CASE d # c
    BY <1>1, <2>2 DEF BufferInv
  <2> QED BY <2>1, <2>2
<1> QED BY <1>1, <1>2 DEF CallsNext

\* A request that is given up joins the ones nobody waits for.
LEMMA LeftStep ==
  ASSUME BufferInv, WorldGrows, NEW q, LeftBehind(q), RequestSound(q, batchOps', applied', published')
  PROVE  RequestsNext
<1>1. orphans' \subseteq orphans \cup {q}
  BY DEF LeftBehind
<1>2. \A x \in orphans : RequestSound(x, batchOps', applied', published')
  BY RequestGrows DEF BufferInv, WorldGrows
<1> QED BY <1>1, <1>2 DEF RequestsNext

\* A call that returned.
LEMMA ReturnedSound ==
  ASSUME NEW result
  PROVE  CallSound([IdleCall EXCEPT !.pc = "done", !.result = result])
  BY DEF CallSound, CallFields, IdleCall

\* A call that only moves on names a record where it needs one.
LEMMA MovedCall ==
  ASSUME NEW a, CallSound(a), NEW pc, NEW mark, pc \in {"reserve", "again", "append"} => a.op \in Records
  PROVE  CallSound([a EXCEPT !.pc = pc]) /\ CallSound([a EXCEPT !.pc = pc, !.mark = mark])
  BY DEF CallSound, CallFields

\* A turn at the head or at the end of its loop has no batch.
LEMMA LoopTurn ==
  ASSUME NEW t, NEW pc \in {"look", "close"}
  PROVE  TurnSound(At(t, pc), batchOps', applied', published')
<1> DEFINE u == [NoTurn EXCEPT !.pc = pc, !.by = t.by, !.upTo = t.upTo, !.force = t.force]
<1>1. At(t, pc) = u
  BY DEF At
<1>2. DOMAIN u = TurnFields /\ u.done = {} /\ u.pc = pc
  BY DEF NoTurn, TurnFields
<1> QED BY <1>1, <1>2 DEF TurnSound, Delivering

\* A turn with no batch in hand.
LEMMA IdleTurn ==
  ASSUME NEW t, DOMAIN t = TurnFields, t.done = {}, t.pc \notin Delivering
  PROVE  TurnSound(t, batchOps', applied', published')
  BY DEF TurnSound, Delivering

\* A turn that goes on with its batch.
LEMMA MovedTurn ==
  ASSUME NEW t, TurnSound(t, batchOps', applied', published'), t.pc \in Delivering,
         NEW pc \in Delivering, NEW tries,
         pc # "delivered", pc = "queued" => t.batch \in published'
  PROVE  /\ TurnSound([t EXCEPT !.pc = pc], batchOps', applied', published')
         /\ TurnSound([t EXCEPT !.pc = pc, !.tries = tries], batchOps', applied', published')
         /\ TurnSound([t EXCEPT !.pc = pc, !.done = {}], batchOps', applied', published')
         /\ TurnSound(At(t, pc), batchOps', applied', published')
<1>1. At(t, pc) = [t EXCEPT !.pc = pc]
  BY DEF At, Delivering
<1>2. TurnSound([t EXCEPT !.pc = pc], batchOps', applied', published')
  BY DEF TurnSound, TurnFields
<1>3. TurnSound([t EXCEPT !.pc = pc, !.tries = tries], batchOps', applied', published')
  BY DEF TurnSound, TurnFields
<1>4. TurnSound([t EXCEPT !.pc = pc, !.done = {}], batchOps', applied', published')
  BY DEF TurnSound, TurnFields
<1> QED BY <1>1, <1>2, <1>3, <1>4

\* The parts make the invariant.
LEMMA Parts ==
  ASSUME BufferInv, StoreNext, TurnsNext, CallsNext, RequestsNext, published' \subseteq Batches,
         DOMAIN batchOps' = Batches
  PROVE  BufferInv'
  BY DEF BufferInv, StoreNext, TurnsNext, CallsNext, RequestsNext

\* A step of the calls alone.
LEMMA CallsOnly ==
  ASSUME BufferInv, CallsNext,
         UNCHANGED <<store, accepted, turn, orphans, batchOps, applied, published>>
  PROVE  BufferInv'
<1>1. WorldGrows
  BY SameWorld
<1>2. StoreNext /\ TurnsNext /\ RequestsNext
  BY <1>1, Kept
<1>3. published' \subseteq Batches /\ DOMAIN batchOps' = Batches
  BY DEF BufferInv
<1> QED BY <1>2, <1>3, Parts

\* Submissions up to the append.
LEMMA BeginStep ==
  ASSUME BufferInv, NEW c \in Callers, NEW n, NEW r \in Records, NEW print, Begin(c, n, r, print)
  PROVE  BufferInv'
<1> DEFINE a == [pc |-> "reserve", node |-> n, op |-> r, print |-> print, mark |-> 0, result |-> "none"]
<1>1. \/ \E why : call' = Returned(c, why)
      \/ call' = [call EXCEPT ![c] = a]
  BY DEF Begin
<1>2. CallSound(a)
  BY DEF CallSound, CallFields
<1> HIDE DEF a
<1>3. CallsNext
  BY <1>1, <1>2, ReturnedSound, CallStep DEF Returned
<1>4. UNCHANGED <<store, accepted, turn, orphans, batchOps, applied, published>>
  BY DEF Begin
<1> QED BY <1>3, <1>4, CallsOnly

\* The phase of a call, set in place.
LEMMA SetPc ==
  ASSUME BufferInv, NEW c \in Callers, NEW pc, call' = [call EXCEPT ![c].pc = pc],
         pc \in {"reserve", "again", "append"} => call[c].op \in Records
  PROVE  CallsNext
<1>1. CallSound(call[c])
  BY DEF BufferInv
<1> QED BY <1>1, MovedCall, CallStep

\* reserve_staging to the dispatch of the append.
LEMMA StageStep ==
  ASSUME BufferInv, NEW c \in Callers, Stage(c)
  PROVE  BufferInv'
<1>1. \/ call' = [call EXCEPT ![c].pc = "append"]
      \/ UNCHANGED call
      \/ \E why : call' = Returned(c, why)
  BY DEF Stage
<1>2. call[c].op \in Records
  BY DEF Stage, BufferInv, CallSound
<1>3. UNCHANGED <<store, accepted, turn, orphans, batchOps, applied, published>>
  BY DEF Stage
<1>4. CASE call' = [call EXCEPT ![c].pc = "append"]
  BY <1>2, <1>3, <1>4, SetPc, CallsOnly
<1>5. CASE UNCHANGED call
  <2>1. CallsNext
    BY <1>5 DEF BufferInv, CallsNext
  <2> QED BY <1>3, <2>1, CallsOnly
<1>6. CASE \E why : call' = Returned(c, why)
  <2>1. CallsNext
    BY <1>6, ReturnedSound, CallStep DEF Returned
  <2> QED BY <1>3, <2>1, CallsOnly
<1> QED BY <1>1, <1>4, <1>5, <1>6

\* The provider answers an append.
LEMMA AppendOnceStep ==
  ASSUME BufferInv, NEW c \in Callers, AppendOnce(c)
  PROVE  BufferInv'
<1> DEFINE r == call[c].op
           a == AppendRecord(store, r, call[c].print)
<1>1. /\ store' = a.state /\ UNCHANGED <<turn, orphans, applied, published, batchOps>>
      /\ call[c].pc = "append"
      /\ \/ a.result = "appended" /\ accepted' = accepted \cup {r}
         \/ UNCHANGED accepted
      /\ \/ \E mark : call' = [call EXCEPT ![c].pc = "sync", ![c].mark = mark]
         \/ call' = [call EXCEPT ![c].pc = "again"]
         \/ \E why : call' = Returned(c, why)
  BY DEF AppendOnce
<1>2. CallSound(call[c]) /\ r \in Records
  BY <1>1 DEF BufferInv, CallSound
<1>3. CallsNext
  <2>1. CASE \E mark : call' = [call EXCEPT ![c].pc = "sync", ![c].mark = mark]
    <3>1. PICK mark : call' = [call EXCEPT ![c].pc = "sync", ![c].mark = mark]
      BY <2>1
    <3>2. call' = [call EXCEPT ![c] = [call[c] EXCEPT !.pc = "sync", !.mark = mark]]
      BY <3>1 DEF BufferInv
    <3> QED BY <1>2, <3>2, MovedCall, CallStep
  <2>2. CASE call' = [call EXCEPT ![c].pc = "again"]
    BY <1>2, <2>2, SetPc
  <2>3. CASE \E why : call' = Returned(c, why)
    BY <2>3, ReturnedSound, CallStep DEF Returned
  <2> QED BY <1>1, <2>1, <2>2, <2>3
<1>4. WorldGrows
  BY <1>1, SameWorld
<1>5. StoreNext
  <2>1. /\ Sound(a.state, accepted, batchOps, applied, published)
        /\ a.result = "appended" => Sound(a.state, accepted \cup {r}, batchOps, applied, published)
    BY <1>2, AppendSound DEF BufferInv
  <2> HIDE DEF a, r
  <2> QED BY <1>1, <1>2, <2>1 DEF StoreNext, BufferInv
<1>6. TurnsNext /\ RequestsNext
  BY <1>1, <1>4, Kept
<1>7. published' \subseteq Batches /\ DOMAIN batchOps' = Batches
  BY <1>1 DEF BufferInv
<1> QED BY <1>3, <1>5, <1>6, <1>7, Parts

\* A call that is given up leaves its append behind.
LEMMA GiveUpStep ==
  ASSUME BufferInv, NEW c \in Callers, NEW why, GiveUp(c, why)
  PROVE  BufferInv'
<1> DEFINE q == AppendRequest(c)
<1>1. /\ UNCHANGED <<store, turn, applied, published, accepted, batchOps>>
      /\ \E result : call' = Returned(c, result)
      /\ IF call[c].pc = "append" THEN LeftBehind(q) ELSE UNCHANGED orphans
  BY DEF GiveUp
<1>2. WorldGrows
  BY <1>1, SameWorld
<1>3. CallsNext
  BY <1>1, ReturnedSound, CallStep DEF Returned
<1>4. RequestsNext
  <2>1. CASE call[c].pc = "append"
    <3>1. call[c].op \in Records
      BY <2>1 DEF BufferInv, CallSound
    <3>2. RequestSound(q, batchOps', applied', published')
      BY <3>1 DEF RequestSound, AppendRequest
    <3> QED BY <1>1, <1>2, <2>1, <3>2, LeftStep
  <2>2. CASE call[c].pc # "append"
    BY <1>1, <1>2, <2>2, Kept
  <2> QED BY <2>1, <2>2
<1>5. StoreNext /\ TurnsNext
  BY <1>1, <1>2, Kept
<1>6. published' \subseteq Batches /\ DOMAIN batchOps' = Batches
  BY <1>1 DEF BufferInv
<1> QED BY <1>3, <1>4, <1>5, <1>6, Parts

\* A synchronous submission reads its receipt and returns.
LEMMA SyncReturnStep ==
  ASSUME BufferInv, NEW c \in Callers, SyncReturn(c)
  PROVE  BufferInv'
<1>1. /\ \E result : call' = Returned(c, result)
      /\ UNCHANGED <<store, accepted, turn, orphans, batchOps, applied, published>>
  BY DEF SyncReturn
<1>2. CallsNext
  BY <1>1, ReturnedSound, CallStep DEF Returned
<1> QED BY <1>1, <1>2, CallsOnly

\* A step of one turn, and of calls, that leaves everything else alone.
LEMMA TurnOnly ==
  ASSUME BufferInv, TurnsNext, CallsNext,
         UNCHANGED <<store, accepted, orphans, batchOps, applied, published>>
  PROVE  BufferInv'
<1>1. WorldGrows
  BY SameWorld
<1>2. StoreNext /\ RequestsNext
  BY <1>1, Kept
<1>3. published' \subseteq Batches /\ DOMAIN batchOps' = Batches
  BY DEF BufferInv
<1> QED BY <1>2, <1>3, Parts

\* A turn that opens.
LEMMA OpenTurn ==
  ASSUME BufferInv, WorldGrows, NEW n \in Nodes, NEW by, NEW upTo, NEW force, Open(n, by, upTo, force)
  PROVE  TurnsNext
<1> DEFINE t == [NoTurn EXCEPT !.pc = "look", !.by = by, !.upTo = upTo, !.force = force]
<1>1. DOMAIN t = TurnFields /\ t.done = {} /\ t.pc = "look"
  BY DEF NoTurn, TurnFields
<1>2. turn' = [turn EXCEPT ![n] = t]
  BY DEF Open
<1> HIDE DEF t
<1>3. TurnSound(t, batchOps', applied', published')
  BY <1>1, IdleTurn DEF Delivering
<1> QED BY <1>2, <1>3, TurnStep

\* The driver opens a turn.
LEMMA StartDriverTurnStep ==
  ASSUME BufferInv, NEW n \in Nodes, StartDriverTurn(n)
  PROVE  BufferInv'
<1>1. /\ \E upTo, force : Open(n, "driver", upTo, force)
      /\ UNCHANGED <<store, accepted, call, orphans, batchOps, applied, published>>
  BY DEF StartDriverTurn
<1>2. WorldGrows
  BY <1>1, SameWorld
<1>3. TurnsNext /\ CallsNext
  BY <1>1, <1>2, OpenTurn, Kept
<1> QED BY <1>1, <1>3, TurnOnly

\* The turn of a synchronous submission.
LEMMA StartSyncTurnStep ==
  ASSUME BufferInv, NEW c \in Callers, StartSyncTurn(c)
  PROVE  BufferInv'
<1> DEFINE n == call[c].node
<1>1. /\ \/ Open(n, c, call[c].mark, TRUE) /\ call' = [call EXCEPT ![c].pc = "turn"]
         \/ call' = [call EXCEPT ![c].pc = "settled"] /\ UNCHANGED turn
      /\ UNCHANGED <<store, accepted, orphans, batchOps, applied, published>>
  BY DEF StartSyncTurn
<1>2. WorldGrows
  BY <1>1, SameWorld
<1>3. CallsNext
  BY <1>1, SetPc
<1>4. TurnsNext
  <2>1. CASE Open(n, c, call[c].mark, TRUE)
    <3>1. CASE n \in Nodes
      BY <1>2, <2>1, <3>1, OpenTurn
    <3>2. CASE n \notin Nodes
      <4>1. DOMAIN turn' = Nodes /\ \A m \in Nodes : turn'[m] = turn[m]
        BY <2>1, <3>2 DEF Open, BufferInv
      <4> QED BY <1>2, <4>1, Kept DEF TurnsNext
    <3> QED BY <3>1, <3>2
  <2>2. CASE UNCHANGED turn
    BY <1>2, <2>2, Kept
  <2> QED BY <1>1, <2>1, <2>2
<1> QED BY <1>1, <1>3, <1>4, TurnOnly

\* A turn that returns to the head or the end of its loop.
LEMMA ToLoop ==
  ASSUME BufferInv, WorldGrows, NEW n \in Nodes, NEW pc \in {"look", "close"}, To(n, pc)
  PROVE  TurnsNext
<1>1. turn' = [turn EXCEPT ![n] = At(turn[n], pc)]
  BY DEF To
<1>2. TurnSound(At(turn[n], pc), batchOps', applied', published')
  BY LoopTurn
<1> QED BY <1>1, <1>2, TurnStep

\* The head of the flush loop.
LEMMA LookStep ==
  ASSUME BufferInv, NEW n \in Nodes, Look(n)
  PROVE  BufferInv'
<1>1. /\ \/ To(n, "close")
         \/ \E eligible : turn' = [turn EXCEPT ![n].pc = "claim", ![n].open = eligible]
      /\ turn[n].pc = "look"
      /\ UNCHANGED <<store, accepted, call, orphans, batchOps, applied, published>>
  BY DEF Look
<1>2. WorldGrows
  BY <1>1, SameWorld
<1>3. TurnsNext
  <2>1. CASE To(n, "close")
    BY <1>2, <2>1, ToLoop
  <2>2. CASE \E eligible : turn' = [turn EXCEPT ![n].pc = "claim", ![n].open = eligible]
    <3>1. PICK eligible : turn' = [turn EXCEPT ![n].pc = "claim", ![n].open = eligible]
      BY <2>2
    <3> DEFINE t == [turn[n] EXCEPT !.pc = "claim", !.open = eligible]
    <3>2. turn' = [turn EXCEPT ![n] = t]
      BY <3>1 DEF BufferInv
    <3>3. TurnSound(turn[n], batchOps', applied', published')
      BY <1>2, Kept
    <3>4. TurnSound(t, batchOps', applied', published')
      BY <3>3 DEF TurnSound, TurnFields, Delivering
    <3> QED BY <1>2, <3>2, <3>4, TurnStep
  <2> QED BY <1>1, <2>1, <2>2
<1>4. CallsNext
  BY <1>1, <1>2, Kept
<1> QED BY <1>1, <1>3, <1>4, TurnOnly

\* claim_work answers a turn.
LEMMA ClaimStep ==
  ASSUME BufferInv, NEW n \in Nodes, Claim(n)
  PROVE  BufferInv'
<1> DEFINE t == turn[n]
<1>1. t.pc = "claim" /\ UNCHANGED <<call, accepted, batchOps, applied, published>>
  BY DEF Claim
<1>2. WorldGrows
  BY <1>1, SameWorld
<1>3. TurnSound(t, batchOps', applied', published')
  BY <1>2, Kept
<1>4. CallsNext
  BY <1>1, <1>2, Kept
<1>5. published' \subseteq Batches /\ DOMAIN batchOps' = Batches
  BY <1>1 DEF BufferInv
<1>6. CASE /\ To(n, "close") /\ UNCHANGED store
           /\ LeftBehind([kind |-> "claim", open |-> t.open, upTo |-> t.upTo, at |-> now])
  <2>1. RequestSound([kind |-> "claim", open |-> t.open, upTo |-> t.upTo, at |-> now],
                     batchOps', applied', published')
    BY DEF RequestSound
  <2>2. RequestsNext
    BY <1>2, <1>6, <2>1, LeftStep
  <2>3. TurnsNext
    BY <1>2, <1>6, ToLoop
  <2>4. StoreNext
    BY <1>1, <1>2, <1>6, Kept
  <2> QED BY <1>4, <1>5, <2>2, <2>3, <2>4, Parts
<1>7. ASSUME NEW due, due \subseteq Claimable(store, now), UNCHANGED orphans,
             LET a == ClaimWork(store, due, t.open, t.upTo, now)
                 b == a.result[2]
             IN /\ store' = a.state
                /\ turn' = [turn EXCEPT ![n] =
                     CASE a.result[1] = "sealed" ->
                            [t EXCEPT !.pc = "permit", !.batch = b, !.fence = a.state.fence,
                                      !.ops = Pending(a.state.sealed[b])]
                       [] a.result[1] = "open" ->
                            [t EXCEPT !.pc = "seal", !.fence = a.state.fence,
                                      !.ops = Claimed(a.state, a.state.fence)]
                       [] a.result[1] = "none" -> At(t, "close")]
      PROVE  BufferInv'
  <2> DEFINE a == ClaimWork(store, due, t.open, t.upTo, now)
             b == a.result[2]
             leased == [t EXCEPT !.pc = "permit", !.batch = b, !.fence = a.state.fence,
                                 !.ops = Pending(a.state.sealed[b])]
             held == [t EXCEPT !.pc = "seal", !.fence = a.state.fence,
                               !.ops = Claimed(a.state, a.state.fence)]
  <2>1. due \subseteq SealedBatches(store)
    BY <1>7 DEF Claimable
  <2>2. /\ Sound(a.state, accepted, batchOps, applied, published)
        /\ a.result[1] \in {"sealed", "open", "none"}
        /\ a.result[1] = "sealed" => b \in Batches /\ a.state.sealed[b] # NoBatch
    BY <2>1, ClaimSound DEF BufferInv
  <2>3. /\ store' = a.state
        /\ a.result[1] = "sealed" => turn' = [turn EXCEPT ![n] = leased]
        /\ a.result[1] = "open" => turn' = [turn EXCEPT ![n] = held]
        /\ a.result[1] = "none" => turn' = [turn EXCEPT ![n] = At(t, "close")]
    BY <1>7
  <2> HIDE DEF a, b
  <2>4. StoreNext
    BY <1>1, <2>2, <2>3 DEF StoreNext, BufferInv
  <2>5. ASSUME a.result[1] = "sealed" PROVE TurnsNext
    <3>1. /\ a.state.sealed[b].ops = batchOps[b] /\ a.state.sealed[b].done \subseteq applied
          /\ a.state.sealed[b].ops # {} /\ b \in Batches
      BY <2>2, <2>5 DEF Sound, Shape
    <3>2. leased.batch = b /\ leased.ops = Pending(a.state.sealed[b]) /\ leased.pc = "permit"
          /\ leased.done = t.done /\ DOMAIN leased = TurnFields
      BY <1>3 DEF TurnSound, TurnFields
    <3>3. batchOps[b] \subseteq leased.ops \cup applied
      BY <3>1, <3>2 DEF Pending
    <3> HIDE DEF leased
    <3>4. TurnSound(leased, batchOps', applied', published')
      BY <1>1, <1>3, <3>1, <3>2, <3>3 DEF TurnSound
    <3> QED BY <1>2, <2>3, <2>5, <3>4, TurnStep
  <2>6. ASSUME a.result[1] = "open" PROVE TurnsNext
    <3>1. TurnSound(held, batchOps', applied', published')
      BY <1>3 DEF TurnSound, TurnFields, Delivering
    <3> QED BY <1>2, <2>3, <2>6, <3>1, TurnStep
  <2>7. ASSUME a.result[1] = "none" PROVE TurnsNext
    <3>1. TurnSound(At(t, "close"), batchOps', applied', published')
      BY LoopTurn
    <3> QED BY <1>2, <2>3, <2>7, <3>1, TurnStep
  <2>8. TurnsNext
    BY <2>2, <2>5, <2>6, <2>7
  <2>9. RequestsNext
    BY <1>2, <1>7, Kept
  <2> QED BY <1>4, <1>5, <2>4, <2>8, <2>9, Parts
<1> QED BY <1>6, <1>7 DEF Claim

\* The provider is asked to seal: it answers, or the turn ends and the request
\* is left behind.
Asked(n, a, ok, pc, req) ==
  \/ /\ store' = a.state /\ UNCHANGED orphans
     /\ turn' = [turn EXCEPT ![n] = IF a.result = ok THEN pc ELSE At(turn[n], "close")]
  \/ To(n, "close") /\ UNCHANGED store /\ LeftBehind(req)

\* Either way the invariant survives, if the answer and the request are sound.
LEMMA AskedStep ==
  ASSUME BufferInv, WorldGrows, NEW n \in Nodes, NEW a, NEW ok, NEW pc, NEW req, Asked(n, a, ok, pc, req),
         Sound(a.state, accepted, batchOps', applied', published'),
         TurnSound(pc, batchOps', applied', published'),
         RequestSound(req, batchOps', applied', published'),
         UNCHANGED <<accepted, call>>, published' \subseteq Batches, DOMAIN batchOps' = Batches
  PROVE  BufferInv'
<1>1. CallsNext
  BY Kept
<1>2. CASE /\ store' = a.state /\ UNCHANGED orphans
           /\ turn' = [turn EXCEPT ![n] = IF a.result = ok THEN pc ELSE At(turn[n], "close")]
  <2>1. StoreNext
    BY <1>2 DEF StoreNext, BufferInv
  <2>2. RequestsNext
    BY <1>2, Kept
  <2>3. TurnsNext
    BY <1>2, LoopTurn, TurnStep
  <2> QED BY <1>1, <2>1, <2>2, <2>3, Parts
<1>3. CASE To(n, "close") /\ UNCHANGED store /\ LeftBehind(req)
  <2>1. StoreNext
    BY <1>3, Kept
  <2>2. RequestsNext
    BY <1>3, LeftStep
  <2>3. TurnsNext
    BY <1>3, ToLoop
  <2> QED BY <1>1, <2>1, <2>2, <2>3, Parts
<1> QED BY <1>2, <1>3 DEF Asked

\* seal_candidate_with_splitting.
LEMMA SealStep ==
  ASSUME BufferInv, NEW n \in Nodes, Seal(n)
  PROVE  BufferInv'
<1> DEFINE t == turn[n]
           first == CHOOSE x \in t.ops : \A y \in t.ops : store.receipts[x].mark <= store.receipts[y].mark
<1>1. t.pc = "seal" /\ UNCHANGED <<call, accepted, applied, published>>
  BY DEF Seal
<1>2. \/ \E b \in Batches, p \in SplitsOf(store, t.ops), excess \in {0, 1} :
           /\ p # {} /\ batchOps[b] = {} /\ batchOps' = [batchOps EXCEPT ![b] = p]
           /\ Asked(n, InstallBatch(store, t.fence, b, p, Reserved(p) + excess, now), "sealed",
                    [t EXCEPT !.pc = "permit", !.batch = b, !.ops = p],
                    [kind |-> "install", fence |-> t.fence, batch |-> b, ops |-> p, size |-> Reserved(p) + excess, at |-> now])
      \/ /\ UNCHANGED batchOps
         /\ Asked(n, QuarantineSingleton(store, t.fence, first, now), "quarantined",
                  [t EXCEPT !.pc = "claim", !.ops = {}, !.fence = 0],
                  [kind |-> "isolate", fence |-> t.fence, op |-> first, at |-> now])
      \/ /\ To(n, "close") /\ UNCHANGED <<batchOps, orphans>>
         /\ store' = ReleaseCandidate(ExpireOpen(store, now), t.fence)
  BY ZenonT(100) DEF Seal, Asked, SplitsOf, FreshBatch
<1>3. TurnSound(t, batchOps, applied, published)
  BY DEF BufferInv
<1>4. CASE \E b \in Batches, p \in SplitsOf(store, t.ops), excess \in {0, 1} :
           /\ p # {} /\ batchOps[b] = {} /\ batchOps' = [batchOps EXCEPT ![b] = p]
           /\ Asked(n, InstallBatch(store, t.fence, b, p, Reserved(p) + excess, now), "sealed",
                    [t EXCEPT !.pc = "permit", !.batch = b, !.ops = p],
                    [kind |-> "install", fence |-> t.fence, batch |-> b, ops |-> p, size |-> Reserved(p) + excess, at |-> now])
  <2>1. PICK b \in Batches, p \in SplitsOf(store, t.ops), excess \in {0, 1} :
           /\ p # {} /\ batchOps[b] = {} /\ batchOps' = [batchOps EXCEPT ![b] = p]
           /\ Asked(n, InstallBatch(store, t.fence, b, p, Reserved(p) + excess, now), "sealed",
                    [t EXCEPT !.pc = "permit", !.batch = b, !.ops = p],
                    [kind |-> "install", fence |-> t.fence, batch |-> b, ops |-> p, size |-> Reserved(p) + excess, at |-> now])
    BY <1>4
  <2> DEFINE next == [t EXCEPT !.pc = "permit", !.batch = b, !.ops = p]
             req == [kind |-> "install", fence |-> t.fence, batch |-> b, ops |-> p, size |-> Reserved(p) + excess, at |-> now]
             size == Reserved(p) + excess
             a == InstallBatch(store, t.fence, b, p, size, now)
  <2>2. /\ DOMAIN batchOps' = Batches /\ batchOps'[b] = p
        /\ \A x \in Batches \ {b} : batchOps'[x] = batchOps[x]
    BY <2>1 DEF BufferInv
  <2>3. WorldGrows
    BY <1>1, <2>1, <2>2 DEF BufferInv, WorldGrows, Grows
  <2>4. Sound(store, accepted, batchOps', applied', published')
    BY <2>3, SoundGrows DEF WorldGrows, BufferInv
  <2>5. Asked(n, a, "sealed", next, req)
    BY <2>1
  <2> HIDE DEF size
  <2>6. Sound(a.state, accepted, batchOps', applied', published')
    BY <2>2, <2>4, InstallSound
  <2>7. TurnSound(next, batchOps', applied', published')
    BY <1>1, <1>3, <2>1, <2>2 DEF TurnSound, TurnFields, Delivering
  <2>8. RequestSound(req, batchOps', applied', published')
    BY <2>1, <2>2 DEF RequestSound
  <2>9. published' \subseteq Batches
    BY <1>1 DEF BufferInv
  <2> HIDE DEF a, next, req
  <2> QED BY <1>1, <2>2, <2>3, <2>5, <2>6, <2>7, <2>8, <2>9, AskedStep
<1>5. CASE /\ UNCHANGED batchOps
           /\ Asked(n, QuarantineSingleton(store, t.fence, first, now), "quarantined",
                    [t EXCEPT !.pc = "claim", !.ops = {}, !.fence = 0],
                    [kind |-> "isolate", fence |-> t.fence, op |-> first, at |-> now])
  <2> DEFINE next == [t EXCEPT !.pc = "claim", !.ops = {}, !.fence = 0]
             req == [kind |-> "isolate", fence |-> t.fence, op |-> first, at |-> now]
             a == QuarantineSingleton(store, t.fence, first, now)
  <2>1. Asked(n, a, "quarantined", next, req)
    BY <1>5
  <2> HIDE DEF first
  <2>2. WorldGrows
    BY <1>1, <1>5, SameWorld
  <2>3. Sound(a.state, accepted, batchOps, applied, published)
    BY IsolateSound DEF BufferInv
  <2>4. Sound(a.state, accepted, batchOps', applied', published')
    BY <1>1, <1>5, <2>3
  <2>5. TurnSound(next, batchOps', applied', published')
    BY <1>1, <1>3 DEF TurnSound, TurnFields, Delivering
  <2>6. RequestSound(req, batchOps', applied', published')
    BY DEF RequestSound
  <2>7. published' \subseteq Batches /\ DOMAIN batchOps' = Batches
    BY <1>1, <1>5 DEF BufferInv
  <2> HIDE DEF a, next, req
  <2> QED BY <1>1, <2>1, <2>2, <2>4, <2>5, <2>6, <2>7, AskedStep
<1>6. CASE /\ To(n, "close") /\ UNCHANGED <<batchOps, orphans>>
           /\ store' = ReleaseCandidate(ExpireOpen(store, now), t.fence)
  <2> DEFINE e == ExpireOpen(store, now)
  <2>1. WorldGrows
    BY <1>1, <1>6, SameWorld
  <2>2. Sound(e, accepted, batchOps, applied, published) /\ Shape(e)
    BY ExpireSound DEF BufferInv
  <2> HIDE DEF e
  <2>3. Sound(ReleaseCandidate(e, t.fence), accepted, batchOps, applied, published)
    BY <2>2, ReleaseReleases, ReleasesSound
  <2>4. StoreNext
    BY <1>1, <1>6, <2>3 DEF StoreNext, BufferInv, e
  <2>5. TurnsNext
    BY <1>6, <2>1, ToLoop
  <2>6. CallsNext /\ RequestsNext
    BY <1>1, <1>6, <2>1, Kept
  <2>7. published' \subseteq Batches /\ DOMAIN batchOps' = Batches
    BY <1>1, <1>6 DEF BufferInv
  <2> QED BY <2>4, <2>5, <2>6, <2>7, Parts
<1> QED BY <1>2, <1>4, <1>5, <1>6

\* A turn that goes on with its batch, and nothing else but policy and faults.
LEMMA PermitStep ==
  ASSUME BufferInv, NEW n \in Nodes, Permit(n)
  PROVE  BufferInv'
<1> DEFINE t == turn[n]
<1>1. /\ t.pc = "permit"
      /\ UNCHANGED <<store, accepted, call, orphans, batchOps, applied, published>>
      /\ \/ turn' = [turn EXCEPT ![n].pc = "attempt", ![n].tries = 0]
         \/ To(n, "handoff") \/ To(n, "release")
  BY DEF Permit
<1>2. WorldGrows
  BY <1>1, SameWorld
<1>3. TurnSound(t, batchOps', applied', published')
  BY <1>2, Kept
<1>4. \/ turn' = [turn EXCEPT ![n] = [t EXCEPT !.pc = "attempt", !.tries = 0]]
      \/ turn' = [turn EXCEPT ![n] = At(t, "handoff")]
      \/ turn' = [turn EXCEPT ![n] = At(t, "release")]
  BY <1>1 DEF To, BufferInv
<1>5. /\ TurnSound([t EXCEPT !.pc = "attempt", !.tries = 0], batchOps', applied', published')
      /\ TurnSound(At(t, "handoff"), batchOps', applied', published')
      /\ TurnSound(At(t, "release"), batchOps', applied', published')
  BY <1>1, <1>3, MovedTurn DEF Delivering
<1>6. TurnsNext
  BY <1>2, <1>4, <1>5, TurnStep
<1>7. CallsNext
  BY <1>1, <1>2, Kept
<1> QED BY <1>1, <1>6, <1>7, TurnOnly

\* A turn after the sink's answer: what it counts as done has landed.
LEMMA AfterSinkSound ==
  ASSUME NEW t, NEW B, NEW ap, NEW pub, TurnSound(t, B, ap, pub), t.pc = "attempt",
         NEW done, done \subseteq ap, NEW failure \in Failures \cup {"none"},
         failure = "none" => t.ops \subseteq ap
  PROVE  TurnSound(AfterSink(t, done, failure), B, ap, pub)
<1>1. /\ DOMAIN t = TurnFields /\ t.done \subseteq ap /\ t.batch \in Batches /\ B[t.batch] # {}
      /\ B[t.batch] \subseteq t.ops \cup ap
  BY DEF TurnSound, Delivering
<1>2. CASE failure = "none"
  <2>1. AfterSink(t, done, failure) = [t EXCEPT !.pc = "delivered", !.done = {}]
    BY <1>2 DEF AfterSink
  <2>2. B[t.batch] \subseteq ap
    BY <1>1, <1>2
  <2> QED BY <1>1, <2>1, <2>2 DEF TurnSound, TurnFields
<1>3. CASE failure = "permanent"
  <2>1. AfterSink(t, done, failure) = [t EXCEPT !.pc = "quarantine", !.done = done]
    BY <1>3 DEF AfterSink
  <2> QED BY <1>1, <2>1 DEF TurnSound, TurnFields
<1>4. CASE failure = "invalid"
  <2>1. AfterSink(t, done, failure) = [t EXCEPT !.pc = "release"]
    BY <1>4 DEF AfterSink
  <2> QED BY <1>1, <2>1 DEF TurnSound, TurnFields
<1>5. CASE failure \in {"retryable", "unknown"} /\ done = {}
  <2>1. AfterSink(t, done, failure) = [t EXCEPT !.pc = "failed"]
    BY <1>5 DEF AfterSink
  <2> QED BY <1>1, <2>1 DEF TurnSound, TurnFields
<1>6. CASE failure \in {"retryable", "unknown"} /\ done # {}
  <2>1. AfterSink(t, done, failure) = [t EXCEPT !.pc = "partial", !.done = done, !.ops = t.ops \ done]
    BY <1>6 DEF AfterSink
  <2>2. B[t.batch] \subseteq (t.ops \ done) \cup ap
    BY <1>1
  <2> QED BY <1>1, <2>1, <2>2 DEF TurnSound, TurnFields
<1> QED BY <1>2, <1>3, <1>4, <1>5, <1>6 DEF Failures

\* One attempt.
LEMMA AttemptStep ==
  ASSUME BufferInv, NEW n \in Nodes, Attempt(n)
  PROVE  BufferInv'
<1> DEFINE t == turn[n]
<1>1. /\ t.pc = "attempt"
      /\ UNCHANGED <<store, accepted, call, orphans, batchOps, published>>
      /\ \/ applied' = applied \cup t.ops /\ turn' = [turn EXCEPT ![n] = AfterSink(t, {}, "none")]
         \/ \E landed \in SUBSET t.ops, failure \in Failures : \E done \in {{}, landed} :
              applied' = applied \cup landed /\ turn' = [turn EXCEPT ![n] = AfterSink(t, done, failure)]
         \/ UNCHANGED applied /\ turn' = [turn EXCEPT ![n].pc = "quarantine", ![n].done = {}]
         \/ UNCHANGED applied /\ To(n, "release")
  BY DEF Attempt
<1>2. WorldGrows
  BY <1>1 DEF BufferInv, WorldGrows, Grows
<1>3. TurnSound(t, batchOps', applied', published')
  BY <1>2, Kept
<1>4. TurnsNext
  <2>1. ASSUME applied' = applied \cup t.ops, turn' = [turn EXCEPT ![n] = AfterSink(t, {}, "none")]
        PROVE  TurnsNext
    <3>1. TurnSound(AfterSink(t, {}, "none"), batchOps', applied', published')
      BY <1>1, <1>3, <2>1, AfterSinkSound
    <3> QED BY <1>2, <2>1, <3>1, TurnStep
  <2>2. ASSUME NEW landed \in SUBSET t.ops, NEW failure \in Failures, NEW done \in {{}, landed},
               applied' = applied \cup landed,
               turn' = [turn EXCEPT ![n] = AfterSink(t, done, failure)]
        PROVE  TurnsNext
    <3>1. failure \in Failures \cup {"none"} /\ failure # "none" /\ done \subseteq applied'
      BY <2>2 DEF Failures
    <3>2. TurnSound(AfterSink(t, done, failure), batchOps', applied', published')
      BY <1>1, <1>3, <3>1, AfterSinkSound
    <3> QED BY <1>2, <2>2, <3>2, TurnStep
  <2>3. ASSUME turn' = [turn EXCEPT ![n].pc = "quarantine", ![n].done = {}]
        PROVE  TurnsNext
    <3>1. turn' = [turn EXCEPT ![n] = [t EXCEPT !.pc = "quarantine", !.done = {}]]
      BY <2>3 DEF BufferInv
    <3>2. TurnSound([t EXCEPT !.pc = "quarantine", !.done = {}], batchOps', applied', published')
      BY <1>1, <1>3, MovedTurn DEF Delivering
    <3> QED BY <1>2, <3>1, <3>2, TurnStep
  <2>4. ASSUME To(n, "release")
        PROVE  TurnsNext
    <3>1. TurnSound(At(t, "release"), batchOps', applied', published')
      BY <1>1, <1>3, MovedTurn DEF Delivering
    <3> QED BY <1>2, <2>4, <3>1, TurnStep DEF To
  <2> QED BY <1>1, <2>1, <2>2, <2>3, <2>4
<1>5. StoreNext /\ CallsNext /\ RequestsNext
  BY <1>1, <1>2, Kept
<1>6. published' \subseteq Batches /\ DOMAIN batchOps' = Batches
  BY <1>1 DEF BufferInv
<1> QED BY <1>4, <1>5, <1>6, Parts

\* The settlement of a batch.
LEMMA SettleStep ==
  ASSUME BufferInv, NEW n \in Nodes, Settle(n)
  PROVE  BufferInv'
<1> DEFINE t == turn[n]
           how == Disposition(t.pc)
           a == SettleBatch(store, t.batch, t.fence, how, t.done, now)
           req == [kind |-> "settle", batch |-> t.batch, fence |-> t.fence, how |-> how,
                   done |-> t.done, at |-> now]
           clear == [t EXCEPT !.done = {}]
<1>1. /\ t.pc \in {"delivered", "partial", "quarantine", "queued", "release"}
      /\ UNCHANGED <<call, applied, published, accepted, batchOps>>
      /\ \/ store' = a.state /\ UNCHANGED orphans
         \/ UNCHANGED store /\ LeftBehind(req)
      /\ \E ok \in BOOLEAN : turn' = [turn EXCEPT ![n] = At(clear, NextStep(t.pc, ok))]
  BY DEF Settle
<1>2. WorldGrows
  BY <1>1, SameWorld
<1>3. TurnSound(t, batchOps', applied', published')
  BY <1>2, Kept
<1>4. how = t.pc
  BY <1>1 DEF Disposition
<1>5. MaySettle(how, t.batch, t.done, batchOps', applied', published') /\ batchOps'[t.batch] # {}
  BY <1>1, <1>3, <1>4 DEF MaySettle, TurnSound, Delivering
<1>6. StoreNext
  <2>1. Sound(a.state, accepted, batchOps', applied', published')
    BY <1>1, <1>5, SettleSound DEF BufferInv
  <2>2. CASE store' = a.state
    BY <1>1, <2>1, <2>2 DEF StoreNext, BufferInv
  <2>3. CASE UNCHANGED store
    BY <1>1, <1>2, <2>3, Kept
  <2> QED BY <1>1, <2>2, <2>3
<1>7. RequestsNext
  <2>1. RequestSound(req, batchOps', applied', published')
    BY <1>5 DEF RequestSound
  <2>2. CASE UNCHANGED orphans
    BY <1>2, <2>2, Kept
  <2>3. CASE LeftBehind(req)
    BY <1>2, <2>1, <2>3, LeftStep
  <2> QED BY <1>1, <2>2, <2>3
<1>8. TurnsNext
  <2>1. PICK ok \in BOOLEAN : turn' = [turn EXCEPT ![n] = At(clear, NextStep(t.pc, ok))]
    BY <1>1
  <2>2. \/ NextStep(t.pc, ok) \in {"look", "close"}
        \/ NextStep(t.pc, ok) = "failed" /\ t.pc = "partial"
    BY <1>1 DEF NextStep
  <2>3. CASE NextStep(t.pc, ok) \in {"look", "close"}
    <3>1. TurnSound(At(clear, NextStep(t.pc, ok)), batchOps', applied', published')
      BY <2>3, LoopTurn
    <3> QED BY <1>2, <2>1, <3>1, TurnStep
  <2>4. CASE NextStep(t.pc, ok) = "failed" /\ t.pc = "partial"
    <3>1. At(clear, "failed") = [clear EXCEPT !.pc = "failed"]
      BY DEF At
    <3>2. TurnSound([clear EXCEPT !.pc = "failed"], batchOps', applied', published')
      BY <1>3, <2>4 DEF TurnSound, TurnFields, Delivering
    <3> QED BY <1>2, <2>1, <2>4, <3>1, <3>2, TurnStep
  <2> QED BY <2>2, <2>3, <2>4
<1>9. CallsNext
  BY <1>1, <1>2, Kept
<1>10. published' \subseteq Batches /\ DOMAIN batchOps' = Batches
  BY <1>1 DEF BufferInv
<1> QED BY <1>6, <1>7, <1>8, <1>9, <1>10, Parts

\* A failed attempt.
LEMMA FailedStep ==
  ASSUME BufferInv, NEW n \in Nodes, Failed(n)
  PROVE  BufferInv'
<1> DEFINE t == turn[n]
<1>1. /\ t.pc = "failed"
      /\ UNCHANGED <<store, accepted, call, orphans, batchOps, applied, published>>
      /\ \/ turn' = [turn EXCEPT ![n].pc = "attempt", ![n].tries = t.tries + 1]
         \/ To(n, "handoff") \/ To(n, "release")
  BY DEF Failed
<1>2. WorldGrows
  BY <1>1, SameWorld
<1>3. TurnSound(t, batchOps', applied', published')
  BY <1>2, Kept
<1> DEFINE tries == t.tries + 1
<1>4. \/ turn' = [turn EXCEPT ![n].pc = "attempt", ![n].tries = tries]
      \/ turn' = [turn EXCEPT ![n] = At(t, "handoff")]
      \/ turn' = [turn EXCEPT ![n] = At(t, "release")]
  BY <1>1 DEF To
<1> HIDE DEF tries
<1>5. \/ turn' = [turn EXCEPT ![n] = [t EXCEPT !.pc = "attempt", !.tries = tries]]
      \/ turn' = [turn EXCEPT ![n] = At(t, "handoff")]
      \/ turn' = [turn EXCEPT ![n] = At(t, "release")]
  BY <1>4 DEF BufferInv
<1>6. /\ TurnSound([t EXCEPT !.pc = "attempt", !.tries = tries], batchOps', applied', published')
      /\ TurnSound(At(t, "handoff"), batchOps', applied', published')
      /\ TurnSound(At(t, "release"), batchOps', applied', published')
  BY <1>1, <1>3, MovedTurn DEF Delivering
<1>7. TurnsNext
  BY <1>2, <1>5, <1>6, TurnStep
<1>8. CallsNext
  BY <1>1, <1>2, Kept
<1> QED BY <1>1, <1>7, <1>8, TurnOnly

\* The handoff to the queue.
LEMMA HandoffStep ==
  ASSUME BufferInv, NEW n \in Nodes, Handoff(n)
  PROVE  BufferInv'
<1> DEFINE t == turn[n]
<1>1. /\ t.pc = "handoff" /\ UNCHANGED <<store, accepted, call, orphans, batchOps, applied>>
      /\ published' \in {published, published \cup {t.batch}}
      /\ To(n, "release") \/ (To(n, "queued") /\ t.batch \in published')
  BY DEF Handoff
<1>2. t.batch \in Batches
  BY <1>1 DEF BufferInv, TurnSound, Delivering
<1>3. WorldGrows
  BY <1>1 DEF BufferInv, WorldGrows, Grows
<1>4. TurnSound(t, batchOps', applied', published')
  BY <1>3, Kept
<1>5. TurnsNext
  <2>1. TurnSound(At(t, "release"), batchOps', applied', published')
    BY <1>1, <1>4, MovedTurn DEF Delivering
  <2>2. t.batch \in published' => TurnSound(At(t, "queued"), batchOps', applied', published')
    BY <1>1, <1>4, MovedTurn DEF Delivering
  <2> QED BY <1>1, <1>3, <2>1, <2>2, TurnStep DEF To
<1>6. StoreNext /\ CallsNext /\ RequestsNext
  BY <1>1, <1>3, Kept
<1>7. published' \subseteq Batches /\ DOMAIN batchOps' = Batches
  BY <1>1, <1>2 DEF BufferInv
<1> QED BY <1>5, <1>6, <1>7, Parts

\* The end of a turn.
LEMMA CloseStep ==
  ASSUME BufferInv, NEW n \in Nodes, Close(n)
  PROVE  BufferInv'
<1>1. /\ UNCHANGED <<store, accepted, orphans, batchOps, applied, published>>
      /\ turn' = [turn EXCEPT ![n] = NoTurn]
      /\ call' = [c \in Callers |-> IF c = turn[n].by THEN [call[c] EXCEPT !.pc = "settled"] ELSE call[c]]
  BY DEF Close
<1>2. WorldGrows
  BY <1>1, SameWorld
<1>3. TurnsNext
  <2>1. DOMAIN NoTurn = TurnFields /\ NoTurn.done = {} /\ NoTurn.pc = "idle"
    BY DEF NoTurn, TurnFields
  <2>2. TurnSound(NoTurn, batchOps', applied', published')
    BY <2>1, IdleTurn DEF Delivering
  <2> QED BY <1>1, <1>2, <2>2, TurnStep
<1>4. CallsNext
  <2>1. ASSUME NEW c \in Callers PROVE CallSound(call'[c])
    <3>1. CallSound(call[c])
      BY DEF BufferInv
    <3>2. CallSound([call[c] EXCEPT !.pc = "settled"])
      BY <3>1, MovedCall
    <3> QED BY <1>1, <3>1, <3>2
  <2>2. DOMAIN call' = Callers
    BY <1>1
  <2> QED BY <2>1, <2>2 DEF CallsNext
<1> QED BY <1>1, <1>3, <1>4, TurnOnly

\* The steps of a shutdown open at most a turn.
LEMMA DrainStep ==
  ASSUME BufferInv, NEW n \in Nodes, DrainNext(n)
  PROVE  BufferInv'
<1>1. /\ UNCHANGED <<store, accepted, call, orphans, batchOps, applied, published>>
      /\ UNCHANGED turn \/ Open(n, "drain", Cardinality(Records) * 2, TRUE)
  BY DEF DrainNext, BeginDrain, DrainTurn, DrainReport
<1>2. WorldGrows
  BY <1>1, SameWorld
<1>3. TurnsNext
  <2>1. CASE UNCHANGED turn
    BY <1>2, <2>1, Kept
  <2>2. CASE Open(n, "drain", Cardinality(Records) * 2, TRUE)
    BY <1>2, <2>2, OpenTurn
  <2> QED BY <1>1, <2>1, <2>2
<1>4. CallsNext
  BY <1>1, <1>2, Kept
<1> QED BY <1>1, <1>3, <1>4, TurnOnly

\* A crash forgets the node's turn and calls; its appends may still arrive.
LEMMA CrashStep ==
  ASSUME BufferInv, NEW n \in Nodes, Crash(n)
  PROVE  BufferInv'
<1> DEFINE mine == {c \in Callers : call[c].node = n /\ call[c].pc # "done"}
           former(q) == IF q.kind = "append" /\ q.node = n THEN [q EXCEPT !.node = "former"] ELSE q
           sent == IF "late" \in Faults THEN {c \in mine : call[c].pc = "append"} ELSE {}
<1>1. /\ UNCHANGED <<store, accepted, batchOps, applied, published>>
      /\ turn' = [turn EXCEPT ![n] = NoTurn]
      /\ call' = [c \in Callers |-> IF c \in mine THEN Returned(c, "crashed")[c] ELSE call[c]]
      /\ \E late \in SUBSET sent :
           orphans' = {former(q) : q \in orphans \cup {AppendRequest(c) : c \in late}}
  BY DEF Crash
<1>2. WorldGrows
  BY <1>1, SameWorld
<1>3. TurnsNext
  <2>1. DOMAIN NoTurn = TurnFields /\ NoTurn.done = {} /\ NoTurn.pc = "idle"
    BY DEF NoTurn, TurnFields
  <2>2. TurnSound(NoTurn, batchOps', applied', published')
    BY <2>1, IdleTurn DEF Delivering
  <2> QED BY <1>1, <1>2, <2>2, TurnStep
<1>4. CallsNext
  <2>1. ASSUME NEW c \in Callers PROVE CallSound(call'[c])
    <3>1. CallSound(call[c])
      BY DEF BufferInv
    <3>2. Returned(c, "crashed")[c] = [IdleCall EXCEPT !.pc = "done", !.result = "crashed"]
      BY DEF Returned, BufferInv
    <3>3. CallSound([IdleCall EXCEPT !.pc = "done", !.result = "crashed"])
      BY ReturnedSound
    <3> QED BY <1>1, <3>1, <3>2, <3>3
  <2>2. DOMAIN call' = Callers
    BY <1>1
  <2> QED BY <2>1, <2>2 DEF CallsNext
<1>5. RequestsNext
  <2>1. PICK late \in SUBSET sent :
          orphans' = {former(q) : q \in orphans \cup {AppendRequest(c) : c \in late}}
    BY <1>1
  <2>2. ASSUME NEW q, RequestSound(q, batchOps', applied', published')
        PROVE  RequestSound(former(q), batchOps', applied', published')
    <3>1. CASE q.kind = "append" /\ q.node = n
      <4>1. DOMAIN q = {"kind", "op", "print", "node"} /\ q.op \in Records
        BY <2>2, <3>1 DEF RequestSound
      <4> DEFINE f == [q EXCEPT !.node = "former"]
      <4>2. f.kind = "append" /\ f.op = q.op /\ DOMAIN f = {"kind", "op", "print", "node"}
        BY <3>1, <4>1
      <4>3. former(q) = f
        BY <3>1
      <4> HIDE DEF f
      <4> QED BY <4>1, <4>2, <4>3 DEF RequestSound
    <3>2. CASE ~(q.kind = "append" /\ q.node = n)
      BY <2>2, <3>2
    <3> QED BY <3>1, <3>2
  <2>3. ASSUME NEW c \in late
        PROVE  RequestSound(AppendRequest(c), batchOps', applied', published')
    <3>1. c \in Callers /\ call[c].pc = "append"
      OBVIOUS
    <3>2. call[c].op \in Records
      BY <3>1 DEF BufferInv, CallSound
    <3> QED BY <3>2 DEF RequestSound, AppendRequest
  <2>4. \A q \in orphans : RequestSound(q, batchOps', applied', published')
    BY <1>2, RequestGrows DEF BufferInv, WorldGrows
  <2> HIDE DEF former, sent, mine
  <2> QED BY <2>1, <2>2, <2>3, <2>4 DEF RequestsNext
<1>6. StoreNext
  BY <1>1, <1>2, Kept
<1>7. published' \subseteq Batches /\ DOMAIN batchOps' = Batches
  BY <1>1 DEF BufferInv
<1> QED BY <1>3, <1>4, <1>5, <1>6, <1>7, Parts

\* A request nobody waits for arrives.
LEMMA LateStep ==
  ASSUME BufferInv, NEW q, Late(q)
  PROVE  BufferInv'
<1> DEFINE a == AppendRecord(store, q.op, q.print)
<1>1. /\ q \in orphans /\ orphans' \subseteq orphans
      /\ UNCHANGED <<turn, call, applied, published, batchOps>>
      /\ accepted' = IF q.kind = "append" /\ a.result = "appended" THEN accepted \cup {q.op} ELSE accepted
  BY DEF Late
<1>2. WorldGrows
  BY <1>1, SameWorld
<1>3. RequestSound(q, batchOps, applied, published) /\ Sound(store, accepted, batchOps, applied, published)
  BY <1>1 DEF BufferInv
<1>4. ASSUME Sound(store', accepted, batchOps, applied, published), q.kind # "append"
      PROVE  StoreNext
  BY <1>1, <1>4 DEF StoreNext, BufferInv
<1>5. ASSUME q.kind = "append" PROVE StoreNext
  <2>1. store' = a.state /\ q.op \in Records
    BY <1>3, <1>5 DEF Late, RequestSound
  <2>2. /\ Sound(a.state, accepted, batchOps, applied, published)
        /\ a.result = "appended" => Sound(a.state, accepted \cup {q.op}, batchOps, applied, published)
    BY <1>3, <2>1, AppendSound
  <2> HIDE DEF a
  <2> QED BY <1>1, <1>5, <2>1, <2>2 DEF StoreNext, BufferInv
<1>6. ASSUME q.kind = "claim" PROVE StoreNext
  <2>1. store' = ClaimWork(store, Claimable(store, q.at), q.open, q.upTo, q.at).state
    BY <1>6 DEF Late
  <2>2. Claimable(store, q.at) \subseteq SealedBatches(store)
    BY DEF Claimable
  <2>3. Sound(ClaimWork(store, Claimable(store, q.at), q.open, q.upTo, q.at).state,
              accepted, batchOps, applied, published)
    BY <1>3, <2>2, ClaimSound
  <2> QED BY <1>4, <1>6, <2>1, <2>3
<1>7. ASSUME q.kind = "install" PROVE StoreNext
  <2>1. store' = InstallBatch(store, q.fence, q.batch, q.ops, q.size, q.at).state
    BY <1>7 DEF Late
  <2>2. q.batch \in Batches /\ q.ops = batchOps[q.batch]
    BY <1>3, <1>7 DEF RequestSound
  <2>3. Sound(store', accepted, batchOps, applied, published)
    BY <1>3, <2>1, <2>2, InstallSound
  <2> QED BY <1>4, <1>7, <2>3
<1>8. ASSUME q.kind = "isolate" PROVE StoreNext
  <2>1. store' = QuarantineSingleton(store, q.fence, q.op, q.at).state
    BY <1>8 DEF Late
  <2>2. Sound(store', accepted, batchOps, applied, published)
    BY <1>3, <2>1, IsolateSound
  <2> QED BY <1>4, <1>8, <2>2
<1>9. ASSUME q.kind = "settle" PROVE StoreNext
  <2>1. store' = SettleBatch(store, q.batch, q.fence, q.how, q.done, q.at).state
    BY <1>9 DEF Late
  <2>2. MaySettle(q.how, q.batch, q.done, batchOps, applied, published)
    BY <1>3, <1>9 DEF RequestSound
  <2>3. Sound(store', accepted, batchOps, applied, published)
    BY <1>3, <2>1, <2>2, SettleSound
  <2> QED BY <1>4, <1>9, <2>3
<1>10. StoreNext
  BY <1>3, <1>5, <1>6, <1>7, <1>8, <1>9 DEF RequestSound
<1>11. TurnsNext /\ CallsNext /\ RequestsNext
  BY <1>1, <1>2, Kept
<1>12. published' \subseteq Batches /\ DOMAIN batchOps' = Batches
  BY <1>1 DEF BufferInv
<1> QED BY <1>10, <1>11, <1>12, Parts

\* Nothing of what the invariant is about changes.
LEMMA StillStep ==
  ASSUME BufferInv, UNCHANGED <<store, accepted, turn, call, orphans, batchOps, applied, published>>
  PROVE  BufferInv'
<1>1. CallsNext
  BY DEF BufferInv, CallsNext
<1> QED BY <1>1, CallsOnly

-----------------------------------------------------------------------------
(* A record is in one place                                                *)

\* The places of record r exclude one another.
Alone(s, r) ==
  /\ s.open[r] # NotOpen => r \notin s.lost
  /\ \A b \in Batches :
       /\ r \in s.sealed[b].ops =>
            /\ s.open[r] = NotOpen /\ r \notin s.lost
            /\ \A x \in Batches : r \notin s.lostBatches[x].ops /\ (x # b => r \notin s.sealed[x].ops)
       /\ r \in s.lostBatches[b].ops =>
            /\ s.open[r] = NotOpen /\ r \notin s.lost
            /\ \A x \in Batches : x # b => r \notin s.lostBatches[x].ops

\* A record has a place exactly while its receipt says buffered, and then one.
Once(s) ==
  \A r \in Records : (s.receipts[r].status = "buffered" <=> Held(s, r)) /\ Alone(s, r)

\* The places of r are the same in s and t.
SamePlaces(s, t, r) ==
  /\ t.open[r] = NotOpen <=> s.open[r] = NotOpen
  /\ r \in t.lost <=> r \in s.lost
  /\ \A b \in Batches : /\ r \in t.sealed[b].ops <=> r \in s.sealed[b].ops
                        /\ r \in t.lostBatches[b].ops <=> r \in s.lostBatches[b].ops

\* Then it is held as before and still alone.
LEMMA PlacesStay ==
  ASSUME NEW s, NEW t, NEW r, SamePlaces(s, t, r)
  PROVE  (Held(t, r) <=> Held(s, r)) /\ (Alone(s, r) => Alone(t, r))
<1>1. Held(t, r) <=> Held(s, r)
  BY DEF SamePlaces, Held
<1>2. Alone(s, r) => Alone(t, r)
  BY DEF SamePlaces, Alone
<1> QED BY <1>1, <1>2

\* A record none of whose places changed, and whose receipt is as buffered as
\* it was.
LEMMA StaysOnce ==
  ASSUME NEW s, NEW t, Once(s), NEW r \in Records, SamePlaces(s, t, r),
         t.receipts[r].status = "buffered" <=> s.receipts[r].status = "buffered"
  PROVE  (t.receipts[r].status = "buffered" <=> Held(t, r)) /\ Alone(t, r)
  BY PlacesStay DEF Once

\* Forgetting completed receipts moves no record.
LEMMA EvictsOnce ==
  ASSUME NEW s, NEW t, Once(s), Evicts(s, t)
  PROVE  Once(t)
<1>1. ASSUME NEW r \in Records
      PROVE  (t.receipts[r].status = "buffered" <=> Held(t, r)) /\ Alone(t, r)
  <2>1. SamePlaces(s, t, r)
    BY DEF Evicts, SamePlaces
  <2>2. t.receipts[r] = s.receipts[r] \/ (Completed(s.receipts[r]) /\ t.receipts[r] = NoReceipt)
    BY DEF Evicts
  <2>3. t.receipts[r].status = "buffered" <=> s.receipts[r].status = "buffered"
    BY <2>2 DEF Completed, NoReceipt
  <2> QED BY <2>1, <2>3, StaysOnce
<1> QED BY <1>1 DEF Once

\* Changing the leases of open records moves none.
LEMMA ReleasesOnce ==
  ASSUME NEW s, NEW t, Once(s), Releases(s, t)
  PROVE  Once(t)
<1>1. ASSUME NEW r \in Records
      PROVE  (t.receipts[r].status = "buffered" <=> Held(t, r)) /\ Alone(t, r)
  <2>1. SamePlaces(s, t, r)
    BY DEF Releases, SamePlaces
  <2>2. t.receipts = s.receipts
    BY DEF Releases
  <2> QED BY <2>1, <2>2, StaysOnce
<1> QED BY <1>1 DEF Once

\* Nor does a batch that keeps its members.
LEMMA ResealsOnce ==
  ASSUME NEW s, NEW t, Once(s), NEW b \in Batches, NEW entry, Reseals(s, b, entry, t),
         entry.ops = s.sealed[b].ops
  PROVE  Once(t)
<1>1. ASSUME NEW r \in Records
      PROVE  (t.receipts[r].status = "buffered" <=> Held(t, r)) /\ Alone(t, r)
  <2>1. \A x \in Batches : t.sealed[x].ops = s.sealed[x].ops
    BY DEF Reseals
  <2>2. SamePlaces(s, t, r)
    BY <2>1 DEF Reseals, SamePlaces
  <2>3. t.receipts = s.receipts
    BY DEF Reseals
  <2> QED BY <2>2, <2>3, StaysOnce
<1> QED BY <1>1 DEF Once

\* The completion of a batch takes its members out of their only place.
LEMMA CompleteOnce ==
  ASSUME NEW s, Shape(s), Once(s), NEW b \in Batches, NEW status \in {"written", "queued"}
  PROVE  Once(CompleteReceipts([s EXCEPT !.sealed[b] = NoBatch], s.sealed[b].ops, status))
<1> DEFINE m == [s EXCEPT !.sealed[b] = NoBatch]
           ops == s.sealed[b].ops
           t == CompleteReceipts(m, ops, status)
<1>1. Reseals(s, b, NoBatch, m)
  BY DEF Reseals, Shape, StoreFields
<1>2. DOMAIN NoBatch = BatchFields /\ NoBatch.ops = {}
  BY DEF NoBatch, BatchFields
<1>3. Shape(m)
  BY <1>1, <1>2, ResealShape
<1>4. \A r \in Records : r \in ops <=> r \in s.sealed[b].ops
  OBVIOUS
<1> HIDE DEF m, ops
<1>5. Completes(m, ops, status, t)
  BY <1>3, CompleteCompletes
<1> HIDE DEF t
<1>6. /\ t.open = s.open /\ t.lost = s.lost /\ t.lostBatches = s.lostBatches /\ m.receipts = s.receipts
      /\ t.sealed[b].ops = {} /\ \A x \in Batches \ {b} : t.sealed[x] = s.sealed[x]
  BY <1>1, <1>2, <1>5 DEF Completes, Reseals
<1>7. ASSUME NEW r \in Records, r \notin ops
      PROVE  (t.receipts[r].status = "buffered" <=> Held(t, r)) /\ Alone(t, r)
  <2>1. SamePlaces(s, t, r)
    BY <1>4, <1>6, <1>7 DEF SamePlaces
  <2>2. \/ t.receipts[r] = NoReceipt /\ (Completed(s.receipts[r]) \/ s.receipts[r] = NoReceipt)
        \/ t.receipts[r] = s.receipts[r]
    BY <1>5, <1>6, <1>7 DEF Completes
  <2>3. t.receipts[r].status = "buffered" <=> s.receipts[r].status = "buffered"
    BY <2>2 DEF Completed, NoReceipt
  <2> QED BY <2>1, <2>3, StaysOnce
<1>8. ASSUME NEW r \in Records, r \in ops
      PROVE  (t.receipts[r].status = "buffered" <=> Held(t, r)) /\ Alone(t, r)
  <2>1. Held(s, r) /\ Alone(s, r) /\ s.receipts[r].status = "buffered" /\ r \in s.sealed[b].ops
    BY <1>4, <1>8 DEF Once, Held
  <2>2. ~Held(t, r)
    BY <1>6, <2>1 DEF Held, Alone
  <2>3. Alone(t, r)
    BY <2>2 DEF Alone, Held
  <2>4. t.receipts[r].status # "buffered"
    BY <1>5, <1>6, <1>8, <2>1 DEF Completes, NoReceipt
  <2> QED BY <2>2, <2>3, <2>4
<1> QED BY <1>7, <1>8 DEF Once, t, m, ops

\* An admission gives a record without a receipt its place.
LEMMA OpenOnce ==
  ASSUME NEW s, Shape(s), Once(s), NEW r \in Records, s.receipts[r] = NoReceipt,
         NEW receipt, DOMAIN receipt = ReceiptFields, receipt.mark \in Nat,
         receipt.status = "buffered", NEW mark \in Nat, mark # 0
  PROVE  Once([s EXCEPT !.mark = mark, !.receipts[r] = receipt,
                         !.open[r] = [mark |-> mark, fence |-> NoFence, until |-> 0]])
<1> DEFINE t == [s EXCEPT !.mark = mark, !.receipts[r] = receipt,
                          !.open[r] = [mark |-> mark, fence |-> NoFence, until |-> 0]]
<1>0. Opens(s, r, receipt, t)
  BY OpenShape
<1> HIDE DEF t
<1>1. /\ Shape(t) /\ t.sealed = s.sealed /\ t.lost = s.lost /\ t.lostBatches = s.lostBatches
      /\ t.open[r] # NotOpen /\ \A q \in Records \ {r} : t.open[q] = s.open[q]
      /\ t.receipts[r] = receipt /\ \A q \in Records \ {r} : t.receipts[q] = s.receipts[q]
  BY <1>0 DEF Opens
<1>2. ASSUME NEW q \in Records, q # r
      PROVE  (t.receipts[q].status = "buffered" <=> Held(t, q)) /\ Alone(t, q)
  <2>1. SamePlaces(s, t, q)
    BY <1>1, <1>2 DEF SamePlaces
  <2> QED BY <1>1, <1>2, <2>1, StaysOnce
<1>3. (t.receipts[r].status = "buffered" <=> Held(t, r)) /\ Alone(t, r)
  <2>1. ~Held(s, r)
    BY DEF Once, NoReceipt
  <2>2. Held(t, r)
    BY <1>1 DEF Held
  <2>3. Alone(t, r)
    BY <1>1, <2>1 DEF Held, Alone
  <2> QED BY <1>1, <2>2, <2>3
<1> QED BY <1>2, <1>3 DEF Once, t

\* append_record keeps every record in one place.
LEMMA AppendOnceKept ==
  ASSUME NEW s, Shape(s), Once(s), NEW r \in Records, NEW print
  PROVE  Once(AppendRecord(s, r, print).state)
<1> DEFINE a == AppendRecord(s, r, print)
           charge == Cost[r] + ReceiptCost
           room == Reclaim(s, ByteLimit - charge)
           mark == s.mark + 1
           receipt == [status |-> "buffered", print |-> print, mark |-> mark]
           new == [room.state EXCEPT !.mark = mark, !.receipts[r] = receipt,
                           !.open[r] = [mark |-> mark, fence |-> NoFence, until |-> 0]]
<1>1. mark \in Nat /\ mark # 0
  BY DEF Shape
<1>2. \/ a.state = s
      \/ s.receipts[r] = NoReceipt /\ a.state = Trim(new)
      \/ a.state = room.state
  BY DEF AppendRecord, Answer
<1>3. Evicts(s, room.state)
  BY ReclaimEvicts
<1>4. DOMAIN receipt = ReceiptFields /\ receipt.mark \in Nat /\ receipt.status = "buffered"
  BY <1>1 DEF ReceiptFields
<1> HIDE DEF a, charge, room, mark, receipt
<1>5. Once(room.state) /\ Shape(room.state) /\ (s.receipts[r] = NoReceipt => room.state.receipts[r] = NoReceipt)
  <2>1. Once(room.state)
    BY <1>3, EvictsOnce
  <2> QED BY <1>3, <2>1 DEF Evicts
<1>6. ASSUME s.receipts[r] = NoReceipt PROVE Once(Trim(new))
  <2>1. Once(new)
    BY <1>1, <1>4, <1>5, <1>6, OpenOnce
  <2>2. Opens(room.state, r, receipt, new)
    BY <1>1, <1>4, <1>5, OpenShape
  <2> HIDE DEF new
  <2>3. Shape(new)
    BY <2>2 DEF Opens
  <2> QED BY <2>1, <2>3, TrimEvicts, EvictsOnce
<1>7. Once(a.state)
  BY <1>2, <1>5, <1>6
<1> QED BY <1>7 DEF a

\* So does the expiry of claims,
LEMMA ExpireOnce ==
  ASSUME NEW s, Shape(s), Once(s), NEW at
  PROVE  Once(ExpireOpen(s, at)) /\ Shape(ExpireOpen(s, at))
<1>1. Releases(s, ExpireOpen(s, at))
  BY ExpireReleases
<1>2. Once(ExpireOpen(s, at))
  BY <1>1, ReleasesOnce
<1> QED BY <1>1, <1>2 DEF Releases

\* claim_work, which changes leases only,
LEMMA ClaimOnce ==
  ASSUME NEW s, Shape(s), Once(s), NEW due, due \subseteq SealedBatches(s), NEW open, NEW upTo, NEW at
  PROVE  Once(ClaimWork(s, due, open, upTo, at).state)
<1> DEFINE a == ClaimWork(s, due, open, upTo, at)
           e == ExpireOpen(s, at)
           b == CHOOSE x \in due : \A y \in due : FirstItem(e, x) <= FirstItem(e, y)
           rs == Candidate(e, upTo)
<1>1. Releases(s, e)
  BY ExpireReleases
<1>2. Once(e) /\ Shape(e) /\ due \subseteq SealedBatches(e)
  <2>1. e.sealed = s.sealed
    BY <1>1 DEF Releases
  <2> QED BY <2>1, ExpireOnce DEF SealedBatches
<1>3. due # {} => b \in due
  BY <1>2, OldestDue
<1>4. \/ due # {} /\ a.state = ClaimSealed(e, b, at)
      \/ a.state = ClaimOpen(e, rs, at)
      \/ a.state = e
  <2>1. CASE due # {}
    BY <2>1 DEF ClaimWork, Answer
  <2>2. CASE due = {} /\ open /\ Eligible(e, upTo) # {}
    BY <2>2 DEF ClaimWork, Answer
  <2>3. CASE due = {} /\ ~(open /\ Eligible(e, upTo) # {})
    BY <2>3 DEF ClaimWork, Answer
  <2> QED BY <2>1, <2>2, <2>3
<1>5. rs \subseteq OpenRecords(e)
  BY CandidateOpen
<1> HIDE DEF a, e, b, rs
<1>6. Once(ClaimOpen(e, rs, at))
  BY <1>2, <1>5, ClaimOpenReleases, ReleasesOnce
<1>7. ASSUME due # {} PROVE Once(ClaimSealed(e, b, at))
  <2>1. b \in Batches /\ e.sealed[b] # NoBatch
    BY <1>2, <1>3, <1>7 DEF SealedBatches
  <2>2. PICK entry : Reseals(e, b, entry, ClaimSealed(e, b, at)) /\ entry.ops = e.sealed[b].ops
    BY <1>2, <2>1, ClaimSealedReseals
  <2> QED BY <1>2, <2>1, <2>2, ResealsOnce
<1>8. Once(a.state)
  BY <1>2, <1>4, <1>6, <1>7
<1> QED BY <1>8 DEF a

\* the installation of a batch, which moves open records into it,
LEMMA InstallOnce ==
  ASSUME NEW s, Shape(s), Once(s), NEW fence, NEW b \in Batches, NEW ops, NEW size, NEW at
  PROVE  Once(InstallBatch(s, fence, b, ops, size, at).state)
<1> DEFINE e == ExpireOpen(s, at)
           t == InstallBatch(s, fence, b, ops, size, at).state
<1>1. Once(e)
  BY ExpireOnce
<1>2. t = e \/ Installs(e, b, ops, t)
  BY InstallInstalls
<1> HIDE DEF e, t
<1>3. ASSUME Installs(e, b, ops, t), NEW r \in Records
      PROVE  (t.receipts[r].status = "buffered" <=> Held(t, r)) /\ Alone(t, r)
  <2>0. t.receipts = e.receipts
    BY <1>3 DEF Installs
  <2>1. CASE r \notin ops
    <3>1. r \notin e.sealed[b].ops
      BY <1>3 DEF Installs, NoBatch
    <3>2. SamePlaces(e, t, r)
      BY <1>3, <2>1, <3>1 DEF SamePlaces, Installs
    <3> QED BY <1>1, <2>0, <3>2, StaysOnce
  <2>2. CASE r \in ops
    <3>1. e.open[r] # NotOpen /\ Held(e, r) /\ Alone(e, r) /\ e.receipts[r].status = "buffered"
      BY <1>1, <1>3, <2>2 DEF Once, Held, Installs
    <3>2. r \in t.sealed[b].ops /\ t.open[r] = NotOpen
      BY <1>3, <2>2 DEF Installs
    <3>3. Held(t, r)
      BY <3>2 DEF Held
    <3>4. r \notin t.lost /\ \A x \in Batches : r \notin t.lostBatches[x].ops /\ (x # b => r \notin t.sealed[x].ops)
      BY <1>3, <3>1 DEF Alone, Installs
    <3>5. Alone(t, r)
      BY <3>2, <3>4 DEF Alone
    <3> QED BY <2>0, <3>1, <3>3, <3>5
  <2> QED BY <2>1, <2>2
<1>4. Installs(e, b, ops, t) => Once(t)
  BY <1>3 DEF Once
<1> QED BY <1>1, <1>2, <1>4 DEF t

\* the quarantine of a single record,
LEMMA IsolateOnce ==
  ASSUME NEW s, Shape(s), Once(s), NEW fence, NEW r, NEW at
  PROVE  Once(QuarantineSingleton(s, fence, r, at).state)
<1> DEFINE e == ExpireOpen(s, at)
           t == QuarantineSingleton(s, fence, r, at).state
<1>1. Once(e)
  BY ExpireOnce
<1>2. t = e \/ Isolates(e, r, t)
  BY IsolateIsolates
<1> HIDE DEF e, t
<1>3. ASSUME Isolates(e, r, t), NEW q \in Records
      PROVE  (t.receipts[q].status = "buffered" <=> Held(t, q)) /\ Alone(t, q)
  <2>1. CASE q # r
    <3>1. SamePlaces(e, t, q)
      BY <1>3, <2>1 DEF SamePlaces, Isolates
    <3> QED BY <1>1, <1>3, <3>1, StaysOnce DEF Isolates
  <2>2. CASE q = r
    <3>1. e.open[r] # NotOpen /\ Held(e, r) /\ Alone(e, r) /\ e.receipts[r].status = "buffered"
      BY <1>1, <1>3 DEF Once, Held, Isolates
    <3>2. Held(t, r) /\ t.open[r] = NotOpen
      BY <1>3 DEF Held, Isolates
    <3>3. \A x \in Batches : r \notin t.lostBatches[x].ops /\ r \notin t.sealed[x].ops
      BY <1>3, <3>1 DEF Alone, Isolates
    <3>4. Alone(t, r)
      BY <3>2, <3>3 DEF Alone
    <3> QED BY <1>3, <2>2, <3>1, <3>2, <3>4 DEF Isolates
  <2> QED BY <2>1, <2>2
<1>4. Isolates(e, r, t) => Once(t)
  BY <1>3 DEF Once
<1> QED BY <1>1, <1>2, <1>4 DEF t

\* and the settlement of a batch that is not in quarantine as well.
LEMMA SettleOnce ==
  ASSUME NEW s, Shape(s), Once(s), NEW b \in Batches, s.sealed[b] # NoBatch => s.lostBatches[b] = NoBatch,
         NEW fence, NEW done, NEW at,
         NEW how \in {"delivered", "partial", "quarantine", "queued", "release"}
  PROVE  Once(SettleBatch(s, b, fence, how, done, at).state)
<1> DEFINE t == SettleBatch(s, b, fence, how, done, at).state
<1>1. Settles(s, b, how, done, t)
  BY SettleSettles
<1> HIDE DEF t
<1>2. ASSUME NEW status \in {"written", "queued"},
             t = CompleteReceipts([s EXCEPT !.sealed[b] = NoBatch], s.sealed[b].ops, status)
      PROVE  Once(t)
  BY <1>2, CompleteOnce
<1>3. ASSUME NEW entry, Reseals(s, b, entry, t), entry.ops = s.sealed[b].ops
      PROVE  Once(t)
  BY <1>3, ResealsOnce
<1>4. ASSUME s.sealed[b] # NoBatch, SetsAside(s, b, t), NEW r \in Records
      PROVE  (t.receipts[r].status = "buffered" <=> Held(t, r)) /\ Alone(t, r)
  <2>0. r \notin s.lostBatches[b].ops /\ r \notin t.sealed[b].ops
    BY <1>4 DEF NoBatch, SetsAside
  <2>1. CASE r \notin s.sealed[b].ops
    <3>1. SamePlaces(s, t, r)
      BY <1>4, <2>0, <2>1 DEF SamePlaces, SetsAside
    <3> QED BY <1>4, <3>1, StaysOnce DEF SetsAside
  <2>2. CASE r \in s.sealed[b].ops
    <3>1. Held(s, r) /\ Alone(s, r) /\ s.receipts[r].status = "buffered"
      BY <2>2 DEF Once, Held
    <3>2. r \in t.lostBatches[b].ops /\ t.open[r] = NotOpen /\ r \notin t.lost
      BY <1>4, <2>2, <3>1 DEF SetsAside, Alone
    <3>3. Held(t, r)
      BY <3>2 DEF Held
    <3>4. \A x \in Batches : r \notin t.sealed[x].ops /\ (x # b => r \notin t.lostBatches[x].ops)
      BY <1>4, <2>0, <2>2, <3>1 DEF SetsAside, Alone
    <3>5. Alone(t, r)
      BY <3>2, <3>4 DEF Alone
    <3> QED BY <1>4, <3>1, <3>3, <3>5 DEF SetsAside
  <2> QED BY <2>1, <2>2
<1>5. s.sealed[b] # NoBatch /\ SetsAside(s, b, t) => Once(t)
  BY <1>4 DEF Once
<1>6. Once(t)
  BY <1>1, <1>2, <1>3, <1>5 DEF Settles
<1> QED BY <1>6 DEF t

\* Every step of the engine keeps records in one place.
LEMMA OnceStep ==
  ASSUME BufferInv, Once(store), [EngineNext]_engineVars
  PROVE  Once(store')
<1>1. Shape(store) /\ \A b \in Batches : store.sealed[b] # NoBatch => store.lostBatches[b] = NoBatch
  BY DEF BufferInv, Sound
<1>2. ASSUME UNCHANGED store PROVE Once(store')
  BY <1>2
<1>3. ASSUME NEW c \in Callers, AppendOnce(c) PROVE Once(store')
  <2>1. store' = AppendRecord(store, call[c].op, call[c].print).state /\ call[c].op \in Records
    BY <1>3 DEF AppendOnce, BufferInv, CallSound
  <2> QED BY <1>1, <2>1, AppendOnceKept
<1>4. ASSUME NEW n \in Nodes, Claim(n) PROVE Once(store')
  <2>1. \/ UNCHANGED store
        \/ \E due \in SUBSET Claimable(store, now) :
             store' = ClaimWork(store, due, turn[n].open, turn[n].upTo, now).state
    BY <1>4 DEF Claim
  <2>2. \A due \in SUBSET Claimable(store, now) : due \subseteq SealedBatches(store)
    BY DEF Claimable
  <2> QED BY <1>1, <1>2, <2>1, <2>2, ClaimOnce
<1>5. ASSUME NEW n \in Nodes, Seal(n) PROVE Once(store')
  <2>1. \/ UNCHANGED store
        \/ \E b \in Batches, ops \in SplitsOf(store, turn[n].ops), excess \in {0, 1} :
             store' = InstallBatch(store, turn[n].fence, b, ops, Reserved(ops) + excess, now).state
        \/ \E r : store' = QuarantineSingleton(store, turn[n].fence, r, now).state
        \/ store' = ReleaseCandidate(ExpireOpen(store, now), turn[n].fence)
    BY <1>5 DEF Seal
  <2>2. Once(ReleaseCandidate(ExpireOpen(store, now), turn[n].fence))
    <3>1. Once(ExpireOpen(store, now)) /\ Shape(ExpireOpen(store, now))
      BY <1>1, ExpireOnce
    <3> QED BY <3>1, ReleaseReleases, ReleasesOnce
  <2> QED BY <1>1, <1>2, <2>1, <2>2, InstallOnce, IsolateOnce
<1>6. ASSUME NEW n \in Nodes, Settle(n) PROVE Once(store')
  <2> DEFINE t == turn[n]
             how == Disposition(t.pc)
  <2>1. /\ t.pc \in {"delivered", "partial", "quarantine", "queued", "release"}
        /\ UNCHANGED store \/ store' = SettleBatch(store, t.batch, t.fence, how, t.done, now).state
    BY <1>6 DEF Settle
  <2>2. how = t.pc
    BY <2>1 DEF Disposition
  <2>3. t.batch \in Batches
    BY <2>1 DEF BufferInv, TurnSound, Delivering
  <2> HIDE DEF how
  <2> QED BY <1>1, <1>2, <2>1, <2>2, <2>3, SettleOnce
<1>7. ASSUME NEW q \in orphans, Late(q) PROVE Once(store')
  <2>1. RequestSound(q, batchOps, applied, published)
    BY DEF BufferInv
  <2>2. CASE q.kind = "append"
    <3>1. store' = AppendRecord(store, q.op, q.print).state /\ q.op \in Records
      BY <1>7, <2>1, <2>2 DEF Late, RequestSound
    <3> QED BY <1>1, <3>1, AppendOnceKept
  <2>3. CASE q.kind = "claim"
    <3>1. store' = ClaimWork(store, Claimable(store, q.at), q.open, q.upTo, q.at).state
      BY <1>7, <2>3 DEF Late
    <3>2. Claimable(store, q.at) \subseteq SealedBatches(store)
      BY DEF Claimable
    <3> QED BY <1>1, <3>1, <3>2, ClaimOnce
  <2>4. CASE q.kind = "install"
    <3>1. store' = InstallBatch(store, q.fence, q.batch, q.ops, q.size, q.at).state
      BY <1>7, <2>4 DEF Late
    <3>2. q.batch \in Batches
      BY <2>1, <2>4 DEF RequestSound
    <3> QED BY <1>1, <3>1, <3>2, InstallOnce
  <2>5. CASE q.kind = "isolate"
    <3>1. store' = QuarantineSingleton(store, q.fence, q.op, q.at).state
      BY <1>7, <2>5 DEF Late
    <3> QED BY <1>1, <3>1, IsolateOnce
  <2>6. CASE q.kind = "settle"
    <3>1. store' = SettleBatch(store, q.batch, q.fence, q.how, q.done, q.at).state
      BY <1>7, <2>6 DEF Late
    <3>2. /\ q.batch \in Batches
          /\ q.how \in {"delivered", "partial", "quarantine", "queued", "release"}
      BY <2>1, <2>6 DEF RequestSound, MaySettle
    <3> QED BY <1>1, <3>1, <3>2, SettleOnce
  <2> QED BY <2>1, <2>2, <2>3, <2>4, <2>5, <2>6 DEF RequestSound
<1>8. ASSUME NEW c \in Callers, CallerNext(c) PROVE Once(store')
  BY <1>2, <1>3, <1>8 DEF CallerNext, Begin, Stage, StartSyncTurn, SyncReturn, GiveUp
<1>9. ASSUME NEW n \in Nodes, TurnNext(n) PROVE Once(store')
  BY <1>2, <1>4, <1>5, <1>6, <1>9
     DEF TurnNext, StartDriverTurn, Look, Permit, Attempt, Failed, Handoff, Close
<1>10. ASSUME NEW n \in Nodes, DrainNext(n) \/ Crash(n) PROVE Once(store')
  BY <1>2, <1>10 DEF DrainNext, BeginDrain, DrainTurn, DrainReport, Crash
<1>11. CASE Tick \/ UNCHANGED engineVars
  BY <1>2, <1>11 DEF Tick, engineVars
<1> QED BY <1>7, <1>8, <1>9, <1>10, <1>11 DEF EngineNext

\* A set with one element, and a set with none.
LEMMA Counts ==
  ASSUME NEW S
  PROVE  (S = {} => Cardinality(S) = 0) /\ ((\E p : S = {p}) => Cardinality(S) = 1)
  BY FS_EmptySet, FS_Singleton

\* One place each is what HeldOnce counts.
LEMMA OnceCounts ==
  ASSUME Once(store)
  PROVE  HeldOnce
<1>1. ASSUME NEW r \in Records
      PROVE  LET places == (IF r \in OpenRecords(store) THEN {<<"open", 0>>} ELSE {})
                            \cup (IF r \in store.lost THEN {<<"lost", 0>>} ELSE {})
                            \cup {<<"sealed", b>> : b \in {x \in Batches : r \in store.sealed[x].ops}}
                            \cup {<<"lost", b>> : b \in {x \in Batches : r \in store.lostBatches[x].ops}}
             IN Cardinality(places) = IF store.receipts[r].status = "buffered" THEN 1 ELSE 0
  <2> DEFINE A == IF r \in OpenRecords(store) THEN {<<"open", 0>>} ELSE {}
             B == IF r \in store.lost THEN {<<"lost", 0>>} ELSE {}
             sealedIn == {x \in Batches : r \in store.sealed[x].ops}
             lostIn == {x \in Batches : r \in store.lostBatches[x].ops}
             C == {<<"sealed", b>> : b \in sealedIn}
             D == {<<"lost", b>> : b \in lostIn}
             places == A \cup B \cup C \cup D
  <2>1. (store.receipts[r].status = "buffered" <=> Held(store, r)) /\ Alone(store, r)
    BY DEF Once
  <2>2. r \in OpenRecords(store) <=> store.open[r] # NotOpen
    BY DEF OpenRecords
  <2>3. CASE ~Held(store, r)
    <3>1. A = {} /\ B = {} /\ sealedIn = {} /\ lostIn = {}
      BY <2>2, <2>3 DEF Held
    <3>2. places = {}
      BY <3>1
    <3> QED BY <2>1, <2>3, <3>2, Counts
  <2>4. CASE store.open[r] # NotOpen
    <3>1. Held(store, r) /\ A = {<<"open", 0>>} /\ B = {} /\ sealedIn = {} /\ lostIn = {}
      BY <2>1, <2>2, <2>4 DEF Alone, Held
    <3>2. places = {<<"open", 0>>}
      BY <3>1
    <3> QED BY <2>1, <3>1, <3>2, Counts
  <2>5. CASE r \in store.lost
    <3>1. Held(store, r) /\ A = {} /\ B = {<<"lost", 0>>} /\ sealedIn = {} /\ lostIn = {}
      BY <2>1, <2>2, <2>5 DEF Alone, Held
    <3>2. places = {<<"lost", 0>>}
      BY <3>1
    <3> QED BY <2>1, <3>1, <3>2, Counts
  <2>6. CASE \E b \in Batches : r \in store.sealed[b].ops
    <3>1. PICK b \in Batches : r \in store.sealed[b].ops
      BY <2>6
    <3>2. Held(store, r) /\ A = {} /\ B = {} /\ sealedIn = {b} /\ lostIn = {}
      BY <2>1, <2>2, <3>1 DEF Alone, Held
    <3>3. places = {<<"sealed", b>>}
      BY <3>2
    <3> QED BY <2>1, <3>2, <3>3, Counts
  <2>7. CASE \E b \in Batches : r \in store.lostBatches[b].ops
    <3>1. PICK b \in Batches : r \in store.lostBatches[b].ops
      BY <2>7
    <3>2. Held(store, r) /\ A = {} /\ B = {} /\ sealedIn = {} /\ lostIn = {b}
      BY <2>1, <2>2, <3>1 DEF Alone, Held
    <3>3. places = {<<"lost", b>>}
      BY <3>2
    <3> QED BY <2>1, <3>2, <3>3, Counts
  <2> QED BY <2>3, <2>4, <2>5, <2>6, <2>7 DEF Held
<1> QED BY <1>1 DEF HeldOnce

-----------------------------------------------------------------------------
(* The theorem                                                             *)

\* The empty buffer of an engine that has just started is sound.
LEMMA InitSound ==
  ASSUME EngineInit
  PROVE  BufferInv
<1>1. Shape(store)
  BY DEF EngineInit, EmptyState, Shape, StoreFields, EntryFields, BatchFields, ReceiptFields,
         NotOpen, NoBatch, NoReceipt, NoFence
<1>2. Sound(store, accepted, batchOps, applied, published)
  BY <1>1 DEF EngineInit, EmptyState, Sound, NoReceipt
<1>3. DOMAIN NoTurn = TurnFields /\ NoTurn.done = {} /\ NoTurn.pc = "idle"
  BY DEF NoTurn, TurnFields
<1>4. TurnSound(NoTurn, batchOps, applied, published)
  BY <1>3 DEF TurnSound, Delivering
<1>5. CallSound(IdleCall)
  BY DEF CallSound, CallFields, IdleCall
<1> QED BY <1>2, <1>4, <1>5 DEF EngineInit, BufferInv

\* Every step of the engine keeps the invariant.
LEMMA NextSound ==
  ASSUME BufferInv, [EngineNext]_engineVars
  PROVE  BufferInv'
<1>1. ASSUME NEW c \in Callers, CallerNext(c) PROVE BufferInv'
  BY <1>1, BeginStep, StageStep, AppendOnceStep, StartSyncTurnStep, SyncReturnStep, GiveUpStep DEF CallerNext
<1>2. ASSUME NEW n \in Nodes, TurnNext(n) PROVE BufferInv'
  BY <1>2, StartDriverTurnStep, LookStep, ClaimStep, SealStep, PermitStep, AttemptStep, SettleStep,
     FailedStep, HandoffStep, CloseStep DEF TurnNext
<1>3. CASE Tick
  BY <1>3, StillStep DEF Tick
<1>4. CASE UNCHANGED engineVars
  BY <1>4, StillStep DEF engineVars
<1> QED
  BY <1>1, <1>2, <1>3, <1>4, DrainStep, CrashStep, LateStep DEF EngineNext

\* The places of a record are the ones the properties count.
LEMMA PlacesOf ==
  ASSUME NEW s, NEW r \in Records, Held(s, r)
  PROVE  r \in Unsettled(s) \cup Quarantined(s)
<1>1. CASE s.open[r] # NotOpen \/ r \in s.lost
  BY <1>1 DEF Unsettled, OpenRecords, Quarantined
<1>2. CASE \E b \in Batches : r \in s.sealed[b].ops
  <2>1. PICK b \in Batches : r \in s.sealed[b].ops
    BY <1>2
  <2>2. s.sealed[b] # NoBatch
    BY <2>1 DEF NoBatch
  <2> QED BY <2>1, <2>2 DEF Unsettled, SealedBatches
<1>3. CASE \E b \in Batches : r \in s.lostBatches[b].ops
  <2>1. PICK b \in Batches : r \in s.lostBatches[b].ops
    BY <1>3
  <2>2. s.lostBatches[b] # NoBatch
    BY <2>1 DEF NoBatch
  <2> QED BY <2>1, <2>2 DEF Quarantined, LostBatches
<1> QED BY <1>1, <1>2, <1>3 DEF Held

\* The invariant says what the properties promise.
LEMMA InvSays ==
  ASSUME BufferInv
  PROVE  ReceiptsTruthful /\ NothingLost
<1>1. ReceiptsTruthful
  BY DEF BufferInv, Sound, ReceiptsTruthful
<1>2. ASSUME NEW r \in accepted
      PROVE  \/ r \in Unsettled(store) \cup Quarantined(store) \cup applied
             \/ \E b \in published : r \in batchOps[b]
  <2>1. r \in Records /\ (Held(store, r) \/ Outside(r, batchOps, applied, published))
    BY DEF BufferInv, Sound
  <2> QED BY <2>1, PlacesOf DEF Outside
<1> QED BY <1>1, <1>2 DEF NothingLost

\* The empty buffer holds nothing.
LEMMA InitOnce ==
  ASSUME EngineInit
  PROVE  Once(store)
  BY DEF EngineInit, EmptyState, Once, Held, Alone, NoReceipt, NoBatch

\* Both invariants hold in every reachable state.
LEMMA BufferInductive == EngineSpec => [](BufferInv /\ Once(store))
<1>1. EngineInit => BufferInv /\ Once(store)
  BY InitSound, InitOnce
<1>2. BufferInv /\ Once(store) /\ [EngineNext]_engineVars => BufferInv' /\ Once(store)'
  BY NextSound, OnceStep
<1> QED
  BY <1>1, <1>2, PTL DEF EngineSpec

\* Whatever times out, arrives late, fails or crashes, on any number of nodes
\* that share one buffer, a receipt says written only when the sink has applied
\* the operation and queued only when the queue holds its batch.
THEOREM BufferTruthful == EngineSpec => []ReceiptsTruthful
<1>1. BufferInv => ReceiptsTruthful
  BY InvSays
<1> QED
  BY <1>1, BufferInductive, PTL

\* An operation whose append took effect waits, is quarantined, was applied or
\* is in a batch of the queue; while its receipt says buffered it is in exactly
\* one place, and otherwise in none.
THEOREM BufferKeeps == EngineSpec => [](NothingLost /\ HeldOnce)
<1>1. BufferInv /\ Once(store) => NothingLost /\ HeldOnce
  BY InvSays, OnceCounts
<1> QED
  BY <1>1, BufferInductive, PTL


-----------------------------------------------------------------------------
(* Receipts appear only when an append takes effect                        *)

\* No record has a receipt in t that had none in s.
NoNew(s, t) == \A r \in Records : t.receipts[r] # NoReceipt => s.receipts[r] # NoReceipt

\* append_record gives a receipt to its own record alone, and then reports it appended.
LEMMA AppendReceipts ==
  ASSUME NEW s, Shape(s), NEW r \in Records, NEW print, NEW q \in Records,
         AppendRecord(s, r, print).state.receipts[q] # NoReceipt
  PROVE  s.receipts[q] # NoReceipt \/ (q = r /\ AppendRecord(s, r, print).result = "appended")
<1> DEFINE a == AppendRecord(s, r, print)
           charge == Cost[r] + ReceiptCost
           room == Reclaim(s, ByteLimit - charge)
           mark == s.mark + 1
           receipt == [status |-> "buffered", print |-> print, mark |-> mark]
           new == [room.state EXCEPT !.mark = mark, !.receipts[r] = receipt,
                           !.open[r] = [mark |-> mark, fence |-> NoFence, until |-> 0]]
<1>1. mark \in Nat /\ mark # 0
  BY DEF Shape
<1>2. \/ a.state = s
      \/ a.result = "appended" /\ a.state = Trim(new)
      \/ a.state = room.state
  BY DEF AppendRecord, Answer
<1>3. Evicts(s, room.state)
  BY ReclaimEvicts
<1>4. DOMAIN receipt = ReceiptFields /\ receipt.mark \in Nat
  BY <1>1 DEF ReceiptFields
<1>5. a.state.receipts[q] # NoReceipt
  OBVIOUS
<1> HIDE DEF a, charge, room, mark, receipt
<1>6. Shape(room.state) /\ NoNew(s, room.state)
  BY <1>3 DEF Evicts, NoNew
<1>7. Opens(room.state, r, receipt, new)
  BY <1>1, <1>4, <1>6, OpenShape
<1> HIDE DEF new
<1>8. NoNew(new, Trim(new)) /\ \A p \in Records \ {r} : new.receipts[p] = room.state.receipts[p]
  BY <1>7, TrimEvicts DEF Opens, Evicts, NoNew
<1>9. s.receipts[q] # NoReceipt \/ (q = r /\ a.result = "appended")
  BY <1>2, <1>5, <1>6, <1>8 DEF NoNew
<1> QED BY <1>9 DEF a

\* A claim gives no receipt,
LEMMA ClaimReceipts ==
  ASSUME NEW s, Shape(s), NEW due, due \subseteq SealedBatches(s), NEW open, NEW upTo, NEW at
  PROVE  NoNew(s, ClaimWork(s, due, open, upTo, at).state)
<1> DEFINE a == ClaimWork(s, due, open, upTo, at)
           e == ExpireOpen(s, at)
           b == CHOOSE x \in due : \A y \in due : FirstItem(e, x) <= FirstItem(e, y)
           rs == Candidate(e, upTo)
<1>1. Releases(s, e)
  BY ExpireReleases
<1>2. Shape(e) /\ due \subseteq SealedBatches(e)
  BY <1>1 DEF Releases, SealedBatches
<1>3. due # {} => b \in due
  BY <1>2, OldestDue
<1>4. \/ due # {} /\ a.state = ClaimSealed(e, b, at)
      \/ a.state = ClaimOpen(e, rs, at)
      \/ a.state = e
  <2>1. CASE due # {}
    BY <2>1 DEF ClaimWork, Answer
  <2>2. CASE due = {} /\ open /\ Eligible(e, upTo) # {}
    BY <2>2 DEF ClaimWork, Answer
  <2>3. CASE due = {} /\ ~(open /\ Eligible(e, upTo) # {})
    BY <2>3 DEF ClaimWork, Answer
  <2> QED BY <2>1, <2>2, <2>3
<1>5. rs \subseteq OpenRecords(e)
  BY CandidateOpen
<1> HIDE DEF a, e, b, rs
<1>6. ClaimOpen(e, rs, at).receipts = e.receipts
  BY <1>2, <1>5, ClaimOpenReleases DEF Releases
<1>7. due # {} => ClaimSealed(e, b, at).receipts = e.receipts
  BY <1>2, <1>3, ClaimSealedReseals DEF Reseals, SealedBatches
<1>8. a.state.receipts = s.receipts
  BY <1>1, <1>4, <1>6, <1>7 DEF Releases
<1> QED BY <1>8 DEF a, NoNew

\* nor does the installation of a batch or the quarantine of a record,
LEMMA SealReceipts ==
  ASSUME NEW s, Shape(s), NEW fence, NEW at
  PROVE  /\ \A b \in Batches : \A ops, size : NoNew(s, InstallBatch(s, fence, b, ops, size, at).state)
         /\ \A r : NoNew(s, QuarantineSingleton(s, fence, r, at).state)
         /\ NoNew(s, ReleaseCandidate(ExpireOpen(s, at), fence))
<1> DEFINE e == ExpireOpen(s, at)
<1>1. Releases(s, e) /\ Releases(e, ReleaseCandidate(e, fence))
  <2>1. Releases(s, e)
    BY ExpireReleases
  <2>2. Shape(e)
    BY <2>1 DEF Releases
  <2> QED BY <2>1, <2>2, ReleaseReleases
<1>2. ASSUME NEW b \in Batches, NEW ops, NEW size
      PROVE  NoNew(s, InstallBatch(s, fence, b, ops, size, at).state)
  <2> DEFINE t == InstallBatch(s, fence, b, ops, size, at).state
  <2>1. t = e \/ Installs(e, b, ops, t)
    BY InstallInstalls
  <2> HIDE DEF t, e
  <2>2. t.receipts = s.receipts
    BY <1>1, <2>1 DEF Installs, Releases
  <2> QED BY <2>2 DEF NoNew, t
<1>3. ASSUME NEW r PROVE NoNew(s, QuarantineSingleton(s, fence, r, at).state)
  <2> DEFINE t == QuarantineSingleton(s, fence, r, at).state
  <2>1. t = e \/ Isolates(e, r, t)
    BY IsolateIsolates
  <2> HIDE DEF t, e
  <2>2. t.receipts = s.receipts
    BY <1>1, <2>1 DEF Isolates, Releases
  <2> QED BY <2>2 DEF NoNew, t
<1>4. NoNew(s, ReleaseCandidate(e, fence))
  BY <1>1 DEF Releases, NoNew
<1> QED BY <1>2, <1>3, <1>4

\* nor a settlement.
LEMMA SettleReceipts ==
  ASSUME NEW s, Shape(s), NEW b \in Batches, NEW fence, NEW done, NEW at,
         NEW how \in {"delivered", "partial", "quarantine", "queued", "release"}
  PROVE  NoNew(s, SettleBatch(s, b, fence, how, done, at).state)
<1> DEFINE t == SettleBatch(s, b, fence, how, done, at).state
<1>1. Settles(s, b, how, done, t)
  BY SettleSettles
<1> HIDE DEF t
<1>2. ASSUME NEW status \in {"written", "queued"},
             t = CompleteReceipts([s EXCEPT !.sealed[b] = NoBatch], s.sealed[b].ops, status)
      PROVE  NoNew(s, t)
  <2> DEFINE w == [s EXCEPT !.sealed[b] = NoBatch]
  <2>1. Reseals(s, b, NoBatch, w)
    BY DEF Reseals, Shape, StoreFields
  <2>2. DOMAIN NoBatch = BatchFields
    BY DEF NoBatch, BatchFields
  <2> HIDE DEF w
  <2>3. Shape(w) /\ w.receipts = s.receipts
    BY <2>1, <2>2, ResealShape DEF Reseals
  <2>4. Completes(w, s.sealed[b].ops, status, t)
    BY <1>2, <2>3, CompleteCompletes DEF w
  <2> QED BY <2>3, <2>4 DEF Completes, NoNew
<1>3. t = s => NoNew(s, t)
  BY DEF NoNew
<1>4. ASSUME NEW entry, Reseals(s, b, entry, t) PROVE NoNew(s, t)
  BY <1>4 DEF Reseals, NoNew
<1>5. SetsAside(s, b, t) => NoNew(s, t)
  BY DEF SetsAside, NoNew
<1>6. NoNew(s, t)
  BY <1>1, <1>2, <1>3, <1>4, <1>5 DEF Settles
<1> QED BY <1>6 DEF t

-----------------------------------------------------------------------------
(* The admission gate                                                      *)

GateFields == {"closed", "mutations", "submissions", "holder", "dispatch"}
DispatchFields == {"active", "unknown", "bytes", "print"}
DrainFields == {"pc", "idle", "clean"}

\* The phases in which a submission holds an admission lease, and those in
\* which it holds a permit.
Leasing == {"reserve", "again", "append"}
Permitted == Leasing \cup {"sync", "turn", "settled"}

Inside(cl, n, pcs) == {c \in Callers : cl[c].node = n /\ cl[c].pc \in pcs}
Sending(cl, n, r) == {c \in Inside(cl, n, {"append"}) : cl[c].op = r}

GateShape(g) ==
  /\ DOMAIN g = GateFields /\ DOMAIN g.dispatch = Records
  /\ \A r \in Records : DOMAIN g.dispatch[r] = DispatchFields /\ g.dispatch[r].unknown \in BOOLEAN

\* The gate counts exactly who is inside.
GateCounts(g, cl, n) ==
  /\ g.mutations = Cardinality(Inside(cl, n, Leasing))
  /\ g.submissions = Cardinality(Inside(cl, n, Permitted))
  /\ \A r \in Records : g.dispatch[r].active = Cardinality(Sending(cl, n, r))

\* A submission inside names a node and a record; one that waits for a turn
\* is the one that turn works for.
CallPlaced(a) == a.pc \in Permitted => a.node \in Nodes /\ a.op \in Records
TurnServes(t, cl, n) == t.by \in Callers => cl[t.by].pc = "turn" /\ cl[t.by].node = n

\* A drain that saw no admissions has closed the gate first, so none follow.
DrainHolds(d, g, cl, n) ==
  /\ DOMAIN d = DrainFields /\ d.clean \in BOOLEAN
  /\ d.pc # "none" => g.closed = TRUE
  /\ d.pc = "none" => ~d.idle
  /\ d.idle => Inside(cl, n, Leasing) = {}
  /\ d.clean => d.idle /\ d.pc = "done"

\* An append left behind took effect, or the gate still counts it as unknown.
Accounted(q, g, acc, n) == q.kind = "append" /\ q.node = n => q.op \in acc \/ g.dispatch[q.op].unknown

GateInv ==
  /\ DOMAIN gate = Nodes /\ DOMAIN drain = Nodes
  /\ \A c \in Callers : CallPlaced(call[c])
  /\ \A r \in Records : store.receipts[r] # NoReceipt => r \in accepted
  /\ \A n \in Nodes :
       /\ GateShape(gate[n]) /\ GateCounts(gate[n], call, n)
       /\ TurnServes(turn[n], call, n)
       /\ DrainHolds(drain[n], gate[n], call, n)
       /\ turn[n].by = "drain" => drain[n].pc = "turn"
       /\ \A q \in orphans :
            /\ Accounted(q, gate[n], accepted, n)
            /\ drain[n].clean /\ q.kind = "append" /\ q.node = n => q.op \in accepted

-----------------------------------------------------------------------------
(* Counting                                                                *)

Flag(p) == IF p THEN 1 ELSE 0

\* Two sets of callers that differ in c at most.
LEMMA OneCaller ==
  ASSUME NEW S, S \subseteq Callers, NEW T, T \subseteq Callers, NEW c \in Callers, S \ {c} = T \ {c}
  PROVE  /\ Cardinality(S) \in Nat /\ Cardinality(T) \in Nat
         /\ Cardinality(T) = Cardinality(S) + Flag(c \in T) - Flag(c \in S)
<1>1. IsFiniteSet(S) /\ IsFiniteSet(T) /\ IsFiniteSet(S \ {c})
  BY EngineAssumption, FS_Subset
<1>2. Cardinality(S) = Cardinality(S \ {c}) + Flag(c \in S) /\ Cardinality(S \ {c}) \in Nat
  <2>1. CASE c \in S
    BY <1>1, <2>1, FS_RemoveElement, FS_CardinalityType DEF Flag
  <2>2. CASE c \notin S
    <3>1. Cardinality(S \ {c}) = Cardinality(S)
      <4>1. S \ {c} = S
        BY <2>2
      <4> QED BY <4>1
    <3>2. Cardinality(S) \in Nat
      BY <1>1, FS_CardinalityType
    <3> QED BY <2>2, <3>1, <3>2 DEF Flag
  <2> QED BY <2>1, <2>2
<1>3. Cardinality(T) = Cardinality(T \ {c}) + Flag(c \in T)
  <2>1. CASE c \in T
    BY <1>1, <2>1, FS_RemoveElement, FS_CardinalityType DEF Flag
  <2>2. CASE c \notin T
    <3>1. Cardinality(T \ {c}) = Cardinality(T)
      <4>1. T \ {c} = T
        BY <2>2
      <4> QED BY <4>1
    <3>2. Cardinality(T) \in Nat
      BY <1>1, FS_CardinalityType
    <3> QED BY <2>2, <3>1, <3>2 DEF Flag
  <2> QED BY <2>1, <2>2
<1>4. Flag(c \in S) \in {0, 1} /\ Flag(c \in T) \in {0, 1}
  BY DEF Flag
<1>5. Cardinality(S \ {c}) = Cardinality(T \ {c})
  OBVIOUS
<1>6. Cardinality(S) \in Nat /\ Cardinality(T) \in Nat
  BY <1>1, FS_CardinalityType
<1> QED BY <1>2, <1>3, <1>4, <1>5, <1>6

\* The counters are natural numbers.
LEMMA GateNumbers ==
  ASSUME GateInv, NEW n \in Nodes
  PROVE  /\ gate[n].mutations \in Nat /\ gate[n].submissions \in Nat
         /\ \A r \in Records : gate[n].dispatch[r].active \in Nat
<1>1. ASSUME NEW S, S \subseteq Callers PROVE Cardinality(S) \in Nat
  BY <1>1, EngineAssumption, FS_Subset, FS_CardinalityType
<1>2. Inside(call, n, Leasing) \subseteq Callers /\ Inside(call, n, Permitted) \subseteq Callers
  BY DEF Inside
<1>3. \A r \in Records : Sending(call, n, r) \subseteq Callers
  BY DEF Sending, Inside
<1> QED BY <1>1, <1>2, <1>3 DEF GateInv, GateCounts

-----------------------------------------------------------------------------
(* What the operations of the gate do to its counters                      *)

\* h is g with m more leases, s more permits and d more appends of r under way.
GateMoves(g, h, m, s, r, d) ==
  /\ GateShape(h) /\ h.closed = g.closed
  /\ h.mutations = g.mutations + m /\ h.submissions = g.submissions + s
  /\ h.dispatch[r].active = g.dispatch[r].active + d
  /\ \A q \in Records \ {r} : h.dispatch[q].active = g.dispatch[q].active

\* h forgets unknown appends of g only for records of S.
Forgets(g, h, S) == \A q \in Records : g.dispatch[q].unknown => h.dispatch[q].unknown \/ q \in S

Numbers(g) ==
  /\ g.mutations \in Int /\ g.submissions \in Int
  /\ \A r \in Records : g.dispatch[r].active \in Int

\* Moves add up.
LEMMA MovesAdd ==
  ASSUME NEW g, Numbers(g), NEW h, NEW k, NEW r \in Records, NEW m1 \in Int, NEW s1 \in Int, NEW d1 \in Int,
         NEW m2 \in Int, NEW s2 \in Int, NEW d2 \in Int,
         GateMoves(g, h, m1, s1, r, d1), GateMoves(h, k, m2, s2, r, d2)
  PROVE  GateMoves(g, k, m1 + m2, s1 + s2, r, d1 + d2)
  BY DEF GateMoves, Numbers

\* A moved gate still has numbers for counters.
LEMMA MovesNumbers ==
  ASSUME NEW g, Numbers(g), NEW h, NEW r \in Records, NEW m \in Int, NEW s \in Int, NEW d \in Int,
         GateMoves(g, h, m, s, r, d)
  PROVE  Numbers(h) /\ GateShape(h)
  BY DEF GateMoves, Numbers

\* The same submissions are counted.
SameCounts(g, h) ==
  /\ h.mutations = g.mutations /\ h.submissions = g.submissions
  /\ \A r \in Records : h.dispatch[r].active = g.dispatch[r].active

\* reconcile_uncertain_admissions forgets what has a receipt and counts as before.
LEMMA ReconcileKeeps ==
  ASSUME NEW g, GateShape(g), NEW s
  PROVE  /\ GateShape(Reconcile(g, s)) /\ SameCounts(g, Reconcile(g, s)) /\ Reconcile(g, s).closed = g.closed
         /\ Forgets(g, Reconcile(g, s), {q \in Records : s.receipts[q] # NoReceipt})
<1> DEFINE new == [q \in Records |->
                     IF g.dispatch[q].unknown /\ s.receipts[q] # NoReceipt /\ s.receipts[q].print = g.dispatch[q].print
                     THEN IF g.dispatch[q].active = 0 THEN NoDispatch ELSE [g.dispatch[q] EXCEPT !.unknown = FALSE]
                     ELSE g.dispatch[q]]
           h == [g EXCEPT !.dispatch = new]
<1>1. Reconcile(g, s) = h
  BY DEF Reconcile
<1>2. ASSUME NEW q \in Records
      PROVE  /\ DOMAIN new[q] = DispatchFields /\ new[q].unknown \in BOOLEAN
             /\ new[q].active = g.dispatch[q].active
             /\ g.dispatch[q].unknown => new[q].unknown \/ s.receipts[q] # NoReceipt
  BY DEF GateShape, NoDispatch, DispatchFields
<1>3. DOMAIN new = Records
  OBVIOUS
<1> HIDE DEF new
<1>4. /\ DOMAIN h = GateFields /\ h.dispatch = new /\ h.closed = g.closed
      /\ h.mutations = g.mutations /\ h.submissions = g.submissions
  BY DEF GateShape, GateFields
<1> HIDE DEF h
<1>5. GateShape(h)
  BY <1>2, <1>3, <1>4 DEF GateShape
<1> QED BY <1>1, <1>2, <1>4, <1>5 DEF SameCounts, Forgets

\* So it moves no counter.
LEMMA ReconcileMoves ==
  ASSUME NEW g, GateShape(g), Numbers(g), NEW s, NEW r \in Records
  PROVE  /\ GateMoves(g, Reconcile(g, s), 0, 0, r, 0)
         /\ Forgets(g, Reconcile(g, s), {q \in Records : s.receipts[q] # NoReceipt})
<1> DEFINE h == Reconcile(g, s)
<1>1. /\ GateShape(h) /\ SameCounts(g, h) /\ h.closed = g.closed
      /\ Forgets(g, h, {q \in Records : s.receipts[q] # NoReceipt})
  BY ReconcileKeeps
<1> HIDE DEF h
<1>2. GateMoves(g, h, 0, 0, r, 0)
  BY <1>1 DEF GateMoves, SameCounts, Numbers
<1> QED BY <1>1, <1>2 DEF h

\* AdmissionLease::finish ends one append.
LEMMA FinishMoves ==
  ASSUME NEW g, GateShape(g), Numbers(g), NEW r \in Records, NEW confirmed \in BOOLEAN
  PROVE  /\ GateMoves(g, FinishDispatch(g, r, confirmed), 0, 0, r, -1)
         /\ Forgets(g, FinishDispatch(g, r, confirmed), IF confirmed THEN {r} ELSE {})
<1> DEFINE d == [g.dispatch[r] EXCEPT !.active = g.dispatch[r].active - 1,
                                      !.unknown = g.dispatch[r].unknown /\ ~confirmed]
           e == IF d.active = 0 /\ ~d.unknown THEN NoDispatch ELSE d
           h == [g EXCEPT !.dispatch = [g.dispatch EXCEPT ![r] = e]]
<1>1. FinishDispatch(g, r, confirmed) = h
  BY DEF FinishDispatch
<1>2. DOMAIN d = DispatchFields /\ d.active = g.dispatch[r].active - 1 /\ d.unknown = (g.dispatch[r].unknown /\ ~confirmed)
  BY DEF GateShape, DispatchFields
<1> HIDE DEF d
<1>3. /\ DOMAIN e = DispatchFields /\ e.unknown \in BOOLEAN /\ e.active = g.dispatch[r].active - 1
      /\ g.dispatch[r].unknown => e.unknown \/ confirmed
  BY <1>2 DEF GateShape, NoDispatch, DispatchFields
<1> HIDE DEF e
<1>4. /\ DOMAIN h = GateFields /\ h.closed = g.closed /\ h.mutations = g.mutations /\ h.submissions = g.submissions
      /\ DOMAIN h.dispatch = Records /\ h.dispatch[r] = e /\ \A q \in Records \ {r} : h.dispatch[q] = g.dispatch[q]
  BY DEF GateShape, GateFields
<1> HIDE DEF h
<1>5. GateShape(h)
  BY <1>3, <1>4 DEF GateShape
<1>6. GateMoves(g, h, 0, 0, r, -1)
  BY <1>3, <1>4, <1>5 DEF GateMoves, Numbers
<1>7. Forgets(g, h, IF confirmed THEN {r} ELSE {})
  BY <1>3, <1>4 DEF Forgets
<1> QED BY <1>1, <1>6, <1>7

\* A dropped lease that has no append under way.
LEMMA LeaseMoves ==
  ASSUME NEW g, GateShape(g), Numbers(g), NEW c, NEW r \in Records
  PROVE  GateMoves(g, DropLease(g, c, r, FALSE), -1, 0, r, 0) /\ Forgets(g, DropLease(g, c, r, FALSE), {})
<1> DEFINE to == IF g.holder = c THEN "none" ELSE g.holder
           h == [g EXCEPT !.mutations = g.mutations - 1, !.holder = to]
<1>1. DropLease(g, c, r, FALSE) = h
  BY DEF DropLease
<1> HIDE DEF to
<1>2. /\ DOMAIN h = GateFields /\ h.closed = g.closed /\ h.mutations = g.mutations - 1
      /\ h.submissions = g.submissions /\ h.dispatch = g.dispatch
  BY DEF GateShape, GateFields
<1> HIDE DEF h
<1>3. GateShape(h)
  BY <1>2 DEF GateShape
<1>4. GateMoves(g, h, -1, 0, r, 0)
  BY <1>2, <1>3 DEF GateMoves, Numbers
<1>5. Forgets(g, h, {})
  BY <1>2 DEF Forgets
<1> QED BY <1>1, <1>4, <1>5

\* A dropped lease whose append becomes unknown.
LEMMA AbandonMoves ==
  ASSUME NEW g, GateShape(g), Numbers(g), NEW c, NEW r \in Records
  PROVE  /\ GateMoves(g, DropLease(g, c, r, TRUE), -1, 0, r, -1) /\ Forgets(g, DropLease(g, c, r, TRUE), {})
         /\ DropLease(g, c, r, TRUE).dispatch[r].unknown
<1> DEFINE to == IF g.holder = c THEN "none" ELSE g.holder
           k == [g EXCEPT !.mutations = g.mutations - 1, !.holder = to]
           d == [g.dispatch[r] EXCEPT !.active = g.dispatch[r].active - 1, !.unknown = TRUE]
           h == DropLease(g, c, r, TRUE)
<1>1. h = [k EXCEPT !.dispatch[r].active = k.dispatch[r].active - 1, !.dispatch[r].unknown = TRUE]
  BY DEF DropLease
<1> HIDE DEF to
<1>2. /\ DOMAIN k = GateFields /\ k.closed = g.closed /\ k.mutations = g.mutations - 1
      /\ k.submissions = g.submissions /\ k.dispatch = g.dispatch
  BY DEF GateShape, GateFields
<1> HIDE DEF k
<1>3. DOMAIN d = DispatchFields /\ d.active = g.dispatch[r].active - 1 /\ d.unknown = TRUE
  BY DEF GateShape, DispatchFields
<1>4. h = [k EXCEPT !.dispatch = [g.dispatch EXCEPT ![r] = d]]
  BY <1>1, <1>2 DEF GateShape, GateFields, DispatchFields
<1> HIDE DEF d, h
<1>5. /\ DOMAIN h = GateFields /\ h.closed = g.closed /\ h.mutations = g.mutations - 1 /\ h.submissions = g.submissions
      /\ DOMAIN h.dispatch = Records /\ h.dispatch[r] = d /\ \A q \in Records \ {r} : h.dispatch[q] = g.dispatch[q]
  BY <1>2, <1>4 DEF GateShape, GateFields
<1>6. GateShape(h)
  BY <1>3, <1>5 DEF GateShape
<1>7. GateMoves(g, h, -1, 0, r, -1)
  BY <1>3, <1>5, <1>6 DEF GateMoves, Numbers
<1> QED BY <1>3, <1>5, <1>7 DEF Forgets, h

\* A returned permit.
LEMMA PermitMoves ==
  ASSUME NEW g, GateShape(g), Numbers(g), NEW r \in Records
  PROVE  GateMoves(g, DropPermit(g), 0, -1, r, 0) /\ DropPermit(g).dispatch = g.dispatch
<1> DEFINE h == DropPermit(g)
<1>1. /\ DOMAIN h = GateFields /\ h.closed = g.closed /\ h.mutations = g.mutations
      /\ h.submissions = g.submissions - 1 /\ h.dispatch = g.dispatch
  BY DEF GateShape, GateFields, DropPermit
<1> HIDE DEF h
<1> QED BY <1>1 DEF GateMoves, GateShape, Numbers, h

\* AdmissionLease::dispatch sends one append.
LEMMA DispatchMoves ==
  ASSUME NEW g, GateShape(g), Numbers(g), NEW r \in Records, NEW print, NEW c
  PROVE  /\ GateMoves(g, [Dispatch(g, r, print) EXCEPT !.holder = c], 0, 0, r, 1)
         /\ Forgets(g, [Dispatch(g, r, print) EXCEPT !.holder = c], {})
<1> DEFINE bytes == IF g.dispatch[r].bytes > Charge(r) THEN g.dispatch[r].bytes ELSE Charge(r)
           d == [active |-> g.dispatch[r].active + 1, unknown |-> g.dispatch[r].unknown, bytes |-> bytes, print |-> print]
           k == [g EXCEPT !.dispatch = [g.dispatch EXCEPT ![r] = d]]
           h == [k EXCEPT !.holder = c]
<1>1. Dispatch(g, r, print) = k
  BY DEF Dispatch
<1> HIDE DEF bytes
<1>2. DOMAIN d = DispatchFields /\ d.active = g.dispatch[r].active + 1 /\ d.unknown = g.dispatch[r].unknown
  BY DEF DispatchFields
<1> HIDE DEF d
<1>3. /\ DOMAIN h = GateFields /\ h.closed = g.closed /\ h.mutations = g.mutations /\ h.submissions = g.submissions
      /\ DOMAIN h.dispatch = Records /\ h.dispatch[r] = d /\ \A q \in Records \ {r} : h.dispatch[q] = g.dispatch[q]
  BY DEF GateShape, GateFields
<1>4. h = [Dispatch(g, r, print) EXCEPT !.holder = c]
  BY <1>1
<1> HIDE DEF h
<1>5. GateShape(h)
  BY <1>2, <1>3 DEF GateShape
<1>6. GateMoves(g, h, 0, 0, r, 1)
  BY <1>2, <1>3, <1>5 DEF GateMoves, Numbers
<1>7. Forgets(g, h, {})
  BY <1>2, <1>3 DEF Forgets
<1> QED BY <1>4, <1>6, <1>7

-----------------------------------------------------------------------------
(* One submission moves                                                    *)

\* Caller c becomes a, at node n if it is inside, and gate n becomes g.
CallMoves(n, c, a, g) ==
  /\ DOMAIN call' = Callers /\ call'[c] = a /\ \A x \in Callers \ {c} : call'[x] = call[x]
  /\ DOMAIN gate' = Nodes /\ gate'[n] = g /\ \A k \in Nodes \ {n} : gate'[k] = gate[k]
  /\ call[c].pc \in Permitted => call[c].node = n
  /\ a.pc \in Permitted => a.node = n /\ a.op \in Records

\* Who is inside, before and after.
LEMMA InsideMoves ==
  ASSUME BufferInv, NEW n \in Nodes, NEW c \in Callers, NEW a, NEW g, CallMoves(n, c, a, g),
         NEW P, P \subseteq Permitted
  PROVE  /\ Cardinality(Inside(call, n, P)) \in Nat
         /\ Cardinality(Inside(call', n, P)) = Cardinality(Inside(call, n, P)) + (Flag(a.pc \in P) - Flag(call[c].pc \in P))
         /\ \A k \in Nodes \ {n} : Inside(call', k, P) = Inside(call, k, P)
<1> DEFINE S == Inside(call, n, P)
           T == Inside(call', n, P)
<1>1. DOMAIN call' = Callers /\ call'[c] = a /\ \A x \in Callers \ {c} : call'[x] = call[x]
  BY DEF BufferInv, CallMoves
<1>2. S \subseteq Callers /\ T \subseteq Callers /\ S \ {c} = T \ {c}
  BY <1>1 DEF Inside
<1>3. (c \in S <=> call[c].pc \in P) /\ (c \in T <=> a.pc \in P)
  BY <1>1 DEF Inside, CallMoves
<1>4. \A k \in Nodes \ {n} : Inside(call', k, P) = Inside(call, k, P)
  BY <1>1 DEF Inside, CallMoves
<1>5. Flag(c \in S) = Flag(call[c].pc \in P) /\ Flag(c \in T) = Flag(a.pc \in P)
  BY <1>3 DEF Flag
<1>6. Flag(c \in S) \in {0, 1} /\ Flag(c \in T) \in {0, 1}
  BY DEF Flag
<1>7. Cardinality(S) \in Nat /\ Cardinality(T) = Cardinality(S) + Flag(c \in T) - Flag(c \in S)
  BY <1>2, OneCaller
<1> HIDE DEF S, T
<1>8. Cardinality(T) = Cardinality(S) + (Flag(a.pc \in P) - Flag(call[c].pc \in P))
  BY <1>5, <1>6, <1>7
<1> QED BY <1>4, <1>7, <1>8 DEF S, T

\* Who has an append of q under way, before and after.
LEMMA SendingMoves ==
  ASSUME BufferInv, NEW n \in Nodes, NEW c \in Callers, NEW a, NEW g, CallMoves(n, c, a, g), NEW q
  PROVE  /\ Cardinality(Sending(call, n, q)) \in Nat
         /\ Cardinality(Sending(call', n, q)) = Cardinality(Sending(call, n, q))
              + (Flag(a.pc = "append" /\ a.op = q) - Flag(call[c].pc = "append" /\ call[c].op = q))
         /\ \A k \in Nodes \ {n} : Sending(call', k, q) = Sending(call, k, q)
<1> DEFINE S == Sending(call, n, q)
           T == Sending(call', n, q)
<1>1. DOMAIN call' = Callers /\ call'[c] = a /\ \A x \in Callers \ {c} : call'[x] = call[x]
  BY DEF BufferInv, CallMoves
<1>2. S \subseteq Callers /\ T \subseteq Callers /\ S \ {c} = T \ {c}
  BY <1>1 DEF Sending, Inside
<1>3. "append" \in Permitted
  BY DEF Permitted, Leasing
<1>4. (c \in S <=> call[c].pc = "append" /\ call[c].op = q) /\ (c \in T <=> a.pc = "append" /\ a.op = q)
  BY <1>1, <1>3 DEF Sending, Inside, CallMoves
<1>5. \A k \in Nodes \ {n} : Sending(call', k, q) = Sending(call, k, q)
  BY <1>1, <1>3 DEF Sending, Inside, CallMoves
<1>6. Flag(c \in S) = Flag(call[c].pc = "append" /\ call[c].op = q) /\ Flag(c \in T) = Flag(a.pc = "append" /\ a.op = q)
  BY <1>4 DEF Flag
<1>7. Flag(c \in S) \in {0, 1} /\ Flag(c \in T) \in {0, 1}
  BY DEF Flag
<1>8. Cardinality(S) \in Nat /\ Cardinality(T) = Cardinality(S) + Flag(c \in T) - Flag(c \in S)
  BY <1>2, OneCaller
<1> HIDE DEF S, T
<1>9. Cardinality(T) = Cardinality(S) + (Flag(a.pc = "append" /\ a.op = q) - Flag(call[c].pc = "append" /\ call[c].op = q))
  BY <1>6, <1>7, <1>8
<1> QED BY <1>5, <1>8, <1>9 DEF S, T

\* The counters follow the submission, whose operation is r.
Follows(n, c, a, g, r) ==
  /\ GateMoves(gate[n], g, Flag(a.pc \in Leasing) - Flag(call[c].pc \in Leasing),
               Flag(a.pc \in Permitted) - Flag(call[c].pc \in Permitted), r,
               Flag(a.pc = "append") - Flag(call[c].pc = "append"))
  /\ a.pc = "append" => a.op = r
  /\ call[c].pc = "append" => call[c].op = r

\* Then the gates still count who is inside.
LEMMA CountsFollow ==
  ASSUME BufferInv, GateInv, NEW n \in Nodes, NEW c \in Callers, NEW a, NEW g, CallMoves(n, c, a, g),
         NEW r \in Records, Follows(n, c, a, g, r)
  PROVE  /\ DOMAIN gate' = Nodes /\ \A x \in Callers : CallPlaced(call'[x])
         /\ \A k \in Nodes : GateShape(gate'[k]) /\ GateCounts(gate'[k], call', k)
<1>1. DOMAIN gate' = Nodes /\ gate'[n] = g /\ \A k \in Nodes \ {n} : gate'[k] = gate[k]
  BY DEF GateInv, CallMoves
<1>2. DOMAIN call' = Callers /\ call'[c] = a /\ \A x \in Callers \ {c} : call'[x] = call[x]
  BY DEF BufferInv, CallMoves
<1>3. \A x \in Callers : CallPlaced(call'[x])
  BY <1>2 DEF GateInv, CallMoves, CallPlaced
<1>4. Leasing \subseteq Permitted /\ Permitted \subseteq Permitted
  BY DEF Permitted
<1>5. GateShape(g)
  BY DEF Follows, GateMoves
<1>6. g.mutations = Cardinality(Inside(call', n, Leasing)) /\ g.submissions = Cardinality(Inside(call', n, Permitted))
  BY <1>4, InsideMoves DEF Follows, GateMoves, GateInv, GateCounts
<1>7. ASSUME NEW q \in Records PROVE g.dispatch[q].active = Cardinality(Sending(call', n, q))
  <2>1. gate[n].dispatch[q].active = Cardinality(Sending(call, n, q)) /\ Cardinality(Sending(call, n, q)) \in Nat
    BY SendingMoves DEF GateInv, GateCounts
  <2>2. CASE q = r
    <3>1. /\ Flag(a.pc = "append" /\ a.op = q) = Flag(a.pc = "append")
          /\ Flag(call[c].pc = "append" /\ call[c].op = q) = Flag(call[c].pc = "append")
      BY <2>2 DEF Follows, Flag
    <3>2. g.dispatch[q].active = gate[n].dispatch[q].active + (Flag(a.pc = "append") - Flag(call[c].pc = "append"))
      BY <2>2 DEF Follows, GateMoves
    <3> QED BY <2>1, <3>1, <3>2, SendingMoves
  <2>3. CASE q # r
    <3>1. Flag(a.pc = "append" /\ a.op = q) = 0 /\ Flag(call[c].pc = "append" /\ call[c].op = q) = 0
      BY <2>3 DEF Follows, Flag
    <3>2. g.dispatch[q].active = gate[n].dispatch[q].active
      BY <2>3 DEF Follows, GateMoves
    <3>3. Cardinality(Sending(call', n, q)) = Cardinality(Sending(call, n, q))
             + (Flag(a.pc = "append" /\ a.op = q) - Flag(call[c].pc = "append" /\ call[c].op = q))
      BY SendingMoves
    <3> QED BY <2>1, <3>1, <3>2, <3>3
  <2> QED BY <2>2, <2>3
<1>8. GateCounts(g, call', n)
  BY <1>6, <1>7 DEF GateCounts
<1>9. ASSUME NEW k \in Nodes \ {n} PROVE GateShape(gate'[k]) /\ GateCounts(gate'[k], call', k)
  <2>1. Inside(call', k, Leasing) = Inside(call, k, Leasing) /\ Inside(call', k, Permitted) = Inside(call, k, Permitted)
    BY <1>4, InsideMoves
  <2>2. \A q \in Records : Sending(call', k, q) = Sending(call, k, q)
    BY SendingMoves
  <2>3. GateShape(gate[k]) /\ GateCounts(gate[k], call, k)
    BY DEF GateInv
  <2> QED BY <1>1, <2>1, <2>2, <2>3 DEF GateCounts
<1> QED BY <1>1, <1>3, <1>5, <1>8, <1>9

\* What the receipts of the next state may name.
ReceiptsNext == \A r \in Records : store'.receipts[r] # NoReceipt => r \in accepted'

\* A caller takes a lease only while the gate is open and keeps its turn; its
\* append, if it leaves one behind, is unknown to the gate.
LEMMA CallerKeeps ==
  ASSUME BufferInv, GateInv, NEW n \in Nodes, NEW c \in Callers, NEW a, NEW g, CallMoves(n, c, a, g),
         NEW r \in Records, Follows(n, c, a, g, r), UNCHANGED <<turn, drain>>,
         a.pc \in Leasing => call[c].pc \in Leasing \/ ~gate[n].closed,
         call[c].pc # "turn", ReceiptsNext, accepted \subseteq accepted', Forgets(gate[n], g, accepted'),
         \A q \in orphans' : \/ q \in orphans
                             \/ q.kind = "append" /\ q.node = n /\ q.op = r /\ call[c].pc = "append" /\ g.dispatch[r].unknown
  PROVE  GateInv'
<1>1. DOMAIN gate' = Nodes /\ gate'[n] = g /\ \A k \in Nodes \ {n} : gate'[k] = gate[k]
  BY DEF GateInv, CallMoves
<1>2. DOMAIN call' = Callers /\ call'[c] = a /\ \A x \in Callers \ {c} : call'[x] = call[x]
  BY DEF BufferInv, CallMoves
<1>3. ASSUME NEW k \in Nodes PROVE TurnServes(turn'[k], call', k)
  BY <1>2 DEF GateInv, TurnServes
<1>4. ASSUME NEW k \in Nodes, drain[k].idle PROVE Inside(call', k, Leasing) = {} /\ (k = n => call[c].pc \notin Leasing)
  <2>1. Inside(call, k, Leasing) = {} /\ gate[k].closed = TRUE
    BY <1>4 DEF GateInv, DrainHolds
  <2>2. k = n => call[c].pc \notin Leasing
    BY <2>1 DEF Inside, CallMoves, Permitted
  <2> QED BY <1>2, <2>1, <2>2 DEF Inside, CallMoves, Permitted
<1>5. ASSUME NEW k \in Nodes PROVE DrainHolds(drain'[k], gate'[k], call', k)
  <2>1. gate'[k].closed = gate[k].closed
    BY <1>1 DEF Follows, GateMoves
  <2>2. DrainHolds(drain[k], gate[k], call, k) /\ drain'[k] = drain[k]
    BY DEF GateInv
  <2> QED BY <1>4, <2>1, <2>2 DEF DrainHolds
<1>6. ASSUME NEW k \in Nodes, NEW q \in orphans'
      PROVE  /\ Accounted(q, gate'[k], accepted', k)
             /\ drain'[k].clean /\ q.kind = "append" /\ q.node = k => q.op \in accepted'
  <2>1. CASE q \in orphans
    <3>1. q.kind = "append" => q.op \in Records
      BY <2>1 DEF BufferInv, RequestSound
    <3> QED BY <1>1, <2>1, <3>1 DEF GateInv, Accounted, Forgets
  <2>2. CASE q \notin orphans
    <3>1. q.node = n /\ q.op = r /\ call[c].pc = "append" /\ g.dispatch[r].unknown
      BY <2>2
    <3>2. CASE k = n
      <4>1. Accounted(q, gate'[k], accepted', k)
        BY <1>1, <3>1, <3>2 DEF Accounted
      <4>2. ~drain[k].clean
        <5>1. call[c].pc \in Leasing
          BY <3>1 DEF Leasing
        <5>2. drain[k].clean => drain[k].idle
          BY DEF GateInv, DrainHolds
        <5> QED BY <1>4, <3>2, <5>1, <5>2
      <4> QED BY <4>1, <4>2
    <3>3. CASE k # n
      BY <3>1, <3>3 DEF Accounted
    <3> QED BY <3>2, <3>3
  <2> QED BY <2>1, <2>2
<1>7. \A k \in Nodes : turn'[k].by = "drain" => drain'[k].pc = "turn"
  BY DEF GateInv
<1> QED BY <1>3, <1>5, <1>6, <1>7, CountsFollow DEF GateInv, ReceiptsNext

-----------------------------------------------------------------------------
(* The steps of a submission                                               *)

\* What has a receipt was accepted.
LEMMA ReceiptsKnown ==
  ASSUME GateInv, UNCHANGED <<store, accepted>>
  PROVE  /\ ReceiptsNext /\ accepted \subseteq accepted'
         /\ {q \in Records : store.receipts[q] # NoReceipt} \subseteq accepted'
  BY DEF GateInv, ReceiptsNext

\* A gate has numbers for counters.
LEMMA GateReady ==
  ASSUME GateInv, NEW n \in Nodes
  PROVE  GateShape(gate[n]) /\ Numbers(gate[n])
<1>1. /\ gate[n].mutations \in Nat /\ gate[n].submissions \in Nat
      /\ \A r \in Records : gate[n].dispatch[r].active \in Nat
  BY GateNumbers
<1> QED BY <1>1 DEF GateInv, Numbers

\* What a submission counts for, by its phase.
LEMMA Weights ==
  ASSUME NEW pc
  PROVE  /\ pc \in {"idle", "done"} => Flag(pc \in Leasing) = 0 /\ Flag(pc \in Permitted) = 0 /\ Flag(pc = "append") = 0
         /\ pc \in {"reserve", "again"} => Flag(pc \in Leasing) = 1 /\ Flag(pc \in Permitted) = 1 /\ Flag(pc = "append") = 0
         /\ pc = "append" => Flag(pc \in Leasing) = 1 /\ Flag(pc \in Permitted) = 1 /\ Flag(pc = "append") = 1
         /\ pc \in {"sync", "turn", "settled"} =>
              Flag(pc \in Leasing) = 0 /\ Flag(pc \in Permitted) = 1 /\ Flag(pc = "append") = 0
  BY DEF Flag, Leasing, Permitted

\* A submission that returned is outside.
LEMMA ReturnedCall ==
  ASSUME BufferInv, NEW c \in Callers, NEW why
  PROVE  \E a : Returned(c, why) = [call EXCEPT ![c] = a] /\ a.pc = "done" /\ a.node = "none"
<1> DEFINE a == [IdleCall EXCEPT !.pc = "done", !.result = why]
<1>1. a.pc = "done" /\ a.node = "none"
  BY DEF IdleCall
<1>2. Returned(c, why) = [call EXCEPT ![c] = a]
  BY DEF Returned
<1> QED BY <1>1, <1>2

\* "done" and "idle" are outside.
LEMMA OutsidePhases == {"idle", "done"} \cap Permitted = {} /\ Leasing \subseteq Permitted
  BY DEF Leasing, Permitted

\* The gate admits a submission while it is open.
LEMMA BeginGate ==
  ASSUME BufferInv, GateInv, NEW c \in Callers, NEW n \in Nodes, NEW r \in Records, NEW print, Begin(c, n, r, print)
  PROVE  GateInv'
<1>1. call[c].pc = "idle" /\ UNCHANGED <<store, turn, drain, orphans, accepted>>
  BY DEF Begin
<1>2. ReceiptsNext /\ accepted \subseteq accepted'
  BY <1>1, ReceiptsKnown
<1>3. DOMAIN gate = Nodes /\ GateShape(gate[n]) /\ Numbers(gate[n])
  BY GateReady DEF GateInv
<1>4. CASE UNCHANGED gate /\ \E why : call' = Returned(c, why)
  <2>1. PICK a : call' = [call EXCEPT ![c] = a] /\ a.pc = "done"
    BY <1>4, ReturnedCall
  <2>2. CallMoves(n, c, a, gate[n])
    BY <1>1, <1>3, <1>4, <2>1, OutsidePhases DEF CallMoves, BufferInv
  <2>3. GateMoves(gate[n], gate[n], 0, 0, r, 0)
    BY <1>3 DEF GateMoves, Numbers
  <2>4. Follows(n, c, a, gate[n], r)
    BY <1>1, <2>1, <2>3, Weights DEF Follows
  <2>5. Forgets(gate[n], gate[n], accepted')
    BY DEF Forgets
  <2>6. a.pc \notin Leasing
    BY <2>1, OutsidePhases
  <2> QED BY <1>1, <1>2, <2>2, <2>4, <2>5, <2>6, CallerKeeps
<1>5. CASE ~(UNCHANGED gate /\ \E why : call' = Returned(c, why))
  <2> DEFINE a == [pc |-> "reserve", node |-> n, op |-> r, print |-> print, mark |-> 0, result |-> "none"]
             g == [gate[n] EXCEPT !.submissions = gate[n].submissions + 1, !.mutations = gate[n].mutations + 1]
  <2>1. ~gate[n].closed /\ gate' = [gate EXCEPT ![n] = g] /\ call' = [call EXCEPT ![c] = a]
    BY <1>5 DEF Begin
  <2>2. a.pc = "reserve" /\ a.node = n /\ a.op = r
    OBVIOUS
  <2> HIDE DEF a
  <2>3. CallMoves(n, c, a, g)
    BY <1>1, <1>3, <2>1, <2>2, OutsidePhases DEF CallMoves, BufferInv
  <2>4. /\ DOMAIN g = GateFields /\ g.closed = gate[n].closed /\ g.mutations = gate[n].mutations + 1
        /\ g.submissions = gate[n].submissions + 1 /\ g.dispatch = gate[n].dispatch
    BY <1>3 DEF GateShape, GateFields
  <2> HIDE DEF g
  <2>5. GateMoves(gate[n], g, 1, 1, r, 0)
    BY <1>3, <2>4 DEF GateMoves, Numbers, GateShape
  <2>6. Follows(n, c, a, g, r)
    BY <1>1, <2>2, <2>5, Weights DEF Follows
  <2>7. Forgets(gate[n], g, accepted')
    BY <2>4 DEF Forgets
  <2> QED BY <1>1, <1>2, <2>1, <2>3, <2>6, <2>7, CallerKeeps
<1> QED BY <1>4, <1>5

\* What is forgotten adds up.
LEMMA ForgetsAdd ==
  ASSUME NEW g, NEW h, NEW k, NEW S, NEW T, Forgets(g, h, S), Forgets(h, k, T)
  PROVE  Forgets(g, k, S \cup T)
  BY DEF Forgets

\* Handing over the admission turn counts nobody.
LEMMA HolderMoves ==
  ASSUME NEW g, GateShape(g), Numbers(g), NEW c, NEW r \in Records
  PROVE  GateMoves(g, [g EXCEPT !.holder = c], 0, 0, r, 0) /\ Forgets(g, [g EXCEPT !.holder = c], {})
<1> DEFINE h == [g EXCEPT !.holder = c]
<1>1. /\ DOMAIN h = GateFields /\ h.closed = g.closed /\ h.mutations = g.mutations
      /\ h.submissions = g.submissions /\ h.dispatch = g.dispatch
  BY DEF GateShape, GateFields
<1> HIDE DEF h
<1>2. GateMoves(g, h, 0, 0, r, 0) /\ Forgets(g, h, {})
  BY <1>1 DEF GateMoves, GateShape, Numbers, Forgets
<1> QED BY <1>2 DEF h

\* A submission that leaves gives back its lease and its permit.
LEMMA LeaveMoves ==
  ASSUME NEW g, GateShape(g), Numbers(g), NEW c, NEW r \in Records, NEW inFlight \in BOOLEAN
  PROVE  LET h == DropPermit(DropLease(g, c, r, inFlight))
         IN GateMoves(g, h, -1, -1, r, IF inFlight THEN -1 ELSE 0) /\ Forgets(g, h, {})
            /\ (inFlight => h.dispatch[r].unknown)
<1> DEFINE k == DropLease(g, c, r, inFlight)
           h == DropPermit(k)
           d == IF inFlight THEN -1 ELSE 0
<1>1. GateMoves(g, k, -1, 0, r, d) /\ Forgets(g, k, {}) /\ (inFlight => k.dispatch[r].unknown)
  <2>1. CASE inFlight = TRUE
    BY <2>1, AbandonMoves
  <2>2. CASE inFlight = FALSE
    BY <2>2, LeaseMoves
  <2> QED BY <2>1, <2>2
<1>2. d \in Int
  OBVIOUS
<1> HIDE DEF k, d
<1>3. GateShape(k) /\ Numbers(k)
  BY <1>1, <1>2, MovesNumbers
<1>4. GateMoves(k, h, 0, -1, r, 0) /\ h.dispatch = k.dispatch
  BY <1>3, PermitMoves
<1> HIDE DEF h
<1>5. GateMoves(g, h, -1 + 0, 0 + (-1), r, d + 0)
  BY <1>1, <1>2, <1>4, MovesAdd
<1>6. -1 + 0 = -1 /\ 0 + (-1) = -1 /\ d + 0 = d
  BY <1>2
<1>7. GateMoves(g, h, -1, -1, r, d)
  BY <1>5, <1>6
<1>8. Forgets(g, h, {}) /\ (inFlight => h.dispatch[r].unknown)
  BY <1>1, <1>4 DEF Forgets
<1> QED BY <1>7, <1>8 DEF h, k, d

\* Staging keeps the gate exact: a dispatched append is counted.
LEMMA StageGate ==
  ASSUME BufferInv, GateInv, NEW c \in Callers, Stage(c)
  PROVE  GateInv'
<1> DEFINE n == call[c].node
           r == call[c].op
           g == IF call[c].pc = "reserve" THEN Reconcile(gate[n], store) ELSE gate[n]
<1>1. call[c].pc \in {"reserve", "again"} /\ UNCHANGED <<store, turn, drain, orphans, accepted>>
  BY DEF Stage
<1>2. /\ ReceiptsNext /\ accepted \subseteq accepted'
      /\ {q \in Records : store.receipts[q] # NoReceipt} \subseteq accepted'
  BY <1>1, ReceiptsKnown
<1>3. call[c].pc \in Permitted /\ call[c].pc \in Leasing
  BY <1>1 DEF Leasing, Permitted
<1>4. n \in Nodes /\ r \in Records /\ DOMAIN call[c] = CallFields
  BY <1>3 DEF GateInv, CallPlaced, BufferInv, CallSound
<1>5. DOMAIN gate = Nodes /\ DOMAIN call = Callers /\ GateShape(gate[n]) /\ Numbers(gate[n])
  BY <1>4, GateReady DEF GateInv, BufferInv
<1>6. GateMoves(gate[n], gate[n], 0, 0, r, 0) /\ Forgets(gate[n], gate[n], {})
  BY <1>4, <1>5 DEF GateMoves, Numbers, Forgets
<1>7. GateMoves(gate[n], Reconcile(gate[n], store), 0, 0, r, 0) /\ Forgets(gate[n], Reconcile(gate[n], store), accepted')
  <2>1. Forgets(gate[n], Reconcile(gate[n], store), {q \in Records : store.receipts[q] # NoReceipt})
    BY <1>4, <1>5, ReconcileMoves
  <2> QED BY <1>2, <1>4, <1>5, <2>1, ReconcileMoves DEF Forgets
<1>8. GateMoves(gate[n], g, 0, 0, r, 0) /\ Forgets(gate[n], g, accepted')
  BY <1>6, <1>7 DEF Forgets
<1>9. \/ /\ gate' = [gate EXCEPT ![n] = [Dispatch(g, r, call[c].print) EXCEPT !.holder = c]]
         /\ call' = [call EXCEPT ![c].pc = "append"]
      \/ gate' = [gate EXCEPT ![n] = [g EXCEPT !.holder = c]] /\ UNCHANGED call
      \/ /\ gate' = [gate EXCEPT ![n] = DropPermit(DropLease(g, c, r, FALSE))]
         /\ \E why : call' = Returned(c, why)
  BY DEF Stage
<1> HIDE DEF n, r, g
<1>10. GateShape(g) /\ Numbers(g)
  BY <1>4, <1>5, <1>8, MovesNumbers
<1>11. ASSUME NEW h, NEW m \in Int, NEW d \in Int, GateMoves(g, h, m, m, r, d), Forgets(g, h, {})
       PROVE  GateMoves(gate[n], h, m, m, r, d) /\ Forgets(gate[n], h, accepted')
  <2>1. GateMoves(gate[n], h, 0 + m, 0 + m, r, 0 + d)
    BY <1>4, <1>5, <1>8, <1>11, MovesAdd
  <2>2. 0 + m = m /\ 0 + d = d
    OBVIOUS
  <2>3. Forgets(gate[n], h, accepted' \cup {})
    BY <1>8, <1>11, ForgetsAdd
  <2> QED BY <2>1, <2>2, <2>3 DEF Forgets
<1>12. CASE /\ gate' = [gate EXCEPT ![n] = [Dispatch(g, r, call[c].print) EXCEPT !.holder = c]]
            /\ call' = [call EXCEPT ![c].pc = "append"]
  <2> DEFINE h == [Dispatch(g, r, call[c].print) EXCEPT !.holder = c]
             a == [call[c] EXCEPT !.pc = "append"]
  <2>1. GateMoves(gate[n], h, 0, 0, r, 1) /\ Forgets(gate[n], h, accepted')
    BY <1>4, <1>10, <1>11, DispatchMoves
  <2>2. a.pc = "append" /\ a.node = n /\ a.op = r
    BY <1>4 DEF CallFields, n, r
  <2>3. gate' = [gate EXCEPT ![n] = h] /\ call' = [call EXCEPT ![c] = a]
    BY <1>12
  <2> HIDE DEF h, a
  <2>4. CallMoves(n, c, a, h)
    BY <1>4, <1>5, <2>2, <2>3 DEF CallMoves, n
  <2>5. Follows(n, c, a, h, r)
    BY <1>1, <2>1, <2>2, Weights DEF Follows
  <2> QED BY <1>1, <1>2, <1>3, <1>4, <2>1, <2>4, <2>5, CallerKeeps
<1>13. CASE gate' = [gate EXCEPT ![n] = [g EXCEPT !.holder = c]] /\ UNCHANGED call
  <2> DEFINE h == [g EXCEPT !.holder = c]
  <2>1. GateMoves(gate[n], h, 0, 0, r, 0) /\ Forgets(gate[n], h, accepted')
    BY <1>4, <1>10, <1>11, HolderMoves
  <2>2. gate' = [gate EXCEPT ![n] = h]
    BY <1>13
  <2> HIDE DEF h
  <2>4. CallMoves(n, c, call[c], h)
    BY <1>4, <1>5, <1>13, <2>2 DEF CallMoves, n, r
  <2>5. Follows(n, c, call[c], h, r)
    BY <1>1, <2>1, Weights DEF Follows
  <2> QED BY <1>1, <1>2, <1>3, <1>4, <2>1, <2>4, <2>5, CallerKeeps
<1>14. CASE /\ gate' = [gate EXCEPT ![n] = DropPermit(DropLease(g, c, r, FALSE))]
            /\ \E why : call' = Returned(c, why)
  <2> DEFINE h == DropPermit(DropLease(g, c, r, FALSE))
  <2>1. GateMoves(g, h, -1, -1, r, 0) /\ Forgets(g, h, {})
    BY <1>4, <1>10, LeaveMoves
  <2>2. gate' = [gate EXCEPT ![n] = h]
    BY <1>14
  <2> HIDE DEF h
  <2>3. GateMoves(gate[n], h, -1, -1, r, 0) /\ Forgets(gate[n], h, accepted')
    BY <1>11, <2>1
  <2>4. PICK a : call' = [call EXCEPT ![c] = a] /\ a.pc = "done"
    BY <1>14, ReturnedCall
  <2>5. CallMoves(n, c, a, h)
    BY <1>4, <1>5, <2>2, <2>4, OutsidePhases DEF CallMoves, n
  <2>6. Follows(n, c, a, h, r)
    BY <1>1, <2>3, <2>4, Weights DEF Follows
  <2>7. a.pc \notin Leasing
    BY <2>4, OutsidePhases
  <2> QED BY <1>1, <1>2, <1>4, <2>3, <2>5, <2>6, <2>7, CallerKeeps
<1> QED BY <1>9, <1>12, <1>13, <1>14

\* The answer of the provider ends the append; what it appended is accepted.
LEMMA AppendGate ==
  ASSUME BufferInv, GateInv, NEW c \in Callers, AppendOnce(c)
  PROVE  GateInv'
<1> DEFINE n == call[c].node
           r == call[c].op
           a == AppendRecord(store, r, call[c].print)
           ok == a.result = "appended"
           g == FinishDispatch(gate[n], r, ok)
<1>1. /\ call[c].pc = "append" /\ store' = a.state /\ UNCHANGED <<turn, drain, orphans>>
      /\ accepted' = IF ok THEN accepted \cup {r} ELSE accepted
  BY DEF AppendOnce
<1>2. call[c].pc \in Permitted /\ call[c].pc \in Leasing
  BY <1>1 DEF Leasing, Permitted
<1>3. n \in Nodes /\ r \in Records /\ DOMAIN call[c] = CallFields
  BY <1>2 DEF GateInv, CallPlaced, BufferInv, CallSound
<1>4. ReceiptsNext
  <2>1. ASSUME NEW q \in Records, a.state.receipts[q] # NoReceipt
        PROVE  store.receipts[q] # NoReceipt \/ (q = r /\ ok)
    BY <1>3, <2>1, AppendReceipts DEF BufferInv, Sound
  <2> HIDE DEF a, ok, r
  <2> QED BY <1>1, <2>1 DEF ReceiptsNext, GateInv
<1>5. DOMAIN gate = Nodes /\ DOMAIN call = Callers /\ GateShape(gate[n]) /\ Numbers(gate[n])
  BY <1>3, GateReady DEF GateInv, BufferInv
<1>6. GateMoves(gate[n], g, 0, 0, r, -1) /\ Forgets(gate[n], g, accepted')
  <2>1. ok \in BOOLEAN
    OBVIOUS
  <2> HIDE DEF ok
  <2>2. GateMoves(gate[n], g, 0, 0, r, -1) /\ Forgets(gate[n], g, IF ok THEN {r} ELSE {})
    BY <1>3, <1>5, <2>1, FinishMoves
  <2>3. (IF ok THEN {r} ELSE {}) \subseteq accepted'
    BY <1>1
  <2> HIDE DEF g
  <2> QED BY <2>2, <2>3 DEF Forgets
<1>7. \/ gate' = [gate EXCEPT ![n] = DropLease(g, c, r, FALSE)] /\ \E m : call' = [call EXCEPT ![c].pc = "sync", ![c].mark = m]
      \/ gate' = [gate EXCEPT ![n] = g] /\ call' = [call EXCEPT ![c].pc = "again"]
      \/ gate' = [gate EXCEPT ![n] = DropPermit(DropLease(g, c, r, FALSE))] /\ \E why : call' = Returned(c, why)
  BY DEF AppendOnce
<1>8. accepted \subseteq accepted'
  BY <1>1
<1> HIDE DEF n, r, g, a, ok
<1>9. GateShape(g) /\ Numbers(g)
  BY <1>3, <1>5, <1>6, MovesNumbers
<1>10. ASSUME NEW h, NEW m \in Int, NEW s \in Int, GateMoves(g, h, m, s, r, 0), Forgets(g, h, {})
       PROVE  GateMoves(gate[n], h, m, s, r, -1) /\ Forgets(gate[n], h, accepted')
  <2>1. GateMoves(gate[n], h, 0 + m, 0 + s, r, -1 + 0)
    BY <1>3, <1>5, <1>6, <1>10, MovesAdd
  <2>2. 0 + m = m /\ 0 + s = s /\ -1 + 0 = -1
    OBVIOUS
  <2>3. Forgets(gate[n], h, accepted' \cup {})
    BY <1>6, <1>10, ForgetsAdd
  <2> QED BY <2>1, <2>2, <2>3 DEF Forgets
<1>11. CASE gate' = [gate EXCEPT ![n] = DropLease(g, c, r, FALSE)] /\ \E m : call' = [call EXCEPT ![c].pc = "sync", ![c].mark = m]
  <2>1. PICK m : call' = [call EXCEPT ![c].pc = "sync", ![c].mark = m]
    BY <1>11
  <2> DEFINE h == DropLease(g, c, r, FALSE)
             b == [call[c] EXCEPT !.pc = "sync", !.mark = m]
  <2>2. GateMoves(g, h, -1, 0, r, 0) /\ Forgets(g, h, {})
    BY <1>3, <1>9, LeaseMoves
  <2>3. b.pc = "sync" /\ b.node = n /\ b.op = r
    BY <1>3 DEF CallFields, n, r
  <2>4. gate' = [gate EXCEPT ![n] = h] /\ call' = [call EXCEPT ![c] = b]
    BY <1>3, <1>5, <1>11, <2>1 DEF CallFields
  <2> HIDE DEF h, b
  <2>5. CallMoves(n, c, b, h)
    BY <1>3, <1>5, <2>3, <2>4 DEF CallMoves, n
  <2>6. GateMoves(gate[n], h, -1, 0, r, -1) /\ Forgets(gate[n], h, accepted')
    BY <1>10, <2>2
  <2>7. Follows(n, c, b, h, r)
    BY <1>1, <2>3, <2>6, Weights DEF Follows, r
  <2> QED BY <1>1, <1>2, <1>3, <1>4, <1>8, <2>5, <2>6, <2>7, CallerKeeps
<1>12. CASE gate' = [gate EXCEPT ![n] = g] /\ call' = [call EXCEPT ![c].pc = "again"]
  <2> DEFINE b == [call[c] EXCEPT !.pc = "again"]
  <2>3. b.pc = "again" /\ b.node = n /\ b.op = r
    BY <1>3 DEF CallFields, n, r
  <2>4. call' = [call EXCEPT ![c] = b]
    BY <1>12
  <2> HIDE DEF b
  <2>5. CallMoves(n, c, b, g)
    BY <1>3, <1>5, <1>12, <2>3, <2>4 DEF CallMoves, n
  <2>7. Follows(n, c, b, g, r)
    BY <1>1, <1>6, <2>3, Weights DEF Follows, r
  <2> QED BY <1>1, <1>2, <1>3, <1>4, <1>6, <1>8, <2>5, <2>7, CallerKeeps
<1>13. CASE gate' = [gate EXCEPT ![n] = DropPermit(DropLease(g, c, r, FALSE))] /\ \E why : call' = Returned(c, why)
  <2> DEFINE h == DropPermit(DropLease(g, c, r, FALSE))
  <2>1. GateMoves(g, h, -1, -1, r, 0) /\ Forgets(g, h, {})
    BY <1>3, <1>9, LeaveMoves
  <2>2. gate' = [gate EXCEPT ![n] = h]
    BY <1>13
  <2> HIDE DEF h
  <2>3. GateMoves(gate[n], h, -1, -1, r, -1) /\ Forgets(gate[n], h, accepted')
    BY <1>10, <2>1
  <2>4. PICK b : call' = [call EXCEPT ![c] = b] /\ b.pc = "done"
    BY <1>13, ReturnedCall
  <2>5. CallMoves(n, c, b, h)
    BY <1>3, <1>5, <2>2, <2>4, OutsidePhases DEF CallMoves, n
  <2>6. Follows(n, c, b, h, r)
    BY <1>1, <2>3, <2>4, Weights DEF Follows, r
  <2>7. b.pc \notin Leasing
    BY <2>4, OutsidePhases
  <2> QED BY <1>1, <1>3, <1>4, <1>8, <2>3, <2>5, <2>6, <2>7, CallerKeeps
<1> QED BY <1>7, <1>11, <1>12, <1>13

\* A submission that gives up leaves its append unknown to the gate.
LEMMA GiveUpGate ==
  ASSUME BufferInv, GateInv, NEW c \in Callers, NEW why, GiveUp(c, why)
  PROVE  GateInv'
<1> DEFINE n == call[c].node
           r == call[c].op
           inFlight == call[c].pc = "append"
           h == IF call[c].pc = "sync" THEN DropPermit(gate[n]) ELSE DropPermit(DropLease(gate[n], c, r, inFlight))
<1>1. /\ call[c].pc \in {"reserve", "again", "append", "sync"} /\ UNCHANGED <<store, accepted, turn, drain>>
      /\ \E x : call' = Returned(c, x)
      /\ inFlight => LeftBehind(AppendRequest(c))
      /\ ~inFlight => UNCHANGED orphans
  BY DEF GiveUp
<1>2. gate' = [gate EXCEPT ![n] = h]
  BY DEF GiveUp
<1>3. call[c].pc \in Permitted
  BY <1>1 DEF Leasing, Permitted
<1>4. n \in Nodes /\ r \in Records
  BY <1>3 DEF GateInv, CallPlaced
<1>5. DOMAIN gate = Nodes /\ DOMAIN call = Callers /\ GateShape(gate[n]) /\ Numbers(gate[n])
  BY <1>4, GateReady DEF GateInv, BufferInv
<1>6. /\ GateMoves(gate[n], h, IF call[c].pc = "sync" THEN 0 ELSE -1, -1, r, IF inFlight THEN -1 ELSE 0)
      /\ Forgets(gate[n], h, {}) /\ (inFlight => h.dispatch[r].unknown)
  <2>1. CASE call[c].pc = "sync"
    BY <1>4, <1>5, <2>1, PermitMoves DEF Forgets
  <2>2. CASE call[c].pc # "sync"
    <3>1. inFlight \in BOOLEAN
      OBVIOUS
    <3> QED BY <1>4, <1>5, <2>2, <3>1, LeaveMoves
  <2> QED BY <2>1, <2>2
<1>7. ReceiptsNext /\ accepted \subseteq accepted'
  BY <1>1, ReceiptsKnown
<1>8. PICK a : call' = [call EXCEPT ![c] = a] /\ a.pc = "done"
  BY <1>1, ReturnedCall
<1>9. \A q \in orphans' : q \in orphans \/ (q.kind = "append" /\ q.node = n /\ q.op = r /\ inFlight)
  BY <1>1 DEF LeftBehind, AppendRequest
<1> HIDE DEF n, r, h
<1>10. CallMoves(n, c, a, h)
  BY <1>2, <1>4, <1>5, <1>8, OutsidePhases DEF CallMoves, n
<1>11. Follows(n, c, a, h, r)
  BY <1>1, <1>6, <1>8, Weights DEF Follows, r
<1>12. a.pc \notin Leasing /\ Forgets(gate[n], h, accepted')
  BY <1>6, <1>8, OutsidePhases DEF Forgets
<1> QED BY <1>1, <1>4, <1>6, <1>7, <1>9, <1>10, <1>11, <1>12, CallerKeeps

\* A synchronous submission returns its permit.
LEMMA SyncReturnGate ==
  ASSUME BufferInv, GateInv, NEW c \in Callers, SyncReturn(c)
  PROVE  GateInv'
<1> DEFINE n == call[c].node
           r == call[c].op
           h == DropPermit(gate[n])
<1>1. /\ call[c].pc = "settled" /\ UNCHANGED <<store, accepted, turn, drain, orphans>>
      /\ \E x : call' = Returned(c, x)
  BY DEF SyncReturn
<1>2. gate' = [gate EXCEPT ![n] = h]
  BY DEF SyncReturn
<1>3. call[c].pc \in Permitted
  BY <1>1 DEF Permitted
<1>4. n \in Nodes /\ r \in Records
  BY <1>3 DEF GateInv, CallPlaced
<1>5. DOMAIN gate = Nodes /\ DOMAIN call = Callers /\ GateShape(gate[n]) /\ Numbers(gate[n])
  BY <1>4, GateReady DEF GateInv, BufferInv
<1>6. GateMoves(gate[n], h, 0, -1, r, 0) /\ Forgets(gate[n], h, accepted')
  BY <1>4, <1>5, PermitMoves DEF Forgets
<1>7. ReceiptsNext /\ accepted \subseteq accepted'
  BY <1>1, ReceiptsKnown
<1>8. PICK a : call' = [call EXCEPT ![c] = a] /\ a.pc = "done"
  BY <1>1, ReturnedCall
<1> HIDE DEF n, r, h
<1>10. CallMoves(n, c, a, h)
  BY <1>2, <1>4, <1>5, <1>8, OutsidePhases DEF CallMoves, n
<1>11. Follows(n, c, a, h, r)
  BY <1>1, <1>6, <1>8, Weights DEF Follows, r
<1>12. a.pc \notin Leasing
  BY <1>8, OutsidePhases
<1> QED BY <1>1, <1>4, <1>6, <1>7, <1>10, <1>11, <1>12, CallerKeeps

-----------------------------------------------------------------------------
(* The steps of a turn                                                     *)

\* A turn works for the one it worked for before, or for the driver.
SameServed == \A n \in Nodes : turn'[n].by \in {turn[n].by, "driver"}

\* A turn changes neither the gate nor the submissions, sends no append and
\* gives no receipt.
LEMMA TurnKeeps ==
  ASSUME BufferInv, GateInv, UNCHANGED <<gate, call, drain, accepted>>, SameServed, NoNew(store, store'),
         \A q \in orphans' : q \in orphans \/ q.kind # "append"
  PROVE  GateInv'
<1>1. \A n \in Nodes : TurnServes(turn'[n], call', n) /\ (turn'[n].by = "drain" => drain'[n].pc = "turn")
  BY EngineAssumption DEF GateInv, SameServed, TurnServes
<1>2. \A r \in Records : store'.receipts[r] # NoReceipt => r \in accepted'
  BY DEF GateInv, NoNew
<1>3. \A c \in Callers : CallPlaced(call'[c])
  BY DEF GateInv
<1>4. ASSUME NEW n \in Nodes
      PROVE  GateShape(gate'[n]) /\ GateCounts(gate'[n], call', n) /\ DrainHolds(drain'[n], gate'[n], call', n)
  BY DEF GateInv
<1>5. ASSUME NEW n \in Nodes, NEW q \in orphans'
      PROVE  /\ Accounted(q, gate'[n], accepted', n)
             /\ drain'[n].clean /\ q.kind = "append" /\ q.node = n => q.op \in accepted'
  BY DEF GateInv, Accounted
<1>6. DOMAIN gate' = Nodes /\ DOMAIN drain' = Nodes
  BY DEF GateInv
<1> QED BY <1>1, <1>2, <1>3, <1>4, <1>5, <1>6 DEF GateInv

\* One turn changes.
LEMMA ServedBy ==
  ASSUME BufferInv, NEW n \in Nodes, NEW t, turn' = [turn EXCEPT ![n] = t], t.by \in {turn[n].by, "driver"}
  PROVE  SameServed
  BY DEF BufferInv, SameServed

\* A turn keeps whom it works for in every phase.
LEMMA AtBy ==
  ASSUME NEW t, DOMAIN t = TurnFields, NEW pc
  PROVE  At(t, pc).by = t.by
<1>1. DOMAIN NoTurn = TurnFields
  BY DEF NoTurn, TurnFields
<1> QED BY <1>1 DEF At, TurnFields

\* So does a step to another phase.
LEMMA ToServes ==
  ASSUME BufferInv, NEW n \in Nodes, NEW pc, To(n, pc)
  PROVE  SameServed
<1>1. DOMAIN turn[n] = TurnFields
  BY DEF BufferInv, TurnSound
<1>2. At(turn[n], pc).by = turn[n].by
  BY <1>1, AtBy
<1>3. turn' = [turn EXCEPT ![n] = At(turn[n], pc)]
  BY DEF To
<1> QED BY <1>2, <1>3, ServedBy

\* Opening a turn for the driver.
LEMMA OpenServes ==
  ASSUME BufferInv, NEW n \in Nodes, NEW upTo, NEW force, Open(n, "driver", upTo, force)
  PROVE  SameServed
<1> DEFINE t == [NoTurn EXCEPT !.pc = "look", !.by = "driver", !.upTo = upTo, !.force = force]
<1>1. t.by = "driver"
  BY DEF NoTurn
<1>2. turn' = [turn EXCEPT ![n] = t]
  BY DEF Open
<1> HIDE DEF t
<1> QED BY <1>1, <1>2, ServedBy

\* The driver's turns, the look, the permit, the attempt, what follows a failure and the handoff.
LEMMA PlainGate ==
  ASSUME BufferInv, GateInv, NEW n \in Nodes,
         StartDriverTurn(n) \/ Look(n) \/ Permit(n) \/ Attempt(n) \/ Failed(n) \/ Handoff(n)
  PROVE  GateInv'
<1> DEFINE t == turn[n]
<1>1. UNCHANGED <<gate, call, drain, accepted, store, orphans>>
  BY DEF StartDriverTurn, Look, Permit, Attempt, Failed, Handoff
<1>2. DOMAIN t = TurnFields
  BY DEF BufferInv, TurnSound
<1>3. NoNew(store, store')
  BY <1>1 DEF NoNew
<1>4. ASSUME StartDriverTurn(n) PROVE SameServed
  <2>1. \E upTo, force : Open(n, "driver", upTo, force)
    BY <1>4 DEF StartDriverTurn
  <2> QED BY <2>1, OpenServes
<1>5. ASSUME Look(n) PROVE SameServed
  <2>1. To(n, "close") \/ \E eligible : turn' = [turn EXCEPT ![n].pc = "claim", ![n].open = eligible]
    BY <1>5 DEF Look
  <2>2. ASSUME NEW eligible, turn' = [turn EXCEPT ![n].pc = "claim", ![n].open = eligible] PROVE SameServed
    <3> DEFINE u == [t EXCEPT !.pc = "claim", !.open = eligible]
    <3>1. turn' = [turn EXCEPT ![n] = u]
      BY <2>2 DEF BufferInv
    <3>2. u.by = t.by
      BY <1>2 DEF TurnFields
    <3> HIDE DEF u
    <3> QED BY <3>1, <3>2, ServedBy
  <2> QED BY <2>1, <2>2, ToServes
<1>6. ASSUME NEW k, turn' = [turn EXCEPT ![n].pc = "attempt", ![n].tries = k] PROVE SameServed
  <2> DEFINE u == [t EXCEPT !.pc = "attempt", !.tries = k]
  <2>1. turn' = [turn EXCEPT ![n] = u]
    BY <1>6 DEF BufferInv
  <2>2. u.by = t.by
    BY <1>2 DEF TurnFields
  <2> HIDE DEF u
  <2> QED BY <2>1, <2>2, ServedBy
<1>7. ASSUME Permit(n) PROVE SameServed
  <2>1. turn' = [turn EXCEPT ![n].pc = "attempt", ![n].tries = 0] \/ \E pc : To(n, pc)
    BY <1>7 DEF Permit
  <2> QED BY <1>6, <2>1, ToServes
<1>8. ASSUME Attempt(n) PROVE SameServed
  <2>1. \/ turn' = [turn EXCEPT ![n] = AfterSink(t, {}, "none")]
        \/ \E landed \in SUBSET t.ops, failure \in Failures : \E done \in {{}, landed} :
             turn' = [turn EXCEPT ![n] = AfterSink(t, done, failure)]
        \/ turn' = [turn EXCEPT ![n].pc = "quarantine", ![n].done = {}]
        \/ To(n, "release")
    BY <1>8, ZenonT(30) DEF Attempt
  <2>2. ASSUME NEW done, NEW failure \in Failures \cup {"none"} PROVE AfterSink(t, done, failure).by = t.by
    BY <1>2 DEF AfterSink, Failures, TurnFields
  <2>3. ASSUME turn' = [turn EXCEPT ![n].pc = "quarantine", ![n].done = {}] PROVE SameServed
    <3> DEFINE u == [t EXCEPT !.pc = "quarantine", !.done = {}]
    <3>1. turn' = [turn EXCEPT ![n] = u]
      BY <2>3 DEF BufferInv
    <3>2. u.by = t.by
      BY <1>2 DEF TurnFields
    <3> HIDE DEF u
    <3> QED BY <3>1, <3>2, ServedBy
  <2> QED BY <2>1, <2>2, <2>3, ToServes, ServedBy
<1>9. ASSUME Failed(n) PROVE SameServed
  <2>1. (\E k : turn' = [turn EXCEPT ![n].pc = "attempt", ![n].tries = k]) \/ \E pc : To(n, pc)
    <3>1. \/ turn' = [turn EXCEPT ![n].pc = "attempt", ![n].tries = turn[n].tries + 1] \/ To(n, "handoff") \/ To(n, "release")
      BY <1>9 DEF Failed
    <3> QED BY <3>1
  <2> QED BY <1>6, <2>1, ToServes
<1>10. ASSUME Handoff(n) PROVE SameServed
  <2>1. \E pc : To(n, pc)
    BY <1>10 DEF Handoff
  <2> QED BY <2>1, ToServes
<1> QED BY <1>1, <1>3, <1>4, <1>5, <1>7, <1>8, <1>9, <1>10, TurnKeeps

\* A request of another kind leaves no append behind.
LEMMA LeftOther ==
  ASSUME NEW req, req.kind # "append", UNCHANGED orphans \/ LeftBehind(req)
  PROVE  \A q \in orphans' : q \in orphans \/ q.kind # "append"
  BY DEF LeftBehind

\* A claim.
LEMMA ClaimGate ==
  ASSUME BufferInv, GateInv, NEW n \in Nodes, Claim(n)
  PROVE  GateInv'
<1> DEFINE t == turn[n]
<1>1. UNCHANGED <<gate, call, drain, accepted>>
  BY DEF Claim
<1>2. DOMAIN t = TurnFields /\ Shape(store)
  BY DEF BufferInv, TurnSound, Sound
<1>3. \A q \in orphans' : q \in orphans \/ q.kind # "append"
  <2> DEFINE req == [kind |-> "claim", open |-> t.open, upTo |-> t.upTo, at |-> now]
  <2>1. UNCHANGED orphans \/ LeftBehind(req)
    BY DEF Claim
  <2>2. req.kind # "append"
    OBVIOUS
  <2> HIDE DEF req
  <2> QED BY <2>1, <2>2, LeftOther
<1>4. NoNew(store, store')
  <2>1. \/ UNCHANGED store
        \/ \E due \in SUBSET Claimable(store, now) : store' = ClaimWork(store, due, t.open, t.upTo, now).state
    BY DEF Claim
  <2>2. \A due \in SUBSET Claimable(store, now) : due \subseteq SealedBatches(store)
    BY DEF Claimable
  <2>3. UNCHANGED store => NoNew(store, store')
    BY DEF NoNew
  <2> QED BY <1>2, <2>1, <2>2, <2>3, ClaimReceipts
<1>5. ASSUME NEW due, due \subseteq Claimable(store, now),
             LET a == ClaimWork(store, due, t.open, t.upTo, now)
                 b == a.result[2]
             IN turn' = [turn EXCEPT ![n] =
                   CASE a.result[1] = "sealed" ->
                          [t EXCEPT !.pc = "permit", !.batch = b, !.fence = a.state.fence,
                                    !.ops = Pending(a.state.sealed[b])]
                     [] a.result[1] = "open" ->
                          [t EXCEPT !.pc = "seal", !.fence = a.state.fence,
                                    !.ops = Claimed(a.state, a.state.fence)]
                     [] a.result[1] = "none" -> At(t, "close")]
      PROVE  SameServed
  <2> DEFINE a == ClaimWork(store, due, t.open, t.upTo, now)
             b == a.result[2]
             leased == [t EXCEPT !.pc = "permit", !.batch = b, !.fence = a.state.fence,
                                 !.ops = Pending(a.state.sealed[b])]
             held == [t EXCEPT !.pc = "seal", !.fence = a.state.fence,
                               !.ops = Claimed(a.state, a.state.fence)]
  <2>1. due \subseteq SealedBatches(store)
    BY <1>5 DEF Claimable
  <2>2. a.result[1] \in {"sealed", "open", "none"}
    BY <2>1, ClaimSound DEF BufferInv
  <2>3. /\ a.result[1] = "sealed" => turn' = [turn EXCEPT ![n] = leased]
        /\ a.result[1] = "open" => turn' = [turn EXCEPT ![n] = held]
        /\ a.result[1] = "none" => turn' = [turn EXCEPT ![n] = At(t, "close")]
    BY <1>5
  <2> HIDE DEF a, b
  <2>4. leased.by = t.by /\ held.by = t.by
    BY <1>2 DEF TurnFields
  <2>5. At(t, "close").by = t.by
    BY <1>2, AtBy
  <2> HIDE DEF leased, held
  <2> QED BY <2>2, <2>3, <2>4, <2>5, ServedBy
<1>6. SameServed
  BY <1>5, ToServes DEF Claim
<1> QED BY <1>1, <1>3, <1>4, <1>6, TurnKeeps

\* The provider's answer to a seal, or its absence.
LEMMA AskedGate ==
  ASSUME BufferInv, GateInv, NEW n \in Nodes, NEW a, NEW ok, NEW pc, NEW req, Asked(n, a, ok, pc, req),
         UNCHANGED <<gate, call, drain, accepted>>, NoNew(store, a.state), pc.by = turn[n].by, req.kind # "append"
  PROVE  GateInv'
<1>1. DOMAIN turn[n] = TurnFields
  BY DEF BufferInv, TurnSound
<1>2. \A q \in orphans' : q \in orphans \/ q.kind # "append"
  BY DEF Asked, LeftBehind
<1>3. NoNew(store, store')
  BY DEF Asked, NoNew
<1>4. ASSUME turn' = [turn EXCEPT ![n] = IF a.result = ok THEN pc ELSE At(turn[n], "close")] PROVE SameServed
  <2> DEFINE u == IF a.result = ok THEN pc ELSE At(turn[n], "close")
  <2>1. u.by = turn[n].by
    BY <1>1, AtBy
  <2>2. turn' = [turn EXCEPT ![n] = u]
    BY <1>4
  <2> HIDE DEF u
  <2> QED BY <2>1, <2>2, ServedBy
<1>5. SameServed
  BY <1>4, ToServes DEF Asked
<1> QED BY <1>2, <1>3, <1>5, TurnKeeps

\* seal_candidate_with_splitting.
LEMMA SealGate ==
  ASSUME BufferInv, GateInv, NEW n \in Nodes, Seal(n)
  PROVE  GateInv'
<1> DEFINE t == turn[n]
           first == CHOOSE x \in t.ops : \A y \in t.ops : store.receipts[x].mark <= store.receipts[y].mark
<1>1. UNCHANGED <<gate, call, drain, accepted>>
  BY DEF Seal
<1>2. \/ \E b \in Batches, p \in SplitsOf(store, t.ops), excess \in {0, 1} :
           Asked(n, InstallBatch(store, t.fence, b, p, Reserved(p) + excess, now), "sealed",
                 [t EXCEPT !.pc = "permit", !.batch = b, !.ops = p],
                 [kind |-> "install", fence |-> t.fence, batch |-> b, ops |-> p, size |-> Reserved(p) + excess, at |-> now])
      \/ Asked(n, QuarantineSingleton(store, t.fence, first, now), "quarantined",
               [t EXCEPT !.pc = "claim", !.ops = {}, !.fence = 0],
               [kind |-> "isolate", fence |-> t.fence, op |-> first, at |-> now])
      \/ /\ To(n, "close") /\ UNCHANGED orphans
         /\ store' = ReleaseCandidate(ExpireOpen(store, now), t.fence)
  BY ZenonT(100) DEF Seal, Asked
<1>3. DOMAIN t = TurnFields /\ Shape(store)
  BY DEF BufferInv, TurnSound, Sound
<1>4. ASSUME NEW b \in Batches, NEW p, NEW excess \in {0, 1},
             Asked(n, InstallBatch(store, t.fence, b, p, Reserved(p) + excess, now), "sealed",
                   [t EXCEPT !.pc = "permit", !.batch = b, !.ops = p],
                   [kind |-> "install", fence |-> t.fence, batch |-> b, ops |-> p, size |-> Reserved(p) + excess, at |-> now])
      PROVE  GateInv'
  <2> DEFINE next == [t EXCEPT !.pc = "permit", !.batch = b, !.ops = p]
             req == [kind |-> "install", fence |-> t.fence, batch |-> b, ops |-> p, size |-> Reserved(p) + excess, at |-> now]
             a == InstallBatch(store, t.fence, b, p, Reserved(p) + excess, now)
  <2>1. next.by = t.by /\ req.kind # "append"
    BY <1>3 DEF TurnFields
  <2>2. NoNew(store, a.state)
    BY <1>3, SealReceipts
  <2>3. Asked(n, a, "sealed", next, req)
    BY <1>4
  <2> HIDE DEF a, next, req
  <2> QED BY <1>1, <2>1, <2>2, <2>3, AskedGate
<1>5. ASSUME Asked(n, QuarantineSingleton(store, t.fence, first, now), "quarantined",
                   [t EXCEPT !.pc = "claim", !.ops = {}, !.fence = 0],
                   [kind |-> "isolate", fence |-> t.fence, op |-> first, at |-> now])
      PROVE  GateInv'
  <2> DEFINE next == [t EXCEPT !.pc = "claim", !.ops = {}, !.fence = 0]
             req == [kind |-> "isolate", fence |-> t.fence, op |-> first, at |-> now]
             a == QuarantineSingleton(store, t.fence, first, now)
  <2>1. next.by = t.by /\ req.kind # "append"
    BY <1>3 DEF TurnFields
  <2>2. NoNew(store, a.state)
    BY <1>3, SealReceipts
  <2>3. Asked(n, a, "quarantined", next, req)
    BY <1>5
  <2> HIDE DEF a, next, req, first
  <2> QED BY <1>1, <2>1, <2>2, <2>3, AskedGate
<1>6. ASSUME To(n, "close"), UNCHANGED orphans, store' = ReleaseCandidate(ExpireOpen(store, now), t.fence)
      PROVE  GateInv'
  <2>1. NoNew(store, store')
    BY <1>3, <1>6, SealReceipts
  <2> QED BY <1>1, <1>6, <2>1, ToServes, TurnKeeps
<1> HIDE DEF first
<1> QED BY <1>2, <1>4, <1>5, <1>6

\* A settlement.
LEMMA SettleGate ==
  ASSUME BufferInv, GateInv, NEW n \in Nodes, Settle(n)
  PROVE  GateInv'
<1> DEFINE t == turn[n]
           how == Disposition(t.pc)
           u == [t EXCEPT !.done = {}]
<1>1. /\ UNCHANGED <<gate, call, drain, accepted>>
      /\ t.pc \in {"delivered", "partial", "quarantine", "queued", "release"}
      /\ UNCHANGED store \/ store' = SettleBatch(store, t.batch, t.fence, how, t.done, now).state
      /\ \E pc : turn' = [turn EXCEPT ![n] = At(u, pc)]
  BY DEF Settle
<1>2. DOMAIN t = TurnFields /\ Shape(store) /\ t.batch \in Batches
  BY <1>1 DEF BufferInv, TurnSound, Sound, Delivering
<1>3. \A q \in orphans' : q \in orphans \/ q.kind # "append"
  <2> DEFINE req == [kind |-> "settle", batch |-> t.batch, fence |-> t.fence, how |-> how, done |-> t.done, at |-> now]
  <2>1. UNCHANGED orphans \/ LeftBehind(req)
    BY DEF Settle
  <2>2. req.kind # "append"
    OBVIOUS
  <2> HIDE DEF req
  <2> QED BY <2>1, <2>2, LeftOther
<1>4. NoNew(store, store')
  <2>1. how = t.pc
    BY <1>1 DEF Disposition
  <2>2. UNCHANGED store => NoNew(store, store')
    BY DEF NoNew
  <2> HIDE DEF how
  <2> QED BY <1>1, <1>2, <2>1, <2>2, SettleReceipts
<1>5. DOMAIN u = TurnFields /\ u.by = t.by
  BY <1>2 DEF TurnFields
<1> HIDE DEF u
<1>6. SameServed
  BY <1>1, <1>5, AtBy, ServedBy
<1> QED BY <1>1, <1>3, <1>4, <1>6, TurnKeeps

-----------------------------------------------------------------------------
(* Waiting for a turn                                                      *)

\* A submission that waits for a turn, in another phase of the wait.
Waits(a, b) ==
  \/ a = b
  \/ a.pc \in {"sync", "turn"} /\ b.pc \in {"turn", "settled"} /\ b.node = a.node /\ b.op = a.op

\* Who waits is inside with a permit and no lease, whatever it waits for.
LEMMA WaitingInside ==
  ASSUME \A c \in Callers : Waits(call[c], call'[c]), NEW n \in Nodes
  PROVE  /\ Inside(call', n, Leasing) = Inside(call, n, Leasing) /\ Inside(call', n, Permitted) = Inside(call, n, Permitted)
         /\ \A r \in Records : Sending(call', n, r) = Sending(call, n, r)
<1>1. ASSUME NEW c \in Callers, call[c] # call'[c]
      PROVE  /\ call'[c].node = call[c].node /\ call'[c].op = call[c].op
             /\ call[c].pc \in Permitted \ Leasing /\ call'[c].pc \in Permitted \ Leasing
             /\ call[c].pc # "append" /\ call'[c].pc # "append"
  BY <1>1 DEF Waits, Leasing, Permitted
<1>2. Inside(call', n, Leasing) = Inside(call, n, Leasing)
  BY <1>1 DEF Inside
<1>3. Inside(call', n, Permitted) = Inside(call, n, Permitted)
  BY <1>1 DEF Inside
<1>4. Inside(call', n, {"append"}) = Inside(call, n, {"append"})
  BY <1>1 DEF Inside
<1>5. ASSUME NEW r \in Records PROVE Sending(call', n, r) = Sending(call, n, r)
  BY <1>1, <1>4 DEF Sending, Inside
<1> QED BY <1>2, <1>3, <1>5

\* A drain that keeps what it has seen.
DrainStays(d, e) ==
  /\ DOMAIN e = DOMAIN d /\ e.idle = d.idle /\ e.clean = d.clean
  /\ e.pc = d.pc \/ (d.pc = "turn" /\ e.pc = "report")

\* So the gate stays exact when submissions only wait.
LEMMA WaitingKeeps ==
  ASSUME BufferInv, GateInv, UNCHANGED <<gate, accepted, store, orphans>>,
         \A c \in Callers : Waits(call[c], call'[c]),
         DOMAIN drain' = Nodes, \A n \in Nodes : DrainStays(drain[n], drain'[n]),
         \A n \in Nodes : TurnServes(turn'[n], call', n) /\ (turn'[n].by = "drain" => drain'[n].pc = "turn")
  PROVE  GateInv'
<1>1. \A c \in Callers : CallPlaced(call'[c])
  BY DEF GateInv, CallPlaced, Waits, Permitted
<1>2. ASSUME NEW n \in Nodes
      PROVE  GateShape(gate'[n]) /\ GateCounts(gate'[n], call', n) /\ DrainHolds(drain'[n], gate'[n], call', n)
  <2>1. /\ Inside(call', n, Leasing) = Inside(call, n, Leasing) /\ Inside(call', n, Permitted) = Inside(call, n, Permitted)
        /\ \A r \in Records : Sending(call', n, r) = Sending(call, n, r)
    BY WaitingInside
  <2>2. GateShape(gate[n]) /\ GateCounts(gate[n], call, n) /\ DrainHolds(drain[n], gate[n], call, n) /\ gate'[n] = gate[n]
    BY DEF GateInv
  <2>3. GateCounts(gate'[n], call', n)
    BY <2>1, <2>2 DEF GateCounts
  <2>4. DrainHolds(drain'[n], gate'[n], call', n)
    BY <2>1, <2>2 DEF DrainHolds, DrainStays
  <2> QED BY <2>2, <2>3, <2>4
<1>3. ASSUME NEW n \in Nodes, NEW q \in orphans'
      PROVE  /\ Accounted(q, gate'[n], accepted', n)
             /\ drain'[n].clean /\ q.kind = "append" /\ q.node = n => q.op \in accepted'
  BY DEF GateInv, Accounted, DrainStays
<1>4. \A r \in Records : store'.receipts[r] # NoReceipt => r \in accepted'
  BY DEF GateInv
<1>5. DOMAIN gate' = Nodes
  BY DEF GateInv
<1> QED BY <1>1, <1>2, <1>3, <1>4, <1>5 DEF GateInv

\* A synchronous submission opens its turn, or its deadline passes first.
LEMMA SyncTurnGate ==
  ASSUME BufferInv, GateInv, NEW c \in Callers, StartSyncTurn(c)
  PROVE  GateInv'
<1> DEFINE n == call[c].node
<1>1. call[c].pc = "sync" /\ UNCHANGED <<gate, accepted, store, orphans, drain>>
  BY DEF StartSyncTurn
<1>2. DOMAIN call[c] = CallFields /\ DOMAIN call = Callers /\ n \in Nodes /\ DOMAIN turn = Nodes
  BY <1>1 DEF BufferInv, CallSound, GateInv, CallPlaced, Permitted
<1>3. PICK pc \in {"turn", "settled"} :
        /\ call' = [call EXCEPT ![c].pc = pc]
        /\ pc = "turn" => \E upTo, force : Open(n, c, upTo, force)
        /\ pc = "settled" => UNCHANGED turn
  BY DEF StartSyncTurn
<1>4. /\ call'[c].pc = pc /\ call'[c].node = n /\ call'[c].op = call[c].op
      /\ \A x \in Callers \ {c} : call'[x] = call[x]
  BY <1>2, <1>3 DEF CallFields
<1>5. \A x \in Callers : Waits(call[x], call'[x])
  BY <1>1, <1>4 DEF Waits
<1>6. DOMAIN drain' = Nodes /\ \A k \in Nodes : DrainStays(drain[k], drain'[k])
  BY <1>1 DEF GateInv, DrainStays
<1>7. \A k \in Nodes : turn[k].by # c
  BY <1>1 DEF GateInv, TurnServes
<1>8. \A k \in Nodes : turn'[k] = turn[k] \/ (k = n /\ pc = "turn" /\ turn'[k].by = c)
  <2>1. CASE pc = "turn"
    <3>1. PICK upTo, force : Open(n, c, upTo, force)
      BY <1>3, <2>1
    <3> DEFINE t == [NoTurn EXCEPT !.pc = "look", !.by = c, !.upTo = upTo, !.force = force]
    <3>2. t.by = c
      BY DEF NoTurn
    <3>3. turn' = [turn EXCEPT ![n] = t]
      BY <3>1 DEF Open
    <3> HIDE DEF t
    <3> QED BY <1>2, <2>1, <3>2, <3>3
  <2>2. CASE pc = "settled"
    BY <1>3, <2>2
  <2> QED BY <2>1, <2>2
<1>9. ASSUME NEW k \in Nodes PROVE TurnServes(turn'[k], call', k) /\ (turn'[k].by = "drain" => drain'[k].pc = "turn")
  <2>1. CASE turn'[k] = turn[k]
    BY <1>1, <1>4, <1>7, <2>1 DEF GateInv, TurnServes
  <2>2. CASE k = n /\ pc = "turn" /\ turn'[k].by = c
    BY <1>4, <2>2, EngineAssumption DEF TurnServes
  <2> QED BY <1>8, <2>1, <2>2
<1> QED BY <1>1, <1>5, <1>6, <1>9, WaitingKeeps

\* The end of a turn lets its submission go on.
LEMMA CloseGate ==
  ASSUME BufferInv, GateInv, NEW n \in Nodes, Close(n)
  PROVE  GateInv'
<1> DEFINE t == turn[n]
<1>1. /\ UNCHANGED <<gate, accepted, store, orphans>> /\ turn' = [turn EXCEPT ![n] = NoTurn]
      /\ call' = [c \in Callers |-> IF c = t.by THEN [call[c] EXCEPT !.pc = "settled"] ELSE call[c]]
      /\ drain' = [drain EXCEPT ![n].pc = IF t.by = "drain" THEN "report" ELSE drain[n].pc]
  BY DEF Close
<1>2. DOMAIN drain = Nodes /\ DOMAIN turn = Nodes /\ DOMAIN drain[n] = DrainFields /\ (t.by = "drain" => drain[n].pc = "turn")
  BY DEF BufferInv, GateInv, DrainHolds
<1>3. t.by \in Callers => call[t.by].pc = "turn" /\ call[t.by].node = n
  BY DEF GateInv, TurnServes
<1>4. \A c \in Callers : DOMAIN call[c] = CallFields
  BY DEF BufferInv, CallSound
<1>5. ASSUME NEW c \in Callers, c = t.by
      PROVE  call'[c].pc = "settled" /\ call'[c].node = call[c].node /\ call'[c].op = call[c].op
  BY <1>1, <1>4, <1>5 DEF CallFields
<1>6. \A c \in Callers : c # t.by => call'[c] = call[c]
  BY <1>1
<1>7. \A c \in Callers : Waits(call[c], call'[c])
  BY <1>3, <1>5, <1>6 DEF Waits
<1>8. DOMAIN drain' = Nodes /\ \A k \in Nodes : DrainStays(drain[k], drain'[k]) /\ (k # n => drain'[k] = drain[k])
  BY <1>1, <1>2 DEF DrainStays, DrainFields
<1>9. NoTurn.by = "none" /\ "none" \notin Callers
  BY EngineAssumption DEF NoTurn
<1>10. turn'[n].by = "none" /\ \A k \in Nodes \ {n} : turn'[k] = turn[k]
  BY <1>1, <1>2, <1>9
<1>11. ASSUME NEW k \in Nodes PROVE TurnServes(turn'[k], call', k) /\ (turn'[k].by = "drain" => drain'[k].pc = "turn")
  <2>1. CASE k = n
    BY <1>9, <1>10, <2>1 DEF TurnServes
  <2>2. CASE k # n
    <3>1. TurnServes(turn[k], call, k) /\ (turn[k].by = "drain" => drain[k].pc = "turn")
      BY DEF GateInv
    <3> QED BY <1>3, <1>6, <1>8, <1>10, <2>2, <3>1 DEF TurnServes
  <2> QED BY <2>1, <2>2
<1> QED BY <1>1, <1>7, <1>8, <1>11, WaitingKeeps

-----------------------------------------------------------------------------
(* The steps of a drain                                                    *)

\* Node n's gate becomes g and its drain d, with the same submissions inside.
LEMMA DrainKeeps ==
  ASSUME BufferInv, GateInv, NEW n \in Nodes, NEW g, NEW d, UNCHANGED <<call, store, accepted, orphans>>,
         gate' = [gate EXCEPT ![n] = g], drain' = [drain EXCEPT ![n] = d],
         GateShape(g), SameCounts(gate[n], g), Forgets(gate[n], g, accepted), DrainHolds(d, g, call, n),
         d.clean => \A q \in orphans : q.kind = "append" /\ q.node = n => q.op \in accepted,
         \A k \in Nodes : turn'[k].by = turn[k].by \/ (k = n /\ turn'[k].by = "drain"),
         turn'[n].by = "drain" => d.pc = "turn"
  PROVE  GateInv'
<1>1. DOMAIN gate' = Nodes /\ gate'[n] = g /\ \A k \in Nodes \ {n} : gate'[k] = gate[k]
  BY DEF GateInv
<1>2. DOMAIN drain' = Nodes /\ drain'[n] = d /\ \A k \in Nodes \ {n} : drain'[k] = drain[k]
  BY DEF GateInv
<1>3. ASSUME NEW k \in Nodes PROVE TurnServes(turn'[k], call', k) /\ (turn'[k].by = "drain" => drain'[k].pc = "turn")
  BY <1>2, EngineAssumption DEF GateInv, TurnServes
<1>4. \A c \in Callers : CallPlaced(call'[c])
  BY DEF GateInv
<1>5. \A r \in Records : store'.receipts[r] # NoReceipt => r \in accepted'
  BY DEF GateInv
<1>6. GateCounts(g, call, n)
  <2>1. GateCounts(gate[n], call, n)
    BY DEF GateInv
  <2> QED BY <2>1 DEF GateCounts, SameCounts
<1>7. ASSUME NEW k \in Nodes
      PROVE  GateShape(gate'[k]) /\ GateCounts(gate'[k], call', k) /\ DrainHolds(drain'[k], gate'[k], call', k)
  <2>1. GateShape(gate[k]) /\ GateCounts(gate[k], call, k) /\ DrainHolds(drain[k], gate[k], call, k)
    BY DEF GateInv
  <2>2. CASE k = n
    BY <1>1, <1>2, <1>6, <2>2
  <2>3. CASE k # n
    BY <1>1, <1>2, <2>1, <2>3
  <2> QED BY <2>2, <2>3
<1>8. ASSUME NEW k \in Nodes, NEW q \in orphans'
      PROVE  /\ Accounted(q, gate'[k], accepted', k)
             /\ drain'[k].clean /\ q.kind = "append" /\ q.node = k => q.op \in accepted'
  <2>1. q \in orphans /\ (q.kind = "append" => q.op \in Records)
    BY DEF BufferInv, RequestSound
  <2>2. CASE k = n
    BY <1>1, <1>2, <2>1, <2>2 DEF GateInv, Accounted, Forgets
  <2>3. CASE k # n
    BY <1>1, <1>2, <2>1, <2>3 DEF GateInv, Accounted
  <2> QED BY <2>2, <2>3
<1> QED BY <1>1, <1>2, <1>3, <1>4, <1>5, <1>7, <1>8 DEF GateInv

\* What reconcile_uncertain_admissions forgets was accepted.
LEMMA ReconcileGate ==
  ASSUME GateInv, NEW n \in Nodes
  PROVE  LET g == Reconcile(gate[n], store)
         IN GateShape(g) /\ SameCounts(gate[n], g) /\ g.closed = gate[n].closed /\ Forgets(gate[n], g, accepted)
<1> DEFINE g == Reconcile(gate[n], store)
<1>1. GateShape(gate[n])
  BY DEF GateInv
<1>2. /\ GateShape(g) /\ SameCounts(gate[n], g) /\ g.closed = gate[n].closed
      /\ Forgets(gate[n], g, {q \in Records : store.receipts[q] # NoReceipt})
  BY <1>1, ReconcileKeeps
<1> HIDE DEF g
<1>3. Forgets(gate[n], g, accepted)
  BY <1>2 DEF Forgets, GateInv
<1> QED BY <1>2, <1>3 DEF g

\* A drain closes the gate before it waits.
LEMMA BeginDrainGate ==
  ASSUME BufferInv, GateInv, NEW n \in Nodes, BeginDrain(n)
  PROVE  GateInv'
<1> DEFINE g == [gate[n] EXCEPT !.closed = TRUE]
           d == [drain[n] EXCEPT !.pc = "idle"]
<1>1. /\ drain[n].pc = "none" /\ UNCHANGED <<call, store, accepted, orphans, turn>>
      /\ gate' = [gate EXCEPT ![n] = g] /\ drain' = [drain EXCEPT ![n] = d]
  BY DEF BeginDrain
<1>2. GateShape(gate[n]) /\ DrainHolds(drain[n], gate[n], call, n) /\ (turn[n].by = "drain" => drain[n].pc = "turn")
  BY DEF GateInv
<1>3. /\ DOMAIN g = GateFields /\ g.closed = TRUE /\ g.mutations = gate[n].mutations
      /\ g.submissions = gate[n].submissions /\ g.dispatch = gate[n].dispatch
  BY <1>2 DEF GateShape, GateFields
<1>4. DOMAIN d = DrainFields /\ d.pc = "idle" /\ d.idle = drain[n].idle /\ d.clean = drain[n].clean
  BY <1>2 DEF DrainHolds, DrainFields
<1> HIDE DEF g, d
<1>5. GateShape(g) /\ SameCounts(gate[n], g) /\ Forgets(gate[n], g, accepted)
  BY <1>2, <1>3 DEF GateShape, SameCounts, Forgets
<1>6. ~d.clean /\ ~d.idle
  BY <1>1, <1>2, <1>4 DEF DrainHolds
<1>7. DrainHolds(d, g, call, n)
  BY <1>2, <1>3, <1>4, <1>6 DEF DrainHolds
<1>8. turn'[n].by # "drain" /\ \A k \in Nodes : turn'[k].by = turn[k].by
  BY <1>1, <1>2
<1> QED BY <1>1, <1>5, <1>6, <1>7, <1>8, DrainKeeps

\* A drain that finds no admission under way has none to wait for.
LEMMA DrainTurnGate ==
  ASSUME BufferInv, GateInv, NEW n \in Nodes, DrainTurn(n)
  PROVE  GateInv'
<1> DEFINE g == Reconcile(gate[n], store)
<1>1. drain[n].pc = "idle" /\ UNCHANGED <<call, store, accepted, orphans>> /\ gate' = [gate EXCEPT ![n] = g]
  BY DEF DrainTurn
<1>2. PICK idle \in BOOLEAN, pc \in {"turn", "report"} :
        /\ idle => gate[n].mutations = 0
        /\ drain' = [drain EXCEPT ![n].pc = pc, ![n].idle = idle]
        /\ pc = "turn" => Open(n, "drain", Cardinality(Records) * 2, TRUE)
        /\ pc = "report" => UNCHANGED turn
  BY DEF DrainTurn
<1>3. /\ DrainHolds(drain[n], gate[n], call, n) /\ (turn[n].by = "drain" => drain[n].pc = "turn")
      /\ GateCounts(gate[n], call, n) /\ DOMAIN drain = Nodes
  BY DEF GateInv
<1> DEFINE d == [drain[n] EXCEPT !.pc = pc, !.idle = idle]
<1>4. drain' = [drain EXCEPT ![n] = d]
  BY <1>2, <1>3
<1>5. DOMAIN d = DrainFields /\ d.pc = pc /\ d.idle = idle /\ d.clean = drain[n].clean
  BY <1>3 DEF DrainHolds, DrainFields
<1> HIDE DEF d
<1>6. ~d.clean
  BY <1>1, <1>3, <1>5 DEF DrainHolds
<1>7. d.idle => Inside(call, n, Leasing) = {}
  <2>1. ASSUME d.idle PROVE Cardinality(Inside(call, n, Leasing)) = 0
    BY <1>2, <1>3, <1>5, <2>1 DEF GateCounts
  <2>2. IsFiniteSet(Inside(call, n, Leasing))
    <3>1. Inside(call, n, Leasing) \subseteq Callers
      BY DEF Inside
    <3> QED BY <3>1, EngineAssumption, FS_Subset
  <2> QED BY <2>1, <2>2, FS_EmptySet
<1>8. GateShape(g) /\ SameCounts(gate[n], g) /\ g.closed = gate[n].closed /\ Forgets(gate[n], g, accepted)
  BY ReconcileGate
<1> HIDE DEF g
<1>9. DrainHolds(d, g, call, n)
  BY <1>1, <1>2, <1>3, <1>5, <1>6, <1>7, <1>8 DEF DrainHolds
<1>10. /\ \A k \in Nodes : turn'[k].by = turn[k].by \/ (k = n /\ turn'[k].by = "drain")
       /\ turn'[n].by = "drain" => d.pc = "turn"
  <2>1. CASE pc = "turn"
    <3> DEFINE t == [NoTurn EXCEPT !.pc = "look", !.by = "drain", !.upTo = Cardinality(Records) * 2, !.force = TRUE]
    <3>1. t.by = "drain"
      BY DEF NoTurn
    <3>2. turn' = [turn EXCEPT ![n] = t]
      BY <1>2, <2>1 DEF Open
    <3> HIDE DEF t
    <3> QED BY <1>5, <2>1, <3>1, <3>2 DEF BufferInv
  <2>2. CASE pc = "report"
    BY <1>1, <1>2, <1>3, <2>2
  <2> QED BY <2>1, <2>2
<1> QED BY <1>1, <1>4, <1>6, <1>8, <1>9, <1>10, DrainKeeps

\* A clean report: every append this process left behind is accounted for.
LEMMA DrainReportGate ==
  ASSUME BufferInv, GateInv, NEW n \in Nodes, DrainReport(n)
  PROVE  GateInv'
<1> DEFINE g == Reconcile(gate[n], store)
<1>1. /\ drain[n].pc = "report" /\ UNCHANGED <<call, store, accepted, orphans, turn>> /\ gate' = [gate EXCEPT ![n] = g]
      /\ \E clean \in BOOLEAN :
           /\ clean => drain[n].clean \/ (drain[n].idle /\ Unknown(g) = {})
           /\ drain' = [drain EXCEPT ![n].pc = "done", ![n].clean = clean]
  <2>1. /\ drain[n].pc = "report" /\ UNCHANGED <<call, store, accepted, orphans, turn>> /\ gate' = [gate EXCEPT ![n] = g]
    BY DEF DrainReport
  <2>2. DOMAIN drain = Nodes /\ DOMAIN drain[n] = DrainFields /\ drain[n].clean \in BOOLEAN
    BY DEF GateInv, DrainHolds
  <2> DEFINE ok == /\ drain[n].idle /\ Unknown(g) = {} /\ Dispatched(g) = {}
                   /\ Unsettled(store) = {} /\ QuarantineCount(store) = 0
  <2>3. ok \in BOOLEAN /\ (ok => drain[n].idle /\ Unknown(g) = {})
    OBVIOUS
  <2>4. \/ drain' = [drain EXCEPT ![n].pc = "done", ![n].clean = ok]
        \/ drain' = [drain EXCEPT ![n].pc = "done"]
    BY DEF DrainReport
  <2> HIDE DEF ok, g
  <2>5. drain' = [drain EXCEPT ![n].pc = "done"] => drain' = [drain EXCEPT ![n].pc = "done", ![n].clean = drain[n].clean]
    BY <2>2 DEF DrainFields
  <2> QED BY <2>1, <2>2, <2>3, <2>4, <2>5
<1>2. PICK clean \in BOOLEAN :
        /\ clean => drain[n].clean \/ (drain[n].idle /\ Unknown(g) = {})
        /\ drain' = [drain EXCEPT ![n].pc = "done", ![n].clean = clean]
  BY <1>1
<1>3. /\ DrainHolds(drain[n], gate[n], call, n) /\ (turn[n].by = "drain" => drain[n].pc = "turn") /\ DOMAIN drain = Nodes
  BY DEF GateInv
<1> DEFINE d == [drain[n] EXCEPT !.pc = "done", !.clean = clean]
<1>4. drain' = [drain EXCEPT ![n] = d]
  BY <1>2, <1>3
<1>5. DOMAIN d = DrainFields /\ d.pc = "done" /\ d.idle = drain[n].idle /\ d.clean = clean
  BY <1>3 DEF DrainHolds, DrainFields
<1>6. GateShape(g) /\ SameCounts(gate[n], g) /\ g.closed = gate[n].closed /\ Forgets(gate[n], g, accepted)
  BY ReconcileGate
<1> HIDE DEF d, g
<1>7. clean => drain[n].idle /\ Unknown(g) = {}
  BY <1>1, <1>2, <1>3 DEF DrainHolds
<1>8. DrainHolds(d, g, call, n)
  BY <1>1, <1>3, <1>5, <1>6, <1>7 DEF DrainHolds
<1>9. ASSUME d.clean, NEW q \in orphans, q.kind = "append", q.node = n PROVE q.op \in accepted
  <2>1. q.op \in Records
    BY <1>9 DEF BufferInv, RequestSound
  <2>2. q.op \in accepted \/ gate[n].dispatch[q.op].unknown
    BY <1>9 DEF GateInv, Accounted
  <2>3. ~g.dispatch[q.op].unknown
    BY <1>5, <1>7, <1>9, <2>1 DEF Unknown
  <2> QED BY <1>6, <2>1, <2>2, <2>3 DEF Forgets
<1>10. turn'[n].by # "drain" /\ \A k \in Nodes : turn'[k].by = turn[k].by
  BY <1>1, <1>3
<1> QED BY <1>1, <1>4, <1>6, <1>8, <1>9, <1>10, DrainKeeps

-----------------------------------------------------------------------------
(* Late requests and crashes                                               *)

\* A late request changes no gate; an append that takes effect is accepted.
LEMMA LateGate ==
  ASSUME BufferInv, GateInv, NEW q \in orphans, Late(q)
  PROVE  GateInv'
<1>1. /\ UNCHANGED <<gate, call, drain, turn>> /\ orphans' \subseteq orphans
      /\ accepted' = IF q.kind = "append" /\ AppendRecord(store, q.op, q.print).result = "appended"
                     THEN accepted \cup {q.op} ELSE accepted
  BY DEF Late
<1>2. Shape(store) /\ RequestSound(q, batchOps, applied, published)
  BY DEF BufferInv, Sound
<1>3. CASE q.kind = "append"
  <2> DEFINE a == AppendRecord(store, q.op, q.print)
  <2>1. store' = a.state /\ q.op \in Records
    BY <1>2, <1>3 DEF Late, RequestSound
  <2>2. ASSUME NEW r \in Records, a.state.receipts[r] # NoReceipt
        PROVE  store.receipts[r] # NoReceipt \/ (r = q.op /\ a.result = "appended")
    BY <1>2, <2>1, <2>2, AppendReceipts
  <2>3. accepted \subseteq accepted' /\ (a.result = "appended" => q.op \in accepted')
    BY <1>1, <1>3
  <2> HIDE DEF a
  <2>4. ReceiptsNext
    BY <2>1, <2>2, <2>3 DEF ReceiptsNext, GateInv
  <2>5. \A c \in Callers : CallPlaced(call'[c])
    BY <1>1 DEF GateInv
  <2>6. ASSUME NEW n \in Nodes
        PROVE  /\ GateShape(gate'[n]) /\ GateCounts(gate'[n], call', n) /\ DrainHolds(drain'[n], gate'[n], call', n)
               /\ TurnServes(turn'[n], call', n) /\ (turn'[n].by = "drain" => drain'[n].pc = "turn")
    BY <1>1 DEF GateInv
  <2>7. ASSUME NEW n \in Nodes, NEW p \in orphans'
        PROVE  /\ Accounted(p, gate'[n], accepted', n)
               /\ drain'[n].clean /\ p.kind = "append" /\ p.node = n => p.op \in accepted'
    BY <1>1, <2>3 DEF GateInv, Accounted
  <2>8. DOMAIN gate' = Nodes /\ DOMAIN drain' = Nodes
    BY <1>1 DEF GateInv
  <2> QED BY <2>4, <2>5, <2>6, <2>7, <2>8 DEF GateInv, ReceiptsNext
<1>4. CASE q.kind # "append"
  <2>1. NoNew(store, store')
    <3>1. CASE q.kind = "claim"
      <4>1. store' = ClaimWork(store, Claimable(store, q.at), q.open, q.upTo, q.at).state
        BY <3>1 DEF Late
      <4>2. Claimable(store, q.at) \subseteq SealedBatches(store)
        BY DEF Claimable
      <4> QED BY <1>2, <4>1, <4>2, ClaimReceipts
    <3>2. CASE q.kind = "install"
      <4>1. store' = InstallBatch(store, q.fence, q.batch, q.ops, q.size, q.at).state
        BY <3>2 DEF Late
      <4>2. q.batch \in Batches
        BY <1>2, <3>2 DEF RequestSound
      <4> QED BY <1>2, <4>1, <4>2, SealReceipts
    <3>3. CASE q.kind = "isolate"
      <4>1. store' = QuarantineSingleton(store, q.fence, q.op, q.at).state
        BY <3>3 DEF Late
      <4> QED BY <1>2, <4>1, SealReceipts
    <3>4. CASE q.kind = "settle"
      <4>1. store' = SettleBatch(store, q.batch, q.fence, q.how, q.done, q.at).state
        BY <3>4 DEF Late
      <4>2. /\ q.batch \in Batches
            /\ q.how \in {"delivered", "partial", "quarantine", "queued", "release"}
        BY <1>2, <3>4 DEF RequestSound, MaySettle
      <4> QED BY <1>2, <4>1, <4>2, SettleReceipts
    <3> QED BY <1>2, <1>4, <3>1, <3>2, <3>3, <3>4 DEF RequestSound
  <2>2. UNCHANGED accepted /\ SameServed
    BY <1>1, <1>4 DEF SameServed
  <2> QED BY <1>1, <2>1, <2>2, TurnKeeps
<1> QED BY <1>3, <1>4

\* A restarted process has nobody inside, and the appends it had sent are of
\* a former process.
LEMMA CrashGate ==
  ASSUME BufferInv, GateInv, NEW n \in Nodes, Crash(n)
  PROVE  GateInv'
<1> DEFINE mine == {c \in Callers : call[c].node = n /\ call[c].pc # "done"}
           former(q) == IF q.kind = "append" /\ q.node = n THEN [q EXCEPT !.node = "former"] ELSE q
           sent == IF "late" \in Faults THEN {c \in mine : call[c].pc = "append"} ELSE {}
<1>1. /\ UNCHANGED <<store, accepted>>
      /\ turn' = [turn EXCEPT ![n] = NoTurn] /\ gate' = [gate EXCEPT ![n] = FreshGate] /\ drain' = [drain EXCEPT ![n] = NoDrain]
      /\ call' = [c \in Callers |-> IF c \in mine THEN Returned(c, "crashed")[c] ELSE call[c]]
      /\ \E late \in SUBSET sent :
           orphans' = {former(q) : q \in orphans \cup {AppendRequest(c) : c \in late}}
  BY DEF Crash
<1>2. DOMAIN gate' = Nodes /\ gate'[n] = FreshGate /\ \A k \in Nodes \ {n} : gate'[k] = gate[k]
  BY <1>1 DEF GateInv
<1>3. DOMAIN drain' = Nodes /\ drain'[n] = NoDrain /\ \A k \in Nodes \ {n} : drain'[k] = drain[k]
  BY <1>1 DEF GateInv
<1>4. DOMAIN turn' = Nodes /\ turn'[n] = NoTurn /\ \A k \in Nodes \ {n} : turn'[k] = turn[k]
  BY <1>1 DEF BufferInv
<1>5. ASSUME NEW c \in Callers
      PROVE  (c \in mine /\ call'[c].pc = "done" /\ call'[c].node = "none") \/ (c \notin mine /\ call'[c] = call[c])
  <2>1. Returned(c, "crashed")[c] = [IdleCall EXCEPT !.pc = "done", !.result = "crashed"]
    BY DEF Returned, BufferInv
  <2>2. [IdleCall EXCEPT !.pc = "done", !.result = "crashed"].pc = "done" /\ [IdleCall EXCEPT !.pc = "done", !.result = "crashed"].node = "none"
    BY DEF IdleCall
  <2> QED BY <1>1, <2>1, <2>2
<1>6. ASSUME NEW c \in Callers, c \notin mine PROVE call[c].node = n => call[c].pc \notin Permitted
  BY <1>6, OutsidePhases
<1>7. \A c \in mine : call[c].node = n
  OBVIOUS
<1> HIDE DEF mine
<1>8. \A c \in Callers : CallPlaced(call'[c])
  BY <1>5, OutsidePhases DEF GateInv, CallPlaced
<1>9. ASSUME NEW P, P \subseteq Permitted
      PROVE  Inside(call', n, P) = {} /\ \A k \in Nodes \ {n} : Inside(call', k, P) = Inside(call, k, P)
  <2>1. Inside(call', n, P) = {}
    BY <1>5, <1>6, <1>9, OutsidePhases DEF Inside
  <2>2. ASSUME NEW k \in Nodes \ {n} PROVE Inside(call', k, P) = Inside(call, k, P)
    BY <1>5, <1>7, <1>9, OutsidePhases DEF Inside
  <2> QED BY <2>1, <2>2
<1>10. Leasing \subseteq Permitted /\ Permitted \subseteq Permitted /\ {"append"} \subseteq Permitted
  BY DEF Leasing, Permitted
<1>11. /\ GateShape(FreshGate) /\ FreshGate.mutations = 0 /\ FreshGate.submissions = 0
       /\ \A r \in Records : FreshGate.dispatch[r].active = 0
  BY DEF FreshGate, GateShape, GateFields, DispatchFields, NoDispatch
<1>12. DOMAIN NoDrain = DrainFields /\ NoDrain.pc = "none" /\ NoDrain.idle = FALSE /\ NoDrain.clean = FALSE
  BY DEF NoDrain, DrainFields
<1>13. NoTurn.by = "none" /\ "none" \notin Callers
  BY EngineAssumption DEF NoTurn
<1>14. GateShape(gate'[n]) /\ GateCounts(gate'[n], call', n) /\ DrainHolds(drain'[n], gate'[n], call', n)
       /\ TurnServes(turn'[n], call', n) /\ (turn'[n].by = "drain" => drain'[n].pc = "turn")
  <2>1. Inside(call', n, Leasing) = {} /\ Inside(call', n, Permitted) = {} /\ \A r : Sending(call', n, r) = {}
    <3>1. Inside(call', n, Leasing) = {} /\ Inside(call', n, Permitted) = {} /\ Inside(call', n, {"append"}) = {}
      BY <1>9, <1>10
    <3> QED BY <3>1 DEF Sending
  <2>2. GateCounts(FreshGate, call', n)
    BY <1>11, <2>1, FS_EmptySet DEF GateCounts
  <2>3. DrainHolds(NoDrain, FreshGate, call', n)
    BY <1>12 DEF DrainHolds
  <2>4. TurnServes(NoTurn, call', n)
    BY <1>13 DEF TurnServes
  <2> QED BY <1>2, <1>3, <1>4, <1>11, <1>13, <2>2, <2>3, <2>4
<1>15. ASSUME NEW k \in Nodes \ {n}
       PROVE  /\ GateShape(gate'[k]) /\ GateCounts(gate'[k], call', k) /\ DrainHolds(drain'[k], gate'[k], call', k)
              /\ TurnServes(turn'[k], call', k) /\ (turn'[k].by = "drain" => drain'[k].pc = "turn")
  <2>1. /\ Inside(call', k, Leasing) = Inside(call, k, Leasing) /\ Inside(call', k, Permitted) = Inside(call, k, Permitted)
        /\ Inside(call', k, {"append"}) = Inside(call, k, {"append"})
    BY <1>9, <1>10
  <2>2. ASSUME NEW r \in Records PROVE Sending(call', k, r) = Sending(call, k, r)
    <3>1. \A c \in Inside(call, k, {"append"}) : call'[c] = call[c]
      BY <1>5, <1>7 DEF Inside
    <3> QED BY <2>1, <3>1 DEF Sending
  <2>3. /\ GateShape(gate[k]) /\ GateCounts(gate[k], call, k) /\ DrainHolds(drain[k], gate[k], call, k)
        /\ TurnServes(turn[k], call, k) /\ (turn[k].by = "drain" => drain[k].pc = "turn")
    BY DEF GateInv
  <2>4. GateCounts(gate[k], call', k)
    BY <2>1, <2>2, <2>3 DEF GateCounts
  <2>5. DrainHolds(drain[k], gate[k], call', k)
    BY <2>1, <2>3 DEF DrainHolds
  <2>6. TurnServes(turn[k], call', k)
    BY <1>5, <1>7, <2>3 DEF TurnServes
  <2> QED BY <1>2, <1>3, <1>4, <2>3, <2>4, <2>5, <2>6
<1>16. ASSUME NEW p \in orphans', p.kind = "append", p.node \in Nodes PROVE p \in orphans /\ p.node # n
  <2>1. PICK late \in SUBSET sent : orphans' = {former(q) : q \in orphans \cup {AppendRequest(c) : c \in late}}
    BY <1>1
  <2>2. PICK q \in orphans \cup {AppendRequest(c) : c \in late} : p = former(q)
    BY <2>1
  <2>3. ASSUME q.kind = "append", q.node = n PROVE FALSE
    <3>1. DOMAIN q = {"kind", "op", "print", "node"}
      <4>1. CASE q \in orphans
        BY <2>3, <4>1 DEF BufferInv, RequestSound
      <4>2. CASE q \in {AppendRequest(c) : c \in late}
        BY <4>2 DEF AppendRequest
      <4> QED BY <4>1, <4>2
    <3>2. p = [q EXCEPT !.node = "former"]
      BY <2>2, <2>3
    <3>3. p.node = "former"
      BY <3>1, <3>2
    <3> QED BY <1>16, <3>3, EngineAssumption
  <2>4. p = q
    BY <2>2, <2>3
  <2>5. ASSUME NEW c \in late, q = AppendRequest(c) PROVE q.kind = "append" /\ q.node = n
    <3>1. c \in mine
      OBVIOUS
    <3> QED BY <1>7, <2>5, <3>1 DEF AppendRequest
  <2> HIDE DEF former, sent
  <2> QED BY <1>16, <2>2, <2>3, <2>4, <2>5
<1>17. ASSUME NEW k \in Nodes, NEW p \in orphans'
       PROVE  /\ Accounted(p, gate'[k], accepted', k)
              /\ drain'[k].clean /\ p.kind = "append" /\ p.node = k => p.op \in accepted'
  <2>1. CASE p.kind = "append" /\ p.node = k
    <3>1. p \in orphans /\ k # n
      BY <1>16, <2>1
    <3>2. gate'[k] = gate[k] /\ drain'[k] = drain[k] /\ accepted' = accepted
      BY <1>1, <1>2, <1>3, <3>1
    <3>3. /\ Accounted(p, gate[k], accepted, k)
          /\ drain[k].clean /\ p.kind = "append" /\ p.node = k => p.op \in accepted
      BY <3>1 DEF GateInv
    <3> QED BY <3>2, <3>3
  <2>2. CASE ~(p.kind = "append" /\ p.node = k)
    BY <2>2 DEF Accounted
  <2> QED BY <2>1, <2>2
<1>18. \A r \in Records : store'.receipts[r] # NoReceipt => r \in accepted'
  BY <1>1 DEF GateInv
<1> QED BY <1>2, <1>3, <1>8, <1>14, <1>15, <1>17, <1>18 DEF GateInv

-----------------------------------------------------------------------------
(* The theorem of the gate                                                 *)

\* A fresh gate counts nobody.
LEMMA InitGate ==
  ASSUME EngineInit
  PROVE  GateInv
<1>1. /\ GateShape(FreshGate) /\ FreshGate.mutations = 0 /\ FreshGate.submissions = 0
      /\ \A r \in Records : FreshGate.dispatch[r].active = 0
  BY DEF FreshGate, GateShape, GateFields, DispatchFields, NoDispatch
<1>2. DOMAIN NoDrain = DrainFields /\ NoDrain.pc = "none" /\ NoDrain.idle = FALSE /\ NoDrain.clean = FALSE
  BY DEF NoDrain, DrainFields
<1>3. NoTurn.by = "none" /\ "none" \notin Callers
  BY EngineAssumption DEF NoTurn
<1>4. \A c \in Callers : call[c].pc = "idle"
  BY DEF EngineInit, IdleCall
<1>5. \A r \in Records : store.receipts[r] = NoReceipt
  BY DEF EngineInit, EmptyState
<1>6. ASSUME NEW n \in Nodes
      PROVE  /\ GateShape(gate[n]) /\ GateCounts(gate[n], call, n) /\ DrainHolds(drain[n], gate[n], call, n)
             /\ TurnServes(turn[n], call, n) /\ (turn[n].by = "drain" => drain[n].pc = "turn")
  <2>1. gate[n] = FreshGate /\ drain[n] = NoDrain /\ turn[n] = NoTurn
    BY DEF EngineInit
  <2>2. Inside(call, n, Leasing) = {} /\ Inside(call, n, Permitted) = {} /\ \A r : Sending(call, n, r) = {}
    BY <1>4 DEF Inside, Sending, Leasing, Permitted
  <2>3. GateCounts(FreshGate, call, n)
    BY <1>1, <2>2, FS_EmptySet DEF GateCounts
  <2>4. DrainHolds(NoDrain, FreshGate, call, n)
    BY <1>2 DEF DrainHolds
  <2>5. TurnServes(NoTurn, call, n)
    BY <1>3 DEF TurnServes
  <2> QED BY <1>1, <1>3, <2>1, <2>3, <2>4, <2>5
<1>7. \A c \in Callers : CallPlaced(call[c])
  BY <1>4, OutsidePhases DEF CallPlaced
<1>8. DOMAIN gate = Nodes /\ DOMAIN drain = Nodes /\ orphans = {}
  BY DEF EngineInit
<1> QED BY <1>5, <1>6, <1>7, <1>8 DEF GateInv

\* Nothing moves.
LEMMA StillGate ==
  ASSUME BufferInv, GateInv, UNCHANGED <<gate, call, drain, accepted, turn, store, orphans>>
  PROVE  GateInv'
<1>1. SameServed /\ NoNew(store, store')
  BY DEF SameServed, NoNew
<1> QED BY <1>1, TurnKeeps

\* Every step of the engine keeps the gate exact.
LEMMA NextGate ==
  ASSUME BufferInv, GateInv, [EngineNext]_engineVars
  PROVE  GateInv'
<1>1. ASSUME NEW c \in Callers, CallerNext(c) PROVE GateInv'
  <2>1. \/ \E n \in Nodes, r \in Records, print \in Prints : Begin(c, n, r, print)
        \/ Stage(c) \/ AppendOnce(c) \/ StartSyncTurn(c) \/ SyncReturn(c)
        \/ GiveUp(c, "deadline") \/ GiveUp(c, "cancelled")
    BY <1>1 DEF CallerNext
  <2> QED BY <2>1, BeginGate, StageGate, AppendGate, SyncTurnGate, SyncReturnGate, GiveUpGate
<1>2. ASSUME NEW n \in Nodes, TurnNext(n) PROVE GateInv'
  BY <1>2, PlainGate, ClaimGate, SealGate, SettleGate, CloseGate DEF TurnNext
<1>3. ASSUME NEW n \in Nodes, DrainNext(n) PROVE GateInv'
  BY <1>3, BeginDrainGate, DrainTurnGate, DrainReportGate DEF DrainNext
<1>4. CASE Tick
  BY <1>4, StillGate DEF Tick
<1>5. CASE UNCHANGED engineVars
  BY <1>5, StillGate DEF engineVars
<1> QED BY <1>1, <1>2, <1>3, <1>4, <1>5, CrashGate, LateGate DEF EngineNext

\* The invariant says what the property promises.
LEMMA GateSays ==
  ASSUME GateInv
  PROVE  DrainExact
<1>1. ASSUME NEW n \in Nodes
      PROVE  LET inside(pcs) == {c \in Callers : call[c].node = n /\ call[c].pc \in pcs}
             IN /\ gate[n].mutations = Cardinality(inside({"reserve", "again", "append"}))
                /\ gate[n].submissions =
                     Cardinality(inside({"reserve", "again", "append", "sync", "turn", "settled"}))
                /\ \A r \in Records : gate[n].dispatch[r].active =
                     Cardinality({c \in inside({"append"}) : call[c].op = r})
  <2> DEFINE inside(pcs) == {c \in Callers : call[c].node = n /\ call[c].pc \in pcs}
  <2>1. /\ inside({"reserve", "again", "append"}) = Inside(call, n, Leasing)
        /\ inside({"reserve", "again", "append", "sync", "turn", "settled"}) = Inside(call, n, Permitted)
        /\ \A r \in Records : {c \in inside({"append"}) : call[c].op = r} = Sending(call, n, r)
    BY DEF Inside, Sending, Leasing, Permitted
  <2>2. GateCounts(gate[n], call, n)
    BY DEF GateInv
  <2> HIDE DEF inside
  <2> QED BY <2>1, <2>2 DEF GateCounts, inside
<1>2. ASSUME NEW n \in Nodes, drain[n].clean
      PROVE  /\ \A c \in Callers : call[c].node = n => call[c].pc \notin {"reserve", "again", "append"}
             /\ \A q \in orphans : q.kind = "append" /\ q.node = n => q.op \in accepted
  <2>1. Inside(call, n, Leasing) = {}
    BY <1>2 DEF GateInv, DrainHolds
  <2>2. \A c \in Callers : call[c].node = n => call[c].pc \notin {"reserve", "again", "append"}
    BY <2>1 DEF Inside, Leasing
  <2> QED BY <1>2, <2>2 DEF GateInv
<1>3. GateExact
  BY <1>1 DEF GateExact
<1>4. CleanDrainIsFinal
  BY <1>2 DEF CleanDrainIsFinal
<1> QED BY <1>3, <1>4 DEF DrainExact

\* For any number of nodes, callers and records: the gate counts exactly the
\* submissions inside, whatever is refused, cancelled, abandoned or crashes,
\* and once a drain has reported clean no admission is under way and no append
\* the process sent can still add an operation.
THEOREM DrainsAreExact == EngineSpec => []DrainExact
<1>1. EngineInit => GateInv
  BY InitGate
<1>2. BufferInv /\ GateInv /\ [EngineNext]_engineVars => GateInv'
  BY NextGate
<1>3. EngineSpec => []GateInv
  BY <1>1, <1>2, BufferInductive, PTL DEF EngineSpec
<1>4. GateInv => DrainExact
  BY GateSays
<1> QED
  BY <1>3, <1>4, PTL

=============================================================================
