--------------------------- MODULE JobPermitProofs ---------------------------
(***************************************************************************)
(* Permits are neither leaked nor shared.  A completion deletes the permit *)
(* keys of its claim without checking them, so the proof shows that every  *)
(* claim, and every pending transaction that ends a lease, names exactly   *)
(* the permits the lease's token holds for as long as the lease lasts      *)
(* (Exact).  That tokens are handed out once is UInv (JobLifecycleProofs). *)
(***************************************************************************)
EXTENDS JobLifecycleProofs

Holdings(t) == {k \in PermitKeys : permits[k] = t}

LeasedAs(j, t) == rows[j].job.state = "leased" /\ rows[j].job.lease.token = t

\* For as long as job j is leased under token t, keys are the permits t holds.
Exact(j, t, keys) == LeasedAs(j, t) => Holdings(t) = keys

\* The lease a claim opens and the lease any other transaction ends.
TxExact(tx) ==
  IF tx.kind = "claim" THEN Exact(tx.job, tx.new.lease.token, tx.permits.keys)
  ELSE tx.old.state = "leased" /\ tx.new.state # "leased" =>
         Exact(tx.job, tx.old.lease.token, tx.permits.keys)

ClaimExact(c) == c.held => Exact(c.job, c.rec.lease.token, c.keys)
CallExact(c) ==
  /\ c.phase = "loading" => ClaimExact(c.claim)
  /\ c.phase \in CommitPhases => TxExact(c.tx)
LateExact(tx) == tx # NoTx => TxExact(tx)

TokensDistinct ==
  \A i, j \in Jobs, t \in Nat : LeasedAs(i, t) /\ LeasedAs(j, t) => i = j

\* The transaction of a claim holder is made from the claim it still holds.
Own(p) ==
  call[p].phase \in CommitPhases /\ call[p].tx.kind \in {"renew", "settle", "request"} =>
    /\ claim[p].held
    /\ call[p].tx.job = claim[p].job /\ call[p].tx.old = claim[p].rec
    /\ call[p].tx.op.old = claim[p].op /\ call[p].tx.permits.keys = claim[p].keys
    /\ call[p].tx.kind = "renew" \/ call[p].tx.probe = "op" => ~claim[p].lost

PermitsTracked ==
  \A p \in Procs :
    Own(p) /\ ClaimExact(claim[p]) /\ CallExact(call[p]) /\ LateExact(limbo[p])

PInv == UInv /\ PermitsOwned /\ TokensDistinct /\ PermitsTracked

-----------------------------------------------------------------------------
(* What applying a transaction does to the permits                         *)

Vacates(tx) == tx.kind = "claim" \/ tx.new.state # "leased"

\* A claim's token holds the claim's permits; the lease that ends holds none;
\* nobody else's permits change.
LEMMA HoldingsAfter ==
  ASSUME IInv, PermitsOwned, TokensDistinct, NEW tx, GoodTx(tx), Applied(tx), TxExact(tx),
         \A i \in Novel(tx) : ~NamedByStore(i)
  PROVE  /\ tx.kind = "claim" => Holdings(tx.new.lease.token)' = tx.permits.keys
         /\ Vacates(tx) /\ tx.old.state = "leased" => Holdings(tx.old.lease.token)' = {}
         /\ ~Vacates(tx) => permits' = permits
         /\ \A v \in Nat :
              /\ v # NoId
              /\ ~(tx.kind = "claim" /\ v = tx.new.lease.token)
              /\ ~(tx.old.state = "leased" /\ v = tx.old.lease.token)
              => Holdings(v)' = Holdings(v)
<1> DEFINE j == tx.job
           t == tx.old.lease.token
           keys == tx.permits.keys
<1>1. /\ j \in Jobs /\ tx \in Tx /\ Identity(tx) /\ RowOK(rows[j])
      /\ rows[j].job = tx.old /\ rows'[j].job = tx.new /\ Hands(tx, rows[j])
  BY AppliedFacts DEF Outcome
<1>2. /\ keys \subseteq PermitKeys /\ permits \in [PermitKeys -> Nat]
      /\ permits' = [k \in PermitKeys |-> IF k \in keys THEN tx.permits.new ELSE permits[k]]
      /\ tx.permits.check => \A k \in keys : permits[k] = tx.permits.old
  BY <1>1 DEF IInv, TypeOK, Tx, Applied, PermitsAfter, PermitsFit
<1>3. tx.old.state = "leased" => t # NoId /\ t \in Nat /\ Holdings(t) \in PermitSets[j]
  BY <1>1 DEF RowOK, PermitsOwned, Holdings, Tx, Record, Lease
<1>4. CASE tx.kind = "claim"
  <2> DEFINE new == tx.new.lease.token
  <2>1. new \in Novel(tx) /\ new # NoId
    BY <1>1, <1>4 DEF Identity, Novel, RecordIds
  <2>2. \A k \in PermitKeys : permits[k] # new
    BY <2>1 DEF NamedByStore
  <2>3. /\ tx.permits.check /\ tx.permits.new = new /\ keys \in PermitSets[j]
        /\ tx.permits.old = IF tx.old.state = "leased" THEN t ELSE NoId
    BY <1>1, <1>4 DEF Hands
  <2>4. tx.old.state = "leased" => keys = Holdings(t)
    <3> SUFFICES ASSUME tx.old.state = "leased" PROVE keys = Holdings(t)
      OBVIOUS
    <3>1. keys \subseteq Holdings(t)
      BY <1>2, <2>3 DEF Holdings
    <3> QED
      BY <1>1, <1>3, <2>3, <3>1, PermitAssumption
  <2>5. t # new
    BY <2>1 DEF Novel, RecordIds
  <2>6. Holdings(new)' = keys
    BY <1>2, <2>2, <2>3 DEF Holdings
  <2>7. tx.old.state = "leased" => Holdings(t)' = {}
    BY <1>2, <2>3, <2>4, <2>5 DEF Holdings
  <2>8. ASSUME NEW v \in Nat, v # NoId, v # new, ~(tx.old.state = "leased" /\ v = t)
        PROVE  Holdings(v)' = Holdings(v)
    BY <1>2, <2>3, <2>8 DEF Holdings
  <2> QED
    BY <1>4, <2>6, <2>7, <2>8 DEF Vacates
<1>5. CASE tx.kind # "claim" /\ tx.new.state = "leased"
  <2>1. permits' = permits
    BY <1>1, <1>2, <1>5 DEF Hands
  <2> QED
    BY <1>5, <2>1 DEF Vacates, Holdings
<1>6. CASE tx.kind # "claim" /\ tx.new.state # "leased"
  <2>1. tx.permits.new = NoId /\ (tx.old.state = "leased" \/ keys = {})
    BY <1>1, <1>6 DEF Hands
  <2>2. CASE tx.old.state = "leased"
    <3>1. keys = Holdings(t)
      BY <1>1, <1>6, <2>2 DEF TxExact, Exact, LeasedAs
    <3>2. Holdings(t)' = {}
      BY <1>2, <1>3, <2>1, <2>2, <3>1 DEF Holdings
    <3>3. ASSUME NEW v \in Nat, v # NoId, v # t
          PROVE  Holdings(v)' = Holdings(v)
      BY <1>2, <2>1, <3>1, <3>3 DEF Holdings
    <3> QED
      BY <1>6, <2>2, <3>2, <3>3 DEF Vacates
  <2>3. CASE tx.old.state # "leased"
    BY <1>2, <1>6, <2>1, <2>3 DEF Holdings, Vacates
  <2> QED
    BY <2>2, <2>3
<1> QED
  BY <1>4, <1>5, <1>6

\* The situation in which the store applies a transaction.
Applying(tx) ==
  /\ IInv /\ PermitsOwned /\ TokensDistinct
  /\ GoodTx(tx) /\ Applied(tx) /\ TxExact(tx)
  /\ \A i \in Novel(tx) : ~NamedByStore(i)

\* Which job is leased under which token afterwards.
LEMMA LeasesAfter ==
  ASSUME NEW tx, Applying(tx), NEW j \in Jobs, NEW t
  PROVE  /\ j = tx.job /\ LeasedAs(j, t)' =>
              IF tx.kind = "claim" THEN t = tx.new.lease.token /\ t \in Novel(tx)
              ELSE LeasedAs(j, t) /\ ~Vacates(tx)
         /\ j # tx.job => (LeasedAs(j, t)' <=> LeasedAs(j, t))
         /\ LeasedAs(j, t) => t # NoId /\ t \in Nat /\ NamedByStore(t)
<1>1. /\ tx.job \in Jobs /\ Identity(tx) /\ Moves(tx.kind, rows[tx.job], rows'[tx.job])
      /\ rows[tx.job].job = tx.old /\ rows'[tx.job].job = tx.new
      /\ \A i \in Jobs \ {tx.job} : rows'[i] = rows[i]
  BY AppliedFacts DEF Outcome, Applying
<1>2. rows[j] \in Row /\ RowOK(rows[j])
  BY DEF Applying, IInv, TypeOK, RowsCoherent
<1>3. LeasedAs(j, t) => t # NoId /\ t \in Nat /\ NamedByStore(t)
  BY <1>2 DEF LeasedAs, RowOK, Row, Record, Lease, NamedByStore, RecordIds
<1>4. ASSUME j = tx.job, LeasedAs(j, t)', tx.kind = "claim"
      PROVE  t = tx.new.lease.token /\ t \in Novel(tx)
  BY <1>1, <1>4 DEF LeasedAs, Identity, Novel, RecordIds
<1>5. ASSUME j = tx.job, LeasedAs(j, t)', tx.kind # "claim"
      PROVE  LeasedAs(j, t) /\ ~Vacates(tx)
  BY <1>1, <1>5 DEF LeasedAs, Moves, Vacates
<1>6. j # tx.job => (LeasedAs(j, t)' <=> LeasedAs(j, t))
  BY <1>1 DEF LeasedAs
<1> QED
  BY <1>3, <1>4, <1>5, <1>6

\* A new lease has a token of its own.
LEMMA TokensAfter ==
  ASSUME NEW tx, Applying(tx)
  PROVE  TokensDistinct'
<1> SUFFICES ASSUME NEW i \in Jobs, NEW j \in Jobs, NEW t \in Nat,
                    LeasedAs(i, t)', LeasedAs(j, t)', i # j
             PROVE  FALSE
  BY DEF TokensDistinct
<1>1. ASSUME NEW a \in Jobs, NEW b \in Jobs, a = tx.job, b # a, LeasedAs(a, t)', LeasedAs(b, t)'
      PROVE  FALSE
  <2>1. LeasedAs(b, t) /\ NamedByStore(t)
    BY <1>1, LeasesAfter
  <2>2. tx.kind # "claim"
    BY <1>1, <2>1, LeasesAfter DEF Applying
  <2>3. LeasedAs(a, t)
    BY <1>1, <2>2, LeasesAfter
  <2> QED
    BY <1>1, <2>1, <2>3 DEF Applying, TokensDistinct
<1>2. CASE i # tx.job /\ j # tx.job
  BY <1>2, LeasesAfter DEF Applying, TokensDistinct
<1> QED
  BY <1>1, <1>2

\* A lease that goes on keeps its permits.
LEMMA HoldingsStay ==
  ASSUME NEW tx, Applying(tx), NEW j \in Jobs, NEW t \in Nat, LeasedAs(j, t), LeasedAs(j, t)',
         t \notin Novel(tx)
  PROVE  Holdings(t)' = Holdings(t)
<1>1. t # NoId
  BY LeasesAfter
<1>2. tx.job \in Jobs /\ rows[tx.job].job = tx.old /\ Identity(tx)
  BY AppliedFacts DEF Applying
<1>3. CASE ~Vacates(tx)
  <2>1. permits' = permits
    BY <1>3, HoldingsAfter DEF Applying
  <2> QED
    BY <2>1 DEF Holdings
<1>4. CASE Vacates(tx)
  <2>1. j # tx.job
    BY <1>4, LeasesAfter
  <2>2. ~(tx.old.state = "leased" /\ t = tx.old.lease.token)
    BY <1>2, <2>1 DEF Applying, TokensDistinct, LeasedAs
  <2>3. ~(tx.kind = "claim" /\ t = tx.new.lease.token)
    BY <1>2 DEF Identity, Novel, RecordIds
  <2> QED
    BY <1>1, <2>2, <2>3, HoldingsAfter DEF Applying
<1> QED
  BY <1>3, <1>4

\* What names the permits of a lease goes on naming them.
LEMMA ExactStays ==
  ASSUME NEW tx, Applying(tx), NEW j \in Jobs, NEW t, NEW keys, t \notin Novel(tx), Exact(j, t, keys)
  PROVE  Exact(j, t, keys)'
<1> SUFFICES ASSUME LeasedAs(j, t)' PROVE Holdings(t)' = keys
  BY DEF Exact
<1>1. LeasedAs(j, t) /\ t \in Nat
  BY LeasesAfter
<1> QED
  BY <1>1, HoldingsStay DEF Exact

\* So does the transaction itself.
LEMMA ExactOwn ==
  ASSUME NEW tx, Applying(tx)
  PROVE  TxExact(tx)'
<1>0. tx.job \in Jobs /\ rows[tx.job].job = tx.old /\ rows'[tx.job].job = tx.new
  BY AppliedFacts DEF Applying
<1>1. CASE tx.kind = "claim"
  <2>1. Holdings(tx.new.lease.token)' = tx.permits.keys
    BY <1>1, HoldingsAfter DEF Applying
  <2> QED
    BY <1>1, <2>1 DEF TxExact, Exact
<1>2. CASE tx.kind # "claim" /\ tx.new.state # "leased"
  <2>1. ~LeasedAs(tx.job, tx.old.lease.token)'
    BY <1>0, <1>2 DEF LeasedAs
  <2> QED
    BY <1>2, <2>1 DEF TxExact, Exact
<1>3. CASE tx.kind # "claim" /\ tx.new.state = "leased"
  BY <1>3 DEF TxExact
<1> QED
  BY <1>1, <1>2, <1>3

\* Permits stay owned.
LEMMA OwnedAfter ==
  ASSUME NEW tx, Applying(tx)
  PROVE  PermitsOwned'
<1>0. /\ tx.job \in Jobs /\ tx \in Tx /\ rows[tx.job].job = tx.old /\ rows'[tx.job].job = tx.new
      /\ Hands(tx, rows[tx.job]) /\ Moves(tx.kind, rows[tx.job], rows'[tx.job])
      /\ \A j \in Jobs \ {tx.job} : rows'[j] = rows[j]
  BY AppliedFacts DEF Applying, Outcome
<1>1. PermitsOwned <=>
        /\ \A k \in PermitKeys : permits[k] # NoId => \E j \in Jobs : LeasedAs(j, permits[k])
        /\ \A j \in Jobs : rows[j].job.state = "leased" =>
             Holdings(rows[j].job.lease.token) \in PermitSets[j]
  BY DEF PermitsOwned, LeasedAs, Holdings
<1>2. permits \in [PermitKeys -> Nat]
  BY DEF Applying, IInv, TypeOK
<1>3. ASSUME NEW k \in PermitKeys, NEW v, v = permits'[k], v # NoId
      PROVE  \E j \in Jobs : LeasedAs(j, v)'
  <2>1. CASE tx.kind = "claim" /\ v = tx.new.lease.token
    <3>1. rows'[tx.job].job.state = "leased"
      BY <1>0, <2>1 DEF Moves
    <3>2. LeasedAs(tx.job, v)'
      BY <1>0, <2>1, <3>1 DEF LeasedAs
    <3> QED
      BY <1>0, <3>2
  <2>2. CASE ~(tx.kind = "claim" /\ v = tx.new.lease.token)
    <3>1. permits[k] = v
      BY <1>0, <1>2, <1>3, <2>2 DEF Applying, Applied, PermitsAfter, PermitsFit, Hands, NoId
    <3>2. PICK j \in Jobs : LeasedAs(j, v)
      BY <1>1, <1>3, <3>1 DEF Applying
    <3>3. LeasedAs(j, v)'
      <4>1. CASE j # tx.job
        BY <3>2, <4>1, LeasesAfter
      <4>2. CASE j = tx.job /\ ~Vacates(tx)
        BY <1>0, <3>2, <4>2 DEF LeasedAs, Moves, Vacates
      <4>3. CASE j = tx.job /\ Vacates(tx)
        <5>1. tx.old.state = "leased" /\ tx.old.lease.token = v
          BY <1>0, <3>2, <4>3 DEF LeasedAs
        <5>2. Holdings(v)' = {}
          BY <4>3, <5>1, HoldingsAfter DEF Applying
        <5>3. k \in Holdings(v)'
          BY <1>3 DEF Holdings
        <5> QED
          BY <5>2, <5>3
      <4> QED
        BY <4>1, <4>2, <4>3
    <3> QED
      BY <3>3
  <2> QED
    BY <2>1, <2>2
<1>4. ASSUME NEW j \in Jobs, rows'[j].job.state = "leased", NEW v, v = rows'[j].job.lease.token
      PROVE  Holdings(v)' \in PermitSets[j]
  <2>1. LeasedAs(j, v)'
    BY <1>4 DEF LeasedAs
  <2>2. CASE j = tx.job /\ tx.kind = "claim"
    <3>1. Holdings(tx.new.lease.token)' = tx.permits.keys /\ tx.permits.keys \in PermitSets[j]
      BY <1>0, <2>2, HoldingsAfter DEF Applying, Hands
    <3>2. v = tx.new.lease.token
      BY <1>0, <1>4, <2>2
    <3> QED
      BY <3>1, <3>2
  <2>3. CASE ~(j = tx.job /\ tx.kind = "claim")
    <3>1. LeasedAs(j, v)
      BY <2>1, <2>3, LeasesAfter
    <3>2. v \in Nat /\ NamedByStore(v)
      BY <3>1, LeasesAfter
    <3>3. Holdings(v)' = Holdings(v)
      BY <2>1, <3>1, <3>2, HoldingsStay DEF Applying
    <3>4. Holdings(v) \in PermitSets[j]
      BY <1>1, <3>1 DEF LeasedAs, Applying
    <3> QED
      BY <3>3, <3>4
  <2> QED
    BY <2>2, <2>3
<1> QED
  BY <1>3, <1>4 DEF PermitsOwned, LeasedAs, Holdings

-----------------------------------------------------------------------------
(* What the processes name                                                 *)

\* Permits and job values are all this looks at.
SamePermits == permits' = permits /\ \A j \in Jobs : rows'[j].job = rows[j].job

\* What a process holds says the same afterwards when the store is left alone.
LEMMA ExactFrame ==
  ASSUME SamePermits, NEW c \in Claim \cup {NoClaim}, NEW k \in Calls, NEW l \in Tx \cup {NoTx}
  PROVE  /\ ClaimExact(c) => ClaimExact(c)'
         /\ CallExact(k) => CallExact(k)'
         /\ LateExact(l) => LateExact(l)'
<1>1. ASSUME NEW j \in Jobs, NEW t, NEW keys, Exact(j, t, keys) PROVE Exact(j, t, keys)'
  BY <1>1 DEF SamePermits, Exact, LeasedAs, Holdings
<1>2. ASSUME NEW d \in Claim \cup {NoClaim}, ClaimExact(d) PROVE ClaimExact(d)'
  <2>1. d.held => d.job \in Jobs
    <3>1. CASE d \in Claim
      BY <3>1 DEF Claim
    <3>2. CASE d = NoClaim
      BY <3>2 DEF NoClaim
    <3> QED
      BY <3>1, <3>2
  <2> QED
    BY <1>1, <1>2, <2>1 DEF ClaimExact
<1>3. ASSUME NEW tx \in Tx, TxExact(tx) PROVE TxExact(tx)'
  BY <1>1, <1>3 DEF TxExact, Tx
<1>4. k.phase = "loading" => k.claim \in Claim
  BY DEF Calls, Idle, CommitPhases
<1>5. k.phase \in CommitPhases => k.tx \in Tx
  BY DEF Calls, Idle, CommitPhases
<1> QED
  BY <1>2, <1>3, <1>4, <1>5 DEF CallExact, LateExact

\* Nor does a transaction concern it whose new identities it does not name.
LEMMA ExactPersists ==
  ASSUME NEW tx, Applying(tx), NEW c \in Claim \cup {NoClaim}, NEW k \in Calls, NEW l \in Tx \cup {NoTx}
  PROVE  /\ ClaimExact(c) /\ (\A i \in Novel(tx) : ~NamedByClaim(c, i)) => ClaimExact(c)'
         /\ CallExact(k) /\ (\A i \in Novel(tx) : ~NamedByCall(k, i)) => CallExact(k)'
         /\ LateExact(l) /\ (\A i \in Novel(tx) : ~NamedByLate(l, i)) => LateExact(l)'
<1>1. ASSUME NEW d \in Claim \cup {NoClaim}, ClaimExact(d),
             d.held => d.rec.lease.token \notin Novel(tx)
      PROVE  ClaimExact(d)'
  <2>1. d.held => d.job \in Jobs
    <3>1. CASE d \in Claim
      BY <3>1 DEF Claim
    <3>2. CASE d = NoClaim
      BY <3>2 DEF NoClaim
    <3> QED
      BY <3>1, <3>2
  <2> QED
    BY <1>1, <2>1, ExactStays DEF ClaimExact
<1>2. ASSUME NEW other \in Tx, TxExact(other),
             \A i \in Novel(tx) : i \notin RecordIds(other.old) \cup RecordIds(other.new)
      PROVE  TxExact(other)'
  <2>1. /\ other.job \in Jobs /\ other.new.lease.token \notin Novel(tx)
        /\ other.old.lease.token \notin Novel(tx)
    BY <1>2 DEF Tx, RecordIds
  <2>2. CASE other.kind = "claim"
    BY <1>2, <2>1, <2>2, ExactStays DEF TxExact
  <2>3. CASE other.kind # "claim"
    BY <1>2, <2>1, <2>3, ExactStays DEF TxExact
  <2> QED
    BY <2>2, <2>3
<1>3. k.phase = "loading" => k.claim \in Claim
  BY DEF Calls, Idle, CommitPhases
<1>4. k.phase \in CommitPhases => k.tx \in Tx /\ k.phase # "loading"
  BY DEF Calls, Idle, CommitPhases
<1>5. ClaimExact(c) /\ (\A i \in Novel(tx) : ~NamedByClaim(c, i)) => ClaimExact(c)'
  BY <1>1 DEF NamedByClaim, RecordIds
<1>6. LateExact(l) /\ (\A i \in Novel(tx) : ~NamedByLate(l, i)) => LateExact(l)'
  BY <1>2 DEF NamedByLate, LateExact
<1>7. ASSUME CallExact(k), \A i \in Novel(tx) : ~NamedByCall(k, i)
      PROVE  CallExact(k)'
  <2>1. CASE k.phase = "loading"
    <3>1. k.claim.rec.lease.token \notin Novel(tx)
      BY <1>7, <2>1 DEF NamedByCall, RecordIds
    <3> QED
      BY <1>1, <1>3, <1>4, <1>7, <2>1, <3>1 DEF CallExact
  <2>2. CASE k.phase \in CommitPhases
    BY <1>2, <1>4, <1>7, <2>2 DEF CallExact, NamedByCall
  <2>3. CASE k.phase # "loading" /\ k.phase \notin CommitPhases
    BY <2>3 DEF CallExact
  <2> QED
    BY <2>1, <2>2, <2>3
<1> QED
  BY <1>5, <1>6, <1>7

\* A step of the protocol applies nothing, or a transaction whose situation is
\* the one above; what the processes held goes on being exact either way.
LEMMA ShapedPersists ==
  ASSUME PInv, NEW p \in Procs, Shaped(p), NEW q \in Procs,
         NEW c, c = claim[q], NEW k, k = call[q], NEW l, l = limbo[q]
  PROVE  ClaimExact(c)' /\ CallExact(k)' /\ LateExact(l)'
<1>0. IInv /\ UInv /\ TypeOK /\ Touches(p) /\ PermitsOwned /\ TokensDistinct
  BY ShapedTouches DEF PInv, UInv, IInv
<1>1. c \in Claim \cup {NoClaim} /\ k \in Calls /\ l \in Tx \cup {NoTx}
  BY <1>0 DEF TypeOK
<1>2. ClaimExact(c) /\ CallExact(k) /\ LateExact(l)
  BY DEF PInv, PermitsTracked
<1>3. CASE SameStore
  BY <1>1, <1>2, <1>3, ExactFrame DEF SamePermits, SameStore
<1>4. CASE InFlight(call[p]) /\ Applied(call[p].tx)
  <2> DEFINE tx == call[p].tx
  <2>1. GoodTx(tx) /\ \A i \in Novel(tx) : Sole(p, i) /\ ~NamedByLate(limbo[p], i)
    BY <1>0, <1>4, SlotsGood, Foreign
  <2>2. TxExact(tx)
    BY <1>4 DEF PInv, PermitsTracked, CallExact, InFlight
  <2>3. Applying(tx)
    BY <1>0, <1>4, <2>1, <2>2 DEF Applying, Sole
  <2>4. \A i \in Novel(tx) : ~NamedByClaim(c, i) /\ ~NamedByLate(l, i) /\ (q # p => ~NamedByCall(k, i))
    BY <2>1 DEF Sole
  <2>5. q = p => CallExact(k)'
    <3>1. ASSUME q = p, NEW own, own = tx PROVE CallExact(k)'
      <4>1. TxExact(own)'
        BY <2>3, <3>1, ExactOwn
      <4>2. k.tx = own /\ k.phase # "loading"
        BY <1>4, <3>1 DEF InFlight, CommitPhases
      <4> QED
        BY <4>1, <4>2 DEF CallExact
    <3> QED
      BY <3>1
  <2> QED
    BY <1>1, <1>2, <2>3, <2>4, <2>5, ExactPersists
<1>5. CASE limbo[p] # NoTx /\ Applied(limbo[p])
  <2> DEFINE tx == limbo[p]
  <2>1. GoodTx(tx) /\ \A i \in Novel(tx) : Sole(p, i) /\ ~NamedByCall(call[p], i)
    BY <1>0, <1>5, SlotsGood, Foreign
  <2>2. TxExact(tx)
    BY <1>5 DEF PInv, PermitsTracked, LateExact
  <2>3. Applying(tx)
    BY <1>0, <1>5, <2>1, <2>2 DEF Applying, Sole
  <2>4. \A i \in Novel(tx) : ~NamedByClaim(c, i) /\ ~NamedByCall(k, i) /\ (q # p => ~NamedByLate(l, i))
    BY <2>1 DEF Sole
  <2>5. q = p => LateExact(l)'
    <3>1. ASSUME q = p, NEW own, own = tx PROVE LateExact(l)'
      <4>1. TxExact(own)'
        BY <2>3, <3>1, ExactOwn
      <4> QED
        BY <3>1, <4>1 DEF LateExact
    <3> QED
      BY <3>1
  <2> QED
    BY <1>1, <1>2, <2>3, <2>4, <2>5, ExactPersists
<1> QED
  BY <1>0, <1>3, <1>4, <1>5 DEF Touches

\* The permits and tokens themselves.
LEMMA ShapedOwned ==
  ASSUME PInv, NEW p \in Procs, Shaped(p)
  PROVE  PermitsOwned' /\ TokensDistinct'
<1>0. IInv /\ UInv /\ Touches(p) /\ PermitsOwned /\ TokensDistinct
  BY ShapedTouches DEF PInv, UInv, IInv
<1>1. CASE SameStore
  BY <1>0, <1>1 DEF SameStore, PermitsOwned, TokensDistinct, LeasedAs
<1>2. CASE InFlight(call[p]) /\ Applied(call[p].tx)
  <2>1. GoodTx(call[p].tx) /\ \A i \in Novel(call[p].tx) : Sole(p, i)
    BY <1>0, <1>2, SlotsGood, Foreign
  <2>2. Applying(call[p].tx)
    BY <1>0, <1>2, <2>1 DEF Applying, Sole, PInv, PermitsTracked, CallExact, InFlight
  <2> QED
    BY <2>2, OwnedAfter, TokensAfter
<1>3. CASE limbo[p] # NoTx /\ Applied(limbo[p])
  <2>1. GoodTx(limbo[p]) /\ \A i \in Novel(limbo[p]) : Sole(p, i)
    BY <1>0, <1>3, SlotsGood, Foreign
  <2>2. Applying(limbo[p])
    BY <1>0, <1>3, <2>1 DEF Applying, Sole, PInv, PermitsTracked, LateExact
  <2> QED
    BY <2>2, OwnedAfter, TokensAfter
<1> QED
  BY <1>0, <1>1, <1>2, <1>3 DEF Touches

\* The process whose step it is passes on what it held.
LEMMA ShapedInherits ==
  ASSUME PInv, IInv', NEW p \in Procs, Shaped(p),
         NEW c, c = claim[p], NEW k, k = call[p], NEW l, l = limbo[p],
         ClaimExact(c)', CallExact(k)', LateExact(l)'
  PROVE  ClaimExact(claim[p])' /\ CallExact(call[p])' /\ LateExact(limbo[p])'
<1>0. ASSUME NEW d, NEW m, NEW n, claim'[p] = d, call'[p] = m, limbo'[p] = n,
             ClaimExact(d)', CallExact(m)', LateExact(n)'
      PROVE  ClaimExact(claim[p])' /\ CallExact(call[p])' /\ LateExact(limbo[p])'
  BY <1>0
<1>1. ClaimExact(NoClaim)' /\ CallExact(Idle)' /\ LateExact(NoTx)'
  BY DEF ClaimExact, NoClaim, CallExact, Idle, CommitPhases, LateExact
<1>2. InFlight(k) => LateExact(k.tx)'
  BY DEF InFlight, CallExact, LateExact
<1>3. claim[p].held => ClaimExact([c EXCEPT !.lost = TRUE])'
  <2>1. ASSUME claim[p].held PROVE ClaimExact([c EXCEPT !.lost = TRUE])'
    <3>1. c \in Claim
      BY <2>1, HeldClaim DEF PInv, UInv, IInv
    <3>2. /\ [c EXCEPT !.lost = TRUE].job = c.job /\ [c EXCEPT !.lost = TRUE].rec = c.rec
          /\ [c EXCEPT !.lost = TRUE].keys = c.keys /\ c.held
      BY <3>1 DEF Claim
    <3> QED
      BY <3>2 DEF ClaimExact
  <2> QED
    BY <2>1
<1>4. CASE Loads(p)
  <2>1. PICK m : m = call'[p] /\ m.phase = "claiming"
    BY <1>4 DEF Loads, Claiming
  <2>2. CallExact(m)'
    BY <2>1 DEF CallExact, CommitPhases
  <2> QED
    BY <1>0, <1>4, <2>1, <2>2 DEF Loads
<1>5. CASE Opens(p)
  <2>1. ClaimExact(k.claim)' /\ CallExact(Corrupt(k.claim.job))'
    BY <1>5 DEF Opens, CallExact, Corrupt, CommitPhases
  <2> QED
    BY <1>0, <1>1, <1>5, <2>1 DEF Opens
<1>6. CASE Drops(p)
  BY <1>0, <1>1, <1>3, <1>6 DEF Drops
<1>7. CASE Keeps(p)
  <2>1. PICK m : m = call'[p] /\ m.phase \in CommitPhases /\ Like(m.tx, k.tx)
    BY <1>7 DEF Keeps
  <2>2. TxExact(k.tx)'
    BY <1>7 DEF Keeps, CallExact
  <2>3. TxExact(m.tx)'
    BY <2>1, <2>2 DEF TxExact, Like
  <2>4. CallExact(m)'
    BY <2>1, <2>3 DEF CallExact, CommitPhases
  <2> QED
    BY <1>0, <1>7, <2>1, <2>4 DEF Keeps
<1>8. CASE Lands(p)
  <2>1. PICK m : m = call'[p] /\ m.phase \in CommitPhases /\ m.tx = k.tx
    BY <1>8 DEF Lands
  <2>2. TxExact(k.tx)'
    BY <1>8 DEF Lands, CallExact, InFlight
  <2>3. CallExact(m)'
    BY <2>1, <2>2 DEF CallExact, CommitPhases
  <2> QED
    BY <1>0, <1>8, <2>1, <2>3 DEF Lands
<1>9. CASE LandsLate(p)
  BY <1>0, <1>1, <1>9 DEF LandsLate
<1>10. CASE Answers(p)
  <2> DEFINE tx == k.tx
  <2>0. k.phase \in CommitPhases /\ TxExact(tx)' /\ GoodTx(tx) /\ Own(p)
    BY <1>10 DEF Answers, CallExact, PInv, PermitsTracked, UInv, IInv, PendingOK
  <2>1. PICK d : d = claim'[p] /\ d = Keeping(p, TRUE)
    BY <1>10 DEF Answers
  <2>2. ClaimExact(d)'
    <3>1. CASE tx.kind = "settle"
      BY <1>1, <2>0, <2>1, <3>1 DEF Keeping
    <3>2. CASE tx.kind = "renew"
      <4>1. c \in Claim /\ tx.job = c.job /\ tx.old = c.rec
        BY <2>0, <3>2, HeldClaim DEF Own, PInv, UInv, IInv
      <4>2. d = [c EXCEPT !.rec = tx.new, !.op = tx.op.new]
        BY <2>0, <2>1, <3>2 DEF Keeping
      <4>3. d.job = c.job /\ d.rec = tx.new /\ d.keys = c.keys /\ c.held /\ c.job \in Jobs
        BY <4>1, <4>2 DEF Claim
      <4>4. tx.new.lease.token \in {NoId, c.rec.lease.token}
        BY <2>0, <3>2, <4>1 DEF GoodTx, Identity
      <4>5. ~LeasedAs(c.job, NoId)'
        BY <4>3 DEF LeasedAs, IInv, RowsCoherent, RowOK
      <4> QED
        BY <4>3, <4>4, <4>5 DEF ClaimExact, Exact
    <3>3. CASE tx.kind \notin {"settle", "renew"}
      BY <2>0, <2>1, <3>3 DEF Keeping
    <3> QED
      BY <3>1, <3>2, <3>3
  <2>3. PICK m : m = call'[p] /\ m = IF Granted(p) THEN Loading(ClaimOf(tx)) ELSE Idle
    BY <1>10 DEF Answers
  <2>4. CallExact(m)'
    <3>1. CASE Granted(p)
      <4>1. tx.kind = "claim"
        BY <3>1 DEF Granted
      <4>2. PICK o : /\ o = ClaimOf(tx) /\ m.phase = "loading" /\ m.claim = o
                     /\ o.job = tx.job /\ o.rec = tx.new /\ o.keys = tx.permits.keys
        BY <2>3, <3>1 DEF Loading, ClaimOf
      <4>3. Exact(tx.job, tx.new.lease.token, tx.permits.keys)'
        BY <2>0, <4>1 DEF TxExact
      <4>4. ClaimExact(o)'
        BY <4>2, <4>3 DEF ClaimExact
      <4> QED
        BY <4>2, <4>4 DEF CallExact, CommitPhases
    <3>2. CASE ~Granted(p)
      BY <1>1, <2>3, <3>2
    <3> QED
      BY <3>1, <3>2
  <2>5. limbo'[p] = l \/ (InFlight(k) /\ limbo'[p] = k.tx)
    BY <1>10 DEF Answers
  <2> QED
    BY <1>0, <1>2, <2>1, <2>2, <2>3, <2>4, <2>5
<1>11. CASE Fails(p) \/ Stops(p)
  <2>1. PICK d : d = claim'[p] /\ (d = Keeping(p, FALSE) \/ d = NoClaim)
    BY <1>11 DEF Fails, Stops
  <2>2. d = c \/ d = NoClaim \/ (claim[p].held /\ d = [c EXCEPT !.lost = TRUE])
    BY <2>1 DEF Keeping, PInv, UInv, IInv, PendingOK
  <2>3. limbo'[p] = l \/ (InFlight(k) /\ limbo'[p] = k.tx)
    BY <1>11 DEF Fails, Stops
  <2>4. call'[p] = Idle
    BY <1>11 DEF Fails, Stops
  <2> QED
    BY <1>0, <1>1, <1>2, <1>3, <2>1, <2>2, <2>3, <2>4
<1> QED
  BY <1>4, <1>5, <1>6, <1>7, <1>8, <1>9, <1>10, <1>11 DEF Shaped

\* A process keeps the claim its transaction was made from.
LEMMA ShapedOwn ==
  ASSUME PInv, NEW p \in Procs, Shaped(p), NEW q \in Procs
  PROVE  Own(q)'
<1>0. Own(q) /\ Only(p)
  BY DEF PInv, PermitsTracked, Shaped
<1>1. CASE q # p
  BY <1>0, <1>1 DEF Own, Only
<1>2. CASE q = p
  <2>1. CASE call'[p].phase \notin CommitPhases
    BY <1>2, <2>1 DEF Own
  <2>2. CASE call'[p].phase \in CommitPhases
    <3>1. ~Loads(p) /\ ~Opens(p) /\ ~Drops(p) /\ ~Answers(p) /\ ~Fails(p) /\ ~Stops(p)
      <4>1. Idle.phase \notin CommitPhases
        BY DEF Idle, CommitPhases
      <4>2. \A a, b, c, d : Claiming(a, b, c, d).phase \notin CommitPhases
        BY DEF Claiming, CommitPhases
      <4>3. \A a : Loading(a).phase \notin CommitPhases /\ Corrupt(a).phase \notin CommitPhases
        BY DEF Loading, Corrupt, CommitPhases
      <4>4. ~Loads(p)
        BY <2>2, <4>2 DEF Loads
      <4>5. ~Opens(p) /\ ~Drops(p)
        BY <2>2, <4>1, <4>3 DEF Opens, Drops
      <4>6. ~Answers(p) /\ ~Fails(p) /\ ~Stops(p)
        BY <2>2, <4>1, <4>3 DEF Answers, Fails, Stops
      <4> QED
        BY <4>4, <4>5, <4>6
    <3>2. Keeps(p) \/ Lands(p) \/ LandsLate(p)
      BY <3>1 DEF Shaped
    <3>3. claim'[p] = claim[p] /\ call[p].phase \in CommitPhases /\ Like(call'[p].tx, call[p].tx)
      BY <2>2, <3>2 DEF Keeps, Lands, LandsLate, Like, InFlight
    <3> QED
      BY <1>0, <1>2, <3>3 DEF Own, Like
  <2> QED
    BY <2>1, <2>2
<1> QED
  BY <1>1, <1>2

\* A transaction that is built names the permits of the lease it ends.
LEMMA BuiltExact ==
  ASSUME PInv, NEW p \in Procs, NEW tx, Built(p, tx)
  PROVE  TxExact(tx)
<1>0. IInv /\ TypeOK /\ tx \in Tx /\ tx.job \in Jobs /\ Identity(tx) /\ RowOK(rows[tx.job])
  BY DEF PInv, UInv, IInv, Built, GoodTx, Tx, RowsCoherent
<1>1. CASE FromCandidate(p, tx)
  <2>1. tx.new.lease.token \in FreshIds /\ tx.kind = "claim"
    BY <1>0, <1>1 DEF FromCandidate, Identity, Built, Novel, RecordIds
  <2>2. ~LeasedAs(tx.job, tx.new.lease.token)
    BY <1>0, <2>1, FreshUnnamed DEF LeasedAs, NamedByStore, RecordIds
  <2> QED
    BY <2>1, <2>2 DEF TxExact, Exact
<1>2. CASE FromClaim(p, tx)
  BY <1>2 DEF FromClaim, TxExact, PInv, PermitsTracked, ClaimExact
<1>3. CASE FromRow(p, tx)
  <2> SUFFICES ASSUME tx.old.state = "leased", tx.new.state # "leased"
               PROVE  Holdings(tx.old.lease.token) = tx.permits.keys
    BY <1>3 DEF FromRow, TxExact, Exact
  <2>1. tx.permits.keys = OwnedKeys(tx.job) /\ rows[tx.job].job = tx.old
    BY <1>3 DEF FromRow
  <2>2. Holdings(tx.old.lease.token) \in PermitSets[tx.job]
    BY <1>0, <2>1 DEF PInv, PermitsOwned, Holdings
  <2>3. UNION PermitSets[tx.job] \subseteq PermitKeys
    BY <1>0 DEF PermitKeys
  <2> QED
    BY <2>1, <2>2, <2>3 DEF OwnedKeys, Holdings
<1> QED
  BY <1>1, <1>2, <1>3 DEF Built

\* A step that builds a transaction.
LEMMA BuiltTracks ==
  ASSUME PInv, NEW p \in Procs, NEW tx, Built(p, tx), Begins(p, tx)
  PROVE  PermitsOwned' /\ TokensDistinct' /\ PermitsTracked'
<1>0. /\ IInv /\ TypeOK /\ Only(p) /\ SameStore /\ call'[p] = Committing(tx)
      /\ claim'[p] = claim[p] /\ limbo'[p] = limbo[p] /\ TxExact(tx)
  BY BuiltExact DEF PInv, UInv, IInv, Begins
<1>1. PermitsOwned' /\ TokensDistinct'
  BY <1>0 DEF PInv, SameStore, PermitsOwned, TokensDistinct, LeasedAs
<1>2. ASSUME NEW q \in Procs PROVE Own(q)'
  <2>1. CASE q # p
    BY <1>0, <2>1 DEF PInv, PermitsTracked, Own, Only
  <2>2. CASE q = p
    <3>1. Committing(tx).tx = tx /\ Committing(tx).phase \in CommitPhases
      BY DEF Committing, CommitPhases
    <3>2. FromClaim(p, tx) \/ tx.kind \notin {"renew", "settle", "request"}
      BY DEF Built, FromRow, FromCandidate
    <3> QED
      BY <1>0, <2>2, <3>1, <3>2 DEF Own, FromClaim, CurrentLease
  <2> QED
    BY <2>1, <2>2
<1>3. ASSUME NEW q \in Procs
      PROVE  ClaimExact(claim[q])' /\ LateExact(limbo[q])' /\ CallExact(call[q])'
  <2>1. /\ claim[q] \in Claim \cup {NoClaim} /\ call[q] \in Calls /\ limbo[q] \in Tx \cup {NoTx}
        /\ claim'[q] = claim[q] /\ limbo'[q] = limbo[q]
        /\ ClaimExact(claim[q]) /\ CallExact(call[q]) /\ LateExact(limbo[q])
    BY <1>0 DEF TypeOK, Only, PInv, PermitsTracked
  <2>2. ASSUME NEW c, NEW k, NEW l, c = claim[q], k = call[q], l = limbo[q]
        PROVE  ClaimExact(c)' /\ CallExact(k)' /\ LateExact(l)'
    BY <1>0, <2>1, <2>2, ExactFrame DEF SamePermits, SameStore
  <2>3. ASSUME NEW c, claim'[q] = c, ClaimExact(c)' PROVE ClaimExact(claim[q])'
    BY <2>3
  <2>4. ASSUME NEW l, limbo'[q] = l, LateExact(l)' PROVE LateExact(limbo[q])'
    BY <2>4
  <2>5. ASSUME NEW k, call'[q] = k, CallExact(k)' PROVE CallExact(call[q])'
    BY <2>5
  <2>6. CASE q # p
    BY <1>0, <2>1, <2>2, <2>3, <2>4, <2>5, <2>6 DEF Only
  <2>7. CASE q = p
    <3>1. CallExact(Committing(tx))'
      <4>1. TxExact(tx)'
        BY <1>0 DEF SameStore, TxExact, Exact, LeasedAs, Holdings
      <4> QED
        BY <4>1 DEF CallExact, Committing, CommitPhases
    <3> QED
      BY <1>0, <2>1, <2>2, <2>3, <2>4, <2>5, <2>7, <3>1
  <2> QED
    BY <2>6, <2>7
<1> QED
  BY <1>1, <1>2, <1>3 DEF PermitsTracked

\* Damage to a payload and the passage of time concern no permit.
LEMMA QuietTracks ==
  ASSUME PInv, (\E j \in Jobs : Damages(j)) \/ Waits
  PROVE  PermitsOwned' /\ TokensDistinct' /\ PermitsTracked'
<1>1. /\ call' = call /\ claim' = claim /\ limbo' = limbo /\ SamePermits
  BY DEF PInv, UInv, IInv, TypeOK, Row, Damages, Waits, SameStore, SamePermits
<1>2. PermitsOwned' /\ TokensDistinct'
  BY <1>1 DEF PInv, SamePermits, PermitsOwned, TokensDistinct, LeasedAs
<1>3. ASSUME NEW q \in Procs
      PROVE  Own(q)' /\ ClaimExact(claim[q])' /\ CallExact(call[q])' /\ LateExact(limbo[q])'
  <2>1. /\ claim[q] \in Claim \cup {NoClaim} /\ call[q] \in Calls /\ limbo[q] \in Tx \cup {NoTx}
        /\ Own(q) /\ ClaimExact(claim[q]) /\ CallExact(call[q]) /\ LateExact(limbo[q])
    BY DEF PInv, UInv, IInv, TypeOK, PermitsTracked
  <2>2. ASSUME NEW c, NEW k, NEW l, c = claim[q], k = call[q], l = limbo[q]
        PROVE  ClaimExact(c)' /\ CallExact(k)' /\ LateExact(l)'
    BY <1>1, <2>1, <2>2, ExactFrame
  <2>3. ASSUME NEW c, NEW k, NEW l, claim'[q] = c, call'[q] = k, limbo'[q] = l,
               ClaimExact(c)', CallExact(k)', LateExact(l)'
        PROVE  ClaimExact(claim[q])' /\ CallExact(call[q])' /\ LateExact(limbo[q])'
    BY <2>3
  <2>4. Own(q)'
    BY <1>1, <2>1 DEF Own
  <2> QED
    BY <1>1, <2>2, <2>3, <2>4
<1> QED
  BY <1>2, <1>3 DEF PermitsTracked

-----------------------------------------------------------------------------
(* The invariant                                                           *)

\* At first nobody holds anything.
LEMMA PermitsInitial == Init => PInv
<1> SUFFICES ASSUME Init PROVE PInv
  OBVIOUS
<1>1. UInv
  BY UniqueInitial
<1>2. /\ \A j \in Jobs : rows[j].job.state = "absent"
      /\ \A k \in PermitKeys : permits[k] = NoId
      /\ \A p \in Procs : claim[p] = NoClaim /\ call[p] = Idle /\ limbo[p] = NoTx
  BY DEF Init, EmptyRow, NoJob
<1>3. PermitsOwned /\ TokensDistinct
  BY <1>2 DEF PermitsOwned, TokensDistinct, LeasedAs
<1>4. PermitsTracked
  BY <1>2 DEF PermitsTracked, Own, ClaimExact, NoClaim, CallExact, Idle, CommitPhases, LateExact
<1> QED
  BY <1>1, <1>3, <1>4 DEF PInv

\* Every step keeps it.
LEMMA PermitsInductive == PInv /\ [Next]_vars => PInv'
<1> SUFFICES ASSUME PInv, [Next]_vars PROVE PInv'
  OBVIOUS
<1>1. UInv' /\ IInv' /\ IInv
  BY UniqueInductive DEF PInv, UInv
<1>2. ASSUME NEW p \in Procs, Shaped(p)
      PROVE  PermitsOwned' /\ TokensDistinct' /\ PermitsTracked'
  <2>1. ASSUME NEW q \in Procs
        PROVE  ClaimExact(claim[q])' /\ CallExact(call[q])' /\ LateExact(limbo[q])'
    <3>1. PICK c, k, l : c = claim[q] /\ k = call[q] /\ l = limbo[q]
      OBVIOUS
    <3>2. ClaimExact(c)' /\ CallExact(k)' /\ LateExact(l)'
      BY <1>2, <3>1, ShapedPersists
    <3>3. CASE q = p
      BY <1>1, <1>2, <3>1, <3>2, <3>3, ShapedInherits
    <3>4. CASE q # p
      <4>1. claim'[q] = c /\ call'[q] = k /\ limbo'[q] = l
        BY <1>2, <3>1, <3>4 DEF Shaped, Only
      <4> QED
        BY <3>2, <4>1
    <3> QED
      BY <3>3, <3>4
  <2> QED
    BY <1>2, <2>1, ShapedOwned, ShapedOwn DEF PermitsTracked
<1>3. PermitsOwned' /\ TokensDistinct' /\ PermitsTracked'
  BY <1>1, <1>2, Shapes, BuiltTracks, QuietTracks
<1> QED
  BY <1>1, <1>3 DEF PInv

\* Permits are neither leaked nor shared, whatever is lost, left behind or
\* applied late: a held permit names a lease that stands, and a leased job holds
\* one complete permit set (PermitsOwned).
THEOREM PermitsNeverLeak == Spec => []PermitsOwned
<1>1. PInv => PermitsOwned
  BY DEF PInv
<1> QED
  BY <1>1, PermitsInitial, PermitsInductive, PTL DEF Spec

=============================================================================
