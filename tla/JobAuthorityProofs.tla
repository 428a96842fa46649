------------------------- MODULE JobAuthorityProofs -------------------------
(***************************************************************************)
(* A worker that believes in its authority has it.  Between a claim and    *)
(* its settlement anything may happen to the job: the proof shows that     *)
(* nothing does before the lease has run out, unless the worker does it    *)
(* itself or has been told that it failed.  Three things are at work: a    *)
(* claim and a recovery end a lease only after its time (Ends), one        *)
(* process alone names a lease token (OneOwner), and a renewal or a        *)
(* settlement left behind leaves no believer in its token (LateLost).      *)
(*                                                                         *)
(* The quarantine of a damaged payload is outside this argument: it finds  *)
(* its job by identity and ends whichever lease it meets.  So the theorem  *)
(* is about stores that do not damage payloads and identities that are     *)
(* not used again.                                                         *)
(***************************************************************************)
EXTENDS JobContractProofs, JobPermitProofs

\* Who names a lease token: the holder of the claim, or the process claiming.
Owns(p, t) ==
  /\ t # NoId
  /\ \/ claim[p].held /\ claim[p].rec.lease.token = t
     \/ call[p].phase = "loading" /\ call[p].claim.rec.lease.token = t
     \/ /\ call[p].phase \in CommitPhases /\ call[p].tx.kind = "claim"
        /\ call[p].tx.new.lease.token = t

OneOwner == \A p, q \in Procs, t \in Nat : Owns(p, t) /\ Owns(q, t) => p = q

\* A process that is claiming holds no claim.
Claims(c) ==
  c.phase \in {"claiming", "loading"} \/ (c.phase \in CommitPhases /\ c.tx.kind = "claim")
NotBoth == \A p \in Procs : Claims(call[p]) => ~claim[p].held

Committed(c) == c.phase \in CommitPhases /\ c.est = "committed"

\* Process p holds, or is about to be given, authority over job j under record
\* r and operation o.
Believes(p, j, r, o) ==
  \/ /\ claim[p].held /\ ~claim[p].lost
     /\ ~(Committed(call[p]) /\ call[p].tx.kind \in {"renew", "settle"})
     /\ j = claim[p].job /\ r = claim[p].rec /\ o = claim[p].op
  \/ /\ call[p].phase = "loading"
     /\ j = call[p].claim.job /\ r = call[p].claim.rec /\ o = call[p].claim.op
  \/ /\ Committed(call[p]) /\ call[p].tx.kind \in {"claim", "renew"}
     /\ j = call[p].tx.job /\ r = call[p].tx.new /\ o = call[p].tx.op.new

\* The lease stands as it is believed to, or it is over and its time as well.
Firm(j, r, o) ==
  r.state = "leased" =>
    \/ rows[j].job = r /\ rows[j].op = o
    \/ ~LeasedAs(j, r.lease.token) /\ r.lease.until <= now

\* Whoever does not hold the claim ends a lease only after its time.
Ends(tx) ==
  /\ tx.kind \in {"claim", "admin", "enqueue", "seed"}
  /\ tx.old.state = "leased" /\ tx.new # tx.old
  => tx.old.lease.until <= now

\* A holder's transaction is left behind only by one who stopped believing.
LateLost(tx) ==
  tx.kind \in {"renew", "settle"} =>
    \A q \in Procs : Owns(q, tx.old.lease.token) => claim[q].held /\ claim[q].lost

\* What one process has to do with it.
Authorised(p) ==
  /\ call[p].phase = "claiming" => call[p].at <= now
  /\ call[p].phase \in CommitPhases => Ends(call[p].tx)
  /\ limbo[p] # NoTx => Ends(limbo[p]) /\ LateLost(limbo[p])
  /\ \A j, r, o : Believes(p, j, r, o) => Firm(j, r, o)

\* A job has its payload.
PayloadKept == \A j \in Jobs : rows[j].job # NoJob => rows[j].payload

AInv ==
  /\ PInv /\ MInv /\ PayloadKept
  /\ OneOwner /\ NotBoth /\ \A p \in Procs : Authorised(p)

-----------------------------------------------------------------------------
(* Payloads                                                                *)

\* Only damage separates a job from its payload.
LEMMA PayloadStays ==
  ASSUME "corrupt" \notin Ops, IInv, PayloadKept, [Next]_vars
  PROVE  PayloadKept'
<1>1. SameStore => PayloadKept'
  BY DEF SameStore, PayloadKept
<1>2. ASSUME NEW tx, GoodTx(tx), Applied(tx)
      PROVE  PayloadKept'
  <2>1. /\ tx.job \in Jobs /\ Moves(tx.kind, rows[tx.job], rows'[tx.job])
        /\ RowOK(rows[tx.job]) /\ RowOK(rows'[tx.job])
        /\ \A j \in Jobs \ {tx.job} : rows'[j] = rows[j]
    BY <1>2, AppliedFacts DEF Outcome
  <2>2. ASSUME rows'[tx.job].job # NoJob PROVE rows'[tx.job].payload
    <3>1. rows'[tx.job].job.state # "absent"
      BY <2>1, <2>2 DEF RowOK
    <3>2. CASE rows[tx.job].job # NoJob
      BY <2>1, <3>1, <3>2 DEF PayloadKept, Moves
    <3>3. CASE rows[tx.job].job = NoJob
      <4>1. rows[tx.job].job.state = "absent"
        BY <3>3 DEF NoJob
      <4> QED
        BY <2>1, <3>1, <4>1 DEF Moves
    <3> QED
      BY <3>2, <3>3
  <2> QED
    BY <2>1, <2>2 DEF PayloadKept
<1>3. ASSUME NEW p \in Procs, Shaped(p) PROVE PayloadKept'
  BY <1>1, <1>2, <1>3, ShapedTouches, SlotsGood DEF Touches
<1>4. Waits \/ (\E p \in Procs : \E tx : Begins(p, tx)) => SameStore
  BY DEF Waits, Begins
<1>5. \A j \in Jobs : ~Damages(j)
  BY DEF Damages
<1> QED
  BY <1>1, <1>3, <1>4, <1>5, Shapes

\* So nothing that is leased is quarantined.
LEMMA NoQuarantine ==
  ASSUME IInv, PayloadKept, NEW tx, GoodTx(tx), Applied(tx), TxMarked(tx), tx.old.state = "leased"
  PROVE  tx.kind # "quarantine"
<1>1. tx.job \in Jobs /\ rows[tx.job].job = tx.old
  BY AppliedFacts
<1>2. rows[tx.job].payload
  BY <1>1 DEF PayloadKept, NoJob
<1> QED
  BY <1>2 DEF TxMarked, Damaged

-----------------------------------------------------------------------------
(* Applying a transaction                                                  *)

\* Leases that are over stay over; one that stands is ended by its holder, or
\* after its time.
LEMMA FirmStays ==
  ASSUME NEW tx, Applying(tx), Ends(tx), PayloadKept, TxMarked(tx), now' = now,
         NEW j \in Jobs, NEW r, NEW o, Firm(j, r, o), r.lease.token \notin Novel(tx),
         /\ tx.kind \in {"renew", "settle"} /\ r.lease.token # NoId
         => tx.old.lease.token # r.lease.token
  PROVE  Firm(j, r, o)'
<1> SUFFICES ASSUME r.state = "leased" PROVE Firm(j, r, o)'
  BY DEF Firm
<1> DEFINE t == r.lease.token
<1>0. /\ IInv /\ GoodTx(tx) /\ tx.job \in Jobs /\ tx \in Tx /\ Identity(tx)
      /\ rows[tx.job].job = tx.old /\ rows'[tx.job].job = tx.new
      /\ Moves(tx.kind, rows[tx.job], rows'[tx.job])
      /\ \A i \in Jobs \ {tx.job} : rows'[i] = rows[i]
  BY AppliedFacts DEF Applying, Outcome
<1>1. CASE ~LeasedAs(j, t) /\ r.lease.until <= now
  <2>1. ~LeasedAs(j, t)'
    BY <1>1, LeasesAfter
  <2> QED
    BY <1>1, <2>1 DEF Firm
<1>2. CASE rows[j].job = r /\ rows[j].op = o /\ j # tx.job
  BY <1>0, <1>2 DEF Firm
<1>3. CASE rows[j].job = r /\ rows[j].op = o /\ j = tx.job
  <2>0. t # NoId
    BY <1>0, <1>3 DEF IInv, RowsCoherent, RowOK
  <2>1. tx.old = r /\ tx.kind # "quarantine" /\ tx.kind \notin {"renew", "settle"}
    BY <1>0, <1>3, <2>0, NoQuarantine DEF Applying
  <2>2. CASE tx.new = tx.old /\ tx.kind # "claim"
    <3>1. rows'[j].job = rows[j].job /\ rows'[j].op = rows[j].op
      BY <1>0, <1>3, <2>1, <2>2 DEF Moves
    <3> QED
      BY <1>3, <3>1 DEF Firm
  <2>3. CASE tx.new # tx.old \/ tx.kind = "claim"
    <3>1. tx.kind \in {"claim", "admin", "enqueue", "seed"} /\ tx.new # tx.old
      BY <1>0, <2>1, <2>3 DEF Tx, TxKinds, Identity, RecordIds
    <3>2. r.lease.until <= now
      BY <2>1, <3>1 DEF Ends
    <3>3. ~LeasedAs(j, t)'
      BY <1>0, <1>3, <2>1, <3>1 DEF LeasedAs, Moves, Identity, RecordIds
    <3> QED
      BY <3>2, <3>3 DEF Firm
  <2> QED
    BY <2>2, <2>3
<1> QED
  BY <1>1, <1>2, <1>3 DEF Firm

\* What was written stands.
LEMMA FirmWritten ==
  ASSUME IInv, NEW tx, GoodTx(tx), Applied(tx)
  PROVE  Firm(tx.job, tx.new, tx.op.new)'
<1>1. rows'[tx.job] = RowAfter(rows[tx.job], tx)
  BY AppliedFacts
<1>2. rows'[tx.job].job = tx.new /\ rows'[tx.job].op = tx.op.new
  BY <1>1 DEF RowAfter
<1> QED
  BY <1>2 DEF Firm

-----------------------------------------------------------------------------
(* Beliefs                                                                 *)

\* A believer owns the token and has not been told of a failure.
LEMMA BelieverOwns ==
  ASSUME AInv, NEW q \in Procs, NEW j, NEW r, NEW o, Believes(q, j, r, o)
  PROVE  /\ j \in Jobs /\ r.lease.token \in Nat
         /\ r.lease.token # NoId => Owns(q, r.lease.token)
         /\ ~(claim[q].held /\ claim[q].lost)
         /\ NamedByClaim(claim[q], r.lease.token) \/ NamedByCall(call[q], r.lease.token)
<1>0. TypeOK /\ IInv /\ NotBoth /\ Own(q)
  BY DEF AInv, PInv, UInv, IInv, PermitsTracked
<1>1. CASE /\ claim[q].held /\ ~claim[q].lost
           /\ j = claim[q].job /\ r = claim[q].rec /\ o = claim[q].op
  <2>1. claim[q] \in Claim
    BY <1>0, <1>1, HeldClaim
  <2>2. j \in Jobs /\ r \in Record
    BY <1>1, <2>1 DEF Claim
  <2> QED
    BY <1>1, <2>2 DEF Owns, NamedByClaim, RecordIds, Record, Lease
<1>2. CASE /\ call[q].phase = "loading"
           /\ j = call[q].claim.job /\ r = call[q].claim.rec
  <2>1. call[q].claim \in Claim /\ ~claim[q].held
    BY <1>0, <1>2, CallFields DEF NotBoth, Claims
  <2>2. j \in Jobs /\ r \in Record
    BY <1>2, <2>1 DEF Claim
  <2> QED
    BY <1>2, <2>1, <2>2 DEF Owns, NamedByCall, RecordIds, Record, Lease
<1>3. CASE /\ call[q].phase \in CommitPhases /\ call[q].tx.kind \in {"claim", "renew"}
           /\ j = call[q].tx.job /\ r = call[q].tx.new
  <2>1. GoodTx(call[q].tx) /\ call[q].tx \in Tx /\ Identity(call[q].tx)
    BY <1>0, <1>3 DEF IInv, PendingOK, GoodTx
  <2>2. j \in Jobs /\ r \in Record
    BY <1>3, <2>1 DEF Tx
  <2>3. CASE call[q].tx.kind = "claim"
    BY <1>0, <1>3, <2>2, <2>3 DEF Owns, NamedByCall, RecordIds, Record, Lease, NotBoth, Claims
  <2>4. CASE call[q].tx.kind = "renew"
    <3>1. claim[q].held /\ ~claim[q].lost /\ claim[q].rec.lease.token = r.lease.token
      BY <1>0, <1>3, <2>1, <2>4 DEF Own, Identity
    <3> QED
      BY <1>3, <2>2, <3>1 DEF Owns, NamedByCall, RecordIds, Record, Lease
  <2> QED
    BY <1>3, <2>3, <2>4
<1> QED
  BY <1>1, <1>2, <1>3 DEF Believes, Committed

\* A renewal in flight has not been written by anybody else.
LEMMA ReachedRenew ==
  ASSUME AInv, NEW p \in Procs, InFlight(call[p]), call[p].tx.kind = "renew"
  PROVE  ~Reached(call[p].tx)
<1> DEFINE tx == call[p].tx
<1>1. /\ Identity(tx) /\ Own(p) /\ Authorised(p) /\ call[p].phase \in CommitPhases
      /\ call[p].est # "committed"
  BY SlotsGood DEF AInv, PInv, UInv, PermitsTracked, InFlight
<1>2. /\ claim[p].held /\ ~claim[p].lost /\ tx.job = claim[p].job /\ tx.old = claim[p].rec
  BY <1>1 DEF Own
<1>3. Believes(p, tx.job, tx.old, claim[p].op)
  BY <1>1, <1>2 DEF Believes, Committed
<1>4. Firm(tx.job, tx.old, claim[p].op)
  BY <1>1, <1>3 DEF Authorised
<1>5. rows[tx.job].job # tx.new
  BY <1>1, <1>4 DEF Firm, Identity, LeasedAs
<1> QED
  BY <1>1, <1>5 DEF Reached, Identity

\* The steps of the protocol in which nothing is applied.
Quiet(p) ==
  /\ SameStore
  /\ \/ Loads(p) \/ Opens(p) \/ Drops(p) \/ Keeps(p) \/ LandsLate(p) \/ Fails(p) \/ Stops(p)
     \/ Answers(p) /\ (call[p].est = "committed" \/ (InFlight(call[p]) /\ Reached(call[p].tx)))

\* They give nobody a new belief.
LEMMA QuietBelieves ==
  ASSUME AInv, NEW p \in Procs, Quiet(p), NEW j, NEW r, NEW o, Believes(p, j, r, o)'
  PROVE  Believes(p, j, r, o)
<1>0. /\ TypeOK /\ NotBoth /\ Own(p) /\ ~Committed(Idle) /\ ~NoClaim.held
      /\ Idle.phase # "loading" /\ Idle.phase \notin CommitPhases
  BY DEF AInv, PInv, UInv, IInv, PermitsTracked, Idle, Committed, CommitPhases, NoClaim
<1>1. CASE Loads(p)
  BY <1>1 DEF Loads, Believes, Claiming, Committed, CommitPhases
<1>2. CASE Opens(p)
  <2>1. call[p].phase = "loading" /\ ~claim[p].held
    BY <1>0, <1>2 DEF Opens, NotBoth, Claims
  <2>2. CASE call'[p] = Idle /\ claim'[p] = call[p].claim
    BY <1>0, <2>1, <2>2 DEF Believes
  <2>3. CASE call'[p] = Corrupt(call[p].claim.job) /\ claim'[p] = claim[p]
    BY <2>1, <2>3 DEF Believes, Corrupt, Committed, CommitPhases
  <2> QED
    BY <1>2, <2>2, <2>3 DEF Opens
<1>3. CASE Drops(p)
  <2>1. claim'[p].held => claim'[p].lost
    BY <1>0, <1>3, HeldClaim DEF Drops, Claim
  <2>2. call'[p] = Idle
    BY <1>3 DEF Drops
  <2> QED
    BY <1>0, <2>1, <2>2 DEF Believes
<1>4. CASE Keeps(p)
  BY <1>4 DEF Keeps, Like, Believes, Committed, CommitPhases
<1>5. CASE LandsLate(p)
  BY <1>5 DEF LandsLate, Believes
<1>6. CASE Fails(p) \/ Stops(p)
  <2>1. claim'[p] = NoClaim \/ claim'[p] = Keeping(p, FALSE)
    BY <1>6 DEF Fails, Stops
  <2>2. call'[p] = Idle
    BY <1>6 DEF Fails, Stops
  <2>3. claim'[p].held /\ ~claim'[p].lost =>
          /\ claim'[p] = claim[p]
          /\ ~(call[p].phase \in CommitPhases /\ call[p].tx.kind \in {"renew", "settle"})
    <3>1. CASE call[p].phase \in CommitPhases /\ call[p].tx.kind = "renew"
      <4>1. claim[p] \in Claim
        BY <1>0, <3>1, HeldClaim DEF Own
      <4>2. [claim[p] EXCEPT !.lost = TRUE].lost
        BY <4>1 DEF Claim
      <4> QED
        BY <1>0, <2>1, <3>1, <4>2 DEF Keeping
    <3>2. CASE ~(call[p].phase \in CommitPhases /\ call[p].tx.kind = "renew")
      BY <1>0, <2>1, <3>2 DEF Keeping
    <3> QED
      BY <3>1, <3>2
  <2> QED
    BY <1>0, <2>2, <2>3 DEF Believes, Committed
<1>7. CASE Answers(p) /\ (call[p].est = "committed" \/ (InFlight(call[p]) /\ Reached(call[p].tx)))
  <2> DEFINE tx == call[p].tx
  <2>0. /\ call[p].phase \in CommitPhases /\ claim'[p] = Keeping(p, TRUE)
        /\ call'[p] = IF Granted(p) THEN Loading(ClaimOf(tx)) ELSE Idle
    BY <1>7 DEF Answers
  <2>1. tx.kind \in {"claim", "renew"} => Committed(call[p])
    BY <1>7, <2>0, ReachedClaim, ReachedRenew DEF Committed, AInv, PInv, UInv
  <2>2. CASE tx.kind = "claim"
    <3>1. call'[p].phase = "loading" /\ call'[p].claim = ClaimOf(tx) /\ claim'[p] = claim[p]
      BY <2>0, <2>2 DEF Granted, Loading, Keeping
    <3> QED
      BY <2>1, <2>2, <3>1 DEF Believes, ClaimOf, Committed, CommitPhases
  <2>3. CASE tx.kind = "renew"
    <3>1. claim[p] \in Claim /\ claim[p].job = tx.job
      BY <1>0, <2>0, <2>3, HeldClaim DEF Own
    <3>2. claim'[p] = [claim[p] EXCEPT !.rec = tx.new, !.op = tx.op.new] /\ call'[p] = Idle
      BY <2>0, <2>3 DEF Granted, Keeping
    <3>3. claim'[p].job = tx.job /\ claim'[p].rec = tx.new /\ claim'[p].op = tx.op.new
      BY <3>1, <3>2 DEF Claim
    <3> QED
      BY <1>0, <2>1, <2>3, <3>2, <3>3 DEF Believes
  <2>4. CASE tx.kind \notin {"claim", "renew"}
    <3>1. call'[p] = Idle /\ (claim'[p] = NoClaim \/ (claim'[p] = claim[p] /\ tx.kind # "settle"))
      BY <2>0, <2>4 DEF Granted, Keeping
    <3> QED
      BY <1>0, <2>4, <3>1 DEF Believes
  <2> QED
    BY <2>2, <2>3, <2>4
<1> QED
  BY <1>1, <1>2, <1>3, <1>4, <1>5, <1>6, <1>7 DEF Quiet

\* A call whose transaction is applied leaves its process believing in what was
\* written, or in what it believed before.
LEMMA AppliedBelieves ==
  ASSUME AInv, NEW p \in Procs, Lands(p) \/ Answers(p), InFlight(call[p]),
         NEW j, NEW r, NEW o, Believes(p, j, r, o)'
  PROVE  \/ Believes(p, j, r, o) /\ call[p].tx.kind \notin {"renew", "settle"}
         \/ j = call[p].tx.job /\ r = call[p].tx.new /\ o = call[p].tx.op.new
<1> DEFINE tx == call[p].tx
<1>0. /\ TypeOK /\ Own(p) /\ ~NoClaim.held /\ call[p].phase \in CommitPhases /\ ~Committed(call[p])
      /\ Idle.phase # "loading" /\ ~Committed(Idle)
  BY DEF AInv, PInv, UInv, IInv, PermitsTracked, Idle, Committed, CommitPhases, NoClaim, InFlight
<1>1. CASE Lands(p)
  <2>1. claim'[p] = claim[p] /\ call'[p].tx = tx /\ Committed(call'[p]) /\ call'[p].phase # "loading"
    BY <1>1 DEF Lands, Committed, CommitPhases
  <2> QED
    BY <1>0, <2>1 DEF Believes, Committed
<1>2. CASE Answers(p)
  <2>0. /\ claim'[p] = Keeping(p, TRUE)
        /\ call'[p] = IF Granted(p) THEN Loading(ClaimOf(tx)) ELSE Idle
    BY <1>2 DEF Answers
  <2>2. CASE tx.kind = "claim"
    <3>1. call'[p].phase = "loading" /\ call'[p].claim = ClaimOf(tx) /\ claim'[p] = claim[p]
      BY <1>0, <2>0, <2>2 DEF Granted, Loading, Keeping
    <3> QED
      BY <1>0, <2>2, <3>1 DEF Believes, ClaimOf, Committed, CommitPhases
  <2>3. CASE tx.kind = "renew"
    <3>1. claim[p] \in Claim /\ claim[p].job = tx.job
      BY <1>0, <2>0, <2>3, HeldClaim DEF Own
    <3>2. claim'[p] = [claim[p] EXCEPT !.rec = tx.new, !.op = tx.op.new] /\ call'[p] = Idle
      BY <1>0, <2>0, <2>3 DEF Granted, Keeping
    <3>3. claim'[p].job = tx.job /\ claim'[p].rec = tx.new /\ claim'[p].op = tx.op.new
      BY <3>1, <3>2 DEF Claim
    <3> QED
      BY <1>0, <2>3, <3>2, <3>3 DEF Believes
  <2>4. CASE tx.kind \notin {"claim", "renew"}
    <3>1. call'[p] = Idle /\ (claim'[p] = NoClaim \/ (claim'[p] = claim[p] /\ tx.kind # "settle"))
      BY <1>0, <2>0, <2>4 DEF Granted, Keeping
    <3> QED
      BY <1>0, <2>4, <3>1 DEF Believes
  <2> QED
    BY <2>2, <2>3, <2>4
<1> QED
  BY <1>1, <1>2

\* The protocol hands no token to a process that did not name it.
LEMMA ShapedOwns ==
  ASSUME AInv, NEW p \in Procs, Shaped(p), NEW t, Owns(p, t)'
  PROVE  Owns(p, t)
<1>0. /\ TypeOK /\ Own(p) /\ ~NoClaim.held /\ Idle.phase # "loading" /\ Idle.phase \notin CommitPhases
  BY DEF AInv, PInv, UInv, IInv, PermitsTracked, Idle, CommitPhases, NoClaim
<1>1. CASE Loads(p)
  BY <1>1 DEF Loads, Owns, Claiming, CommitPhases
<1>2. CASE Opens(p)
  <2>1. call'[p].phase # "loading" /\ call'[p].phase \notin CommitPhases
    BY <1>0, <1>2 DEF Opens, Corrupt, CommitPhases
  <2> QED
    BY <1>2, <2>1 DEF Opens, Owns
<1>3. CASE Drops(p)
  <2>1. claim'[p].held => claim'[p].rec = claim[p].rec /\ claim[p].held
    BY <1>0, <1>3, HeldClaim DEF Drops, Claim
  <2>2. call'[p] = Idle
    BY <1>3 DEF Drops
  <2> QED
    BY <1>0, <2>1, <2>2 DEF Owns
<1>4. CASE Keeps(p)
  BY <1>4 DEF Keeps, Like, Owns, CommitPhases
<1>5. CASE Lands(p)
  BY <1>5 DEF Lands, InFlight, Owns, CommitPhases
<1>6. CASE LandsLate(p)
  BY <1>6 DEF LandsLate, Owns
<1>7. CASE Answers(p) \/ Fails(p) \/ Stops(p)
  <2>1. call'[p] = Idle \/ (Granted(p) /\ call'[p] = Loading(ClaimOf(call[p].tx)))
    BY <1>7 DEF Answers, Fails, Stops
  <2>2. PICK ok \in BOOLEAN : claim'[p] = NoClaim \/ claim'[p] = Keeping(p, ok)
    BY <1>7 DEF Answers, Fails, Stops
  <2>3. claim'[p].held => claim[p].held /\ claim'[p].rec.lease.token = claim[p].rec.lease.token
    <3>1. CASE call[p].phase \in CommitPhases /\ call[p].tx.kind = "renew"
      <4>1. claim[p] \in Claim /\ claim[p].held /\ claim[p].rec = call[p].tx.old
        BY <1>0, <3>1, HeldClaim DEF Own
      <4>2. call[p].tx.new.lease.token = call[p].tx.old.lease.token
        BY <3>1 DEF AInv, PInv, UInv, IInv, PendingOK, GoodTx, Identity
      <4>3. /\ [claim[p] EXCEPT !.rec = call[p].tx.new, !.op = call[p].tx.op.new].rec = call[p].tx.new
            /\ [claim[p] EXCEPT !.lost = TRUE].rec = claim[p].rec
        BY <4>1 DEF Claim
      <4> QED
        BY <1>0, <2>2, <3>1, <4>1, <4>2, <4>3 DEF Keeping
    <3>2. CASE ~(call[p].phase \in CommitPhases /\ call[p].tx.kind = "renew")
      BY <1>0, <2>2, <3>2 DEF Keeping
    <3> QED
      BY <3>1, <3>2
  <2>4. CASE call'[p] = Idle
    BY <1>0, <2>3, <2>4 DEF Owns
  <2>5. CASE Granted(p) /\ call'[p] = Loading(ClaimOf(call[p].tx))
    BY <2>3, <2>5 DEF Owns, Granted, Loading, ClaimOf, CommitPhases
  <2> QED
    BY <2>1, <2>4, <2>5
<1> QED
  BY <1>1, <1>2, <1>3, <1>4, <1>5, <1>6, <1>7 DEF Shaped

\* A lost claim stays lost or is given up.
LEMMA LostStays ==
  ASSUME AInv, NEW p \in Procs, Shaped(p), claim[p].held, claim[p].lost
  PROVE  claim'[p].held => claim'[p].lost
<1>0. /\ TypeOK /\ Own(p) /\ ~NoClaim.held /\ NotBoth /\ claim[p] \in Claim
  BY HeldClaim DEF AInv, PInv, UInv, IInv, PermitsTracked, NoClaim
<1>1. ~Opens(p)
  BY <1>0 DEF Opens, NotBoth, Claims
<1>2. Drops(p) => (claim'[p].held => claim'[p].lost)
  BY <1>0 DEF Drops, Claim
<1>3. ~(call[p].phase \in CommitPhases /\ call[p].tx.kind = "renew")
  BY <1>0 DEF Own
<1>4. \A ok \in BOOLEAN : Keeping(p, ok) \in {claim[p], NoClaim}
  BY <1>3 DEF Keeping
<1>5. \/ claim'[p] = claim[p] \/ claim'[p] = NoClaim \/ Drops(p)
      \/ \E ok \in BOOLEAN : claim'[p] = Keeping(p, ok)
  BY <1>1 DEF Shaped, Loads, Keeps, Lands, LandsLate, Answers, Fails, Stops
<1> QED
  BY <1>0, <1>2, <1>4, <1>5

\* Tokens keep their one owner, and claimants hold no claim.
LEMMA ShapedOwners ==
  ASSUME AInv, NEW p \in Procs, Shaped(p)
  PROVE  OneOwner' /\ NotBoth'
<1>0. OneOwner /\ NotBoth /\ Only(p) /\ ~NoClaim.held /\ ~Claims(Idle)
  BY DEF AInv, Shaped, NoClaim, Claims, Idle, CommitPhases
<1>1. ASSUME NEW q \in Procs, NEW t, Owns(q, t)' PROVE Owns(q, t)
  <2>1. CASE q = p
    BY <1>1, <2>1, ShapedOwns
  <2>2. CASE q # p
    BY <1>0, <1>1, <2>2 DEF Only, Owns
  <2> QED
    BY <2>1, <2>2
<1>2. OneOwner'
  BY <1>0, <1>1 DEF OneOwner
<1>3. ASSUME Claims(call'[p]) PROVE ~claim'[p].held
  <2>1. CASE Loads(p)
    BY <2>1 DEF Loads
  <2>2. CASE Opens(p)
    BY <1>0, <1>3, <2>2 DEF Opens, Claims, Corrupt, CommitPhases
  <2>3. CASE Keeps(p)
    BY <1>0, <1>3, <2>3 DEF Keeps, Like, NotBoth, Claims, CommitPhases
  <2>4. CASE Lands(p)
    BY <1>0, <1>3, <2>4 DEF Lands, NotBoth, Claims, CommitPhases, InFlight
  <2>5. CASE LandsLate(p)
    BY <1>0, <1>3, <2>5 DEF LandsLate, NotBoth
  <2>6. CASE Answers(p)
    <3>1. Granted(p) /\ claim'[p] = claim[p]
      BY <1>0, <1>3, <2>6 DEF Answers, Granted, Keeping
    <3> QED
      BY <1>0, <3>1 DEF Granted, NotBoth, Claims
  <2>7. ~Drops(p) /\ ~Fails(p) /\ ~Stops(p)
    BY <1>0, <1>3 DEF Drops, Fails, Stops
  <2> QED
    BY <2>1, <2>2, <2>3, <2>4, <2>5, <2>6, <2>7 DEF Shaped
<1>4. NotBoth'
  <2>1. ASSUME NEW q \in Procs, Claims(call'[q]) PROVE ~claim'[q].held
    BY <1>0, <1>3, <2>1 DEF NotBoth, Only
  <2>2. ASSUME NEW q \in Procs PROVE Claims(call[q])' <=> Claims(call'[q])
    BY DEF Claims
  <2> QED
    BY <2>1, <2>2 DEF NotBoth
<1> QED
  BY <1>2, <1>4

\* A holder's transaction left behind leaves no believer.
LEMMA ShapedLate ==
  ASSUME AInv, NEW p \in Procs, Shaped(p), NEW q \in Procs, NEW tx, tx = limbo'[q], tx # NoTx
  PROVE  Ends(tx)' /\ LateLost(tx)'
<1>0. Only(p) /\ now' = now /\ Inherits(p) /\ \A r \in Procs : Authorised(r)
  BY ShapedTouches DEF AInv, Shaped, Only, PInv, UInv
<1>1. ASSUME NEW r \in Procs, NEW t, Owns(r, t)' PROVE Owns(r, t)
  <2>1. CASE r = p
    BY <1>1, <2>1, ShapedOwns
  <2>2. CASE r # p
    BY <1>0, <1>1, <2>2 DEF Only, Owns
  <2> QED
    BY <2>1, <2>2
<1>2. CASE limbo'[q] = limbo[q]
  <2>1. Ends(tx) /\ LateLost(tx)
    BY <1>0, <1>2 DEF Authorised
  <2>2. ASSUME tx.kind \in {"renew", "settle"}, NEW r \in Procs, Owns(r, tx.old.lease.token)'
        PROVE  claim'[r].held /\ claim'[r].lost
    <3>1. claim[r].held /\ claim[r].lost /\ Owns(r, tx.old.lease.token)
      BY <1>1, <2>1, <2>2 DEF LateLost
    <3>2. CASE r # p
      BY <1>0, <3>1, <3>2 DEF Only
    <3>3. CASE r = p
      <4>1. claim'[p].held
        <5>1. CASE claim'[p].held
          BY <5>1
        <5>2. CASE ~claim'[p].held
          <6>1. Claims(call'[p])
            BY <2>2, <3>3, <5>2 DEF Owns, Claims
          <6>2. CASE ~Loads(p) /\ ~Answers(p)
            <7>1. Claims(call[p])
              <8>1. ~Claims(Idle) /\ \A a : ~Claims(Corrupt(a))
                BY DEF Claims, Idle, Corrupt, CommitPhases
              <8>2. ~Opens(p) /\ ~Drops(p) /\ ~Fails(p) /\ ~Stops(p)
                BY <6>1, <8>1 DEF Opens, Drops, Fails, Stops
              <8>3. CASE Keeps(p)
                BY <6>1, <8>3 DEF Keeps, Like, Claims, CommitPhases
              <8>4. CASE Lands(p)
                BY <6>1, <8>4 DEF Lands, InFlight, Claims, CommitPhases
              <8>5. CASE LandsLate(p)
                BY <6>1, <8>5 DEF LandsLate
              <8> QED
                BY <6>2, <8>2, <8>3, <8>4, <8>5 DEF Shaped
            <7> QED
              BY <3>1, <3>3, <7>1 DEF AInv, NotBoth
          <6>3. CASE Loads(p)
            BY <3>1, <3>3, <6>3 DEF Loads
          <6>4. CASE Answers(p)
            <7>1. Granted(p)
              BY <6>1, <6>4 DEF Answers, Claims, Idle, CommitPhases
            <7> QED
              BY <3>1, <3>3, <7>1 DEF Granted, AInv, NotBoth, Claims
          <6> QED
            BY <6>2, <6>3, <6>4
        <5> QED
          BY <5>1, <5>2
      <4> QED
        BY <3>1, <3>3, <4>1, LostStays
    <3> QED
      BY <3>2, <3>3
  <2> QED
    BY <1>0, <2>1, <2>2 DEF Ends, LateLost
<1>3. CASE limbo'[q] # limbo[q]
  <2>1. q = p /\ InFlight(call[p]) /\ tx = call[p].tx
    BY <1>0, <1>3 DEF Only, Inherits
  <2>2. (Answers(p) /\ Reached(tx)) \/ Fails(p) \/ Stops(p)
    <3>1. ~Loads(p) /\ ~Opens(p) /\ ~Drops(p) /\ ~Keeps(p) /\ ~Lands(p)
      BY <1>3, <2>1 DEF Loads, Opens, Drops, Keeps, Lands
    <3>2. ~LandsLate(p)
      BY <2>1 DEF LandsLate
    <3> QED
      BY <1>3, <2>1, <3>1, <3>2 DEF Shaped, Answers
  <2>3. Ends(tx) /\ call[p].phase \in CommitPhases
    BY <1>0, <2>1 DEF Authorised, InFlight
  <2>4. ASSUME tx.kind \in {"renew", "settle"}, NEW r \in Procs, Owns(r, tx.old.lease.token)'
        PROVE  claim'[r].held /\ claim'[r].lost
    <3>0. /\ claim[p].held /\ claim[p].rec = tx.old /\ claim[p] \in Claim /\ ~NoClaim.held
          /\ Idle.phase # "loading" /\ Idle.phase \notin CommitPhases
      BY <2>1, <2>3, <2>4, HeldClaim
         DEF AInv, PInv, UInv, IInv, PermitsTracked, Own, NoClaim, Idle, CommitPhases
    <3>1. Owns(p, tx.old.lease.token) /\ tx.old.lease.token \in Nat
      BY <2>4, <3>0 DEF Owns, Claim, Record, Lease
    <3>2. r = p
      BY <1>1, <2>4, <3>1 DEF AInv, OneOwner
    <3>3. call'[p] = Idle
      BY <2>1, <2>2, <2>4 DEF Answers, Fails, Stops, Granted
    <3>4. claim'[p].held
      BY <2>4, <3>0, <3>2, <3>3 DEF Owns
    <3>5. tx.kind = "renew" /\ claim'[p] = Keeping(p, FALSE)
      BY <2>1, <2>2, <2>3, <2>4, <3>0, <3>4, ReachedRenew DEF Answers, Fails, Stops, Keeping
    <3>6. claim'[p] = [claim[p] EXCEPT !.lost = TRUE]
      BY <2>1, <2>3, <3>5 DEF Keeping
    <3> QED
      BY <3>0, <3>2, <3>4, <3>6 DEF Claim
  <2> QED
    BY <1>0, <2>3, <2>4 DEF Ends, LateLost
<1> QED
  BY <1>2, <1>3

\* What a belief after a step of the protocol rests on: the same belief before
\* it, or the transaction that was applied; and the transaction applied ends
\* no lease that somebody else believes in, but after its time.
Rests(q, j, r, o, tx) ==
  /\ Pending(tx) /\ Applying(tx) /\ Ends(tx) /\ TxMarked(tx)
  /\ \/ j = tx.job /\ r = tx.new /\ o = tx.op.new
     \/ /\ Believes(q, j, r, o) /\ j \in Jobs /\ r.lease.token \notin Novel(tx)
        /\ tx.kind \in {"renew", "settle"} /\ r.lease.token # NoId
             => tx.old.lease.token # r.lease.token

\* Every belief after a step of the protocol rests on one of the two.
LEMMA ShapedBelieves ==
  ASSUME AInv, NEW p \in Procs, Shaped(p), NEW q \in Procs,
         NEW j, NEW r, NEW o, Believes(q, j, r, o)'
  PROVE  (rows' = rows /\ Believes(q, j, r, o)) \/ \E tx : Rests(q, j, r, o, tx)
<1>0. /\ Only(p) /\ now' = now /\ UInv /\ IInv /\ PayloadKept /\ Marked /\ PermitsOwned /\ TokensDistinct
      /\ \A a \in Procs : Authorised(a)
  BY DEF AInv, Shaped, Only, PInv, UInv, MInv
<1>1. q # p => Believes(q, j, r, o)
  BY <1>0 DEF Only, Believes
<1>3. CASE Quiet(p)
  BY <1>1, <1>3, QuietBelieves DEF Quiet, SameStore
<1>4. CASE (Lands(p) \/ Answers(p)) /\ InFlight(call[p]) /\ Applied(call[p].tx)
  <2> DEFINE tx == call[p].tx
  <2>1. GoodTx(tx) /\ \A i \in Novel(tx) : Sole(p, i) /\ ~NamedByLate(limbo[p], i)
    BY <1>0, <1>4, SlotsGood, Foreign
  <2>2. Applying(tx) /\ Ends(tx) /\ TxMarked(tx)
    BY <1>0, <1>4, <2>1 DEF Applying, Sole, AInv, PInv, PermitsTracked, CallExact, InFlight,
       Authorised, Marked, CallMarked
  <2>3. CASE j = tx.job /\ r = tx.new /\ o = tx.op.new
    BY <1>4, <2>2, <2>3 DEF Rests, Pending
  <2>4. CASE ~(j = tx.job /\ r = tx.new /\ o = tx.op.new)
    <3>1. Believes(q, j, r, o) /\ (q = p => tx.kind \notin {"renew", "settle"})
      BY <1>1, <1>4, <2>4, AppliedBelieves
    <3>2. /\ j \in Jobs /\ r.lease.token \in Nat /\ (r.lease.token # NoId => Owns(q, r.lease.token))
          /\ NamedByClaim(claim[q], r.lease.token) \/ NamedByCall(call[q], r.lease.token)
      BY <3>1, BelieverOwns
    <3>3. ASSUME tx.kind \in {"renew", "settle"}, r.lease.token # NoId
          PROVE  tx.old.lease.token # r.lease.token
      <4>1. claim[p].held /\ claim[p].rec = tx.old
        BY <1>4, <3>3 DEF AInv, PInv, PermitsTracked, Own, InFlight
      <4> QED
        BY <3>1, <3>2, <3>3, <4>1 DEF Owns, AInv, OneOwner
    <3>4. r.lease.token \notin Novel(tx)
      <4>1. CASE q # p \/ NamedByClaim(claim[q], r.lease.token)
        BY <2>1, <3>2, <4>1 DEF Sole
      <4>2. CASE q = p /\ NamedByCall(call[p], r.lease.token) /\ ~NamedByClaim(claim[p], r.lease.token)
        <5>1. ~Committed(call[p]) /\ call[p].phase # "loading"
          BY <1>4 DEF Committed, InFlight, CommitPhases
        <5> QED
          BY <3>1, <4>2, <5>1 DEF Believes, NamedByClaim, RecordIds
      <4> QED
        BY <3>2, <4>1, <4>2
    <3> QED
      BY <1>4, <2>2, <3>1, <3>2, <3>3, <3>4 DEF Rests, Pending
  <2> QED
    BY <2>3, <2>4
<1>5. CASE LandsLate(p) /\ Applied(limbo[p])
  <2> DEFINE tx == limbo[p]
  <2>0. limbo[p] # NoTx /\ Believes(q, j, r, o)
    BY <1>1, <1>5 DEF LandsLate, Believes
  <2>1. GoodTx(tx) /\ \A i \in Novel(tx) : Sole(p, i) /\ ~NamedByCall(call[p], i)
    BY <1>0, <2>0, SlotsGood, Foreign
  <2>2. Applying(tx) /\ Ends(tx) /\ TxMarked(tx) /\ LateLost(tx)
    BY <1>0, <1>5, <2>0, <2>1 DEF Applying, Sole, AInv, PInv, PermitsTracked, LateExact,
       Authorised, Marked, LateMarked
  <2>3. /\ j \in Jobs /\ r.lease.token \in Nat /\ (r.lease.token # NoId => Owns(q, r.lease.token))
        /\ ~(claim[q].held /\ claim[q].lost)
        /\ NamedByClaim(claim[q], r.lease.token) \/ NamedByCall(call[q], r.lease.token)
    BY <2>0, BelieverOwns
  <2>4. tx.kind \in {"renew", "settle"} /\ r.lease.token # NoId => tx.old.lease.token # r.lease.token
    BY <2>2, <2>3 DEF LateLost
  <2>5. r.lease.token \notin Novel(tx)
    BY <2>1, <2>3 DEF Sole
  <2> QED
    BY <2>0, <2>2, <2>3, <2>4, <2>5 DEF Rests, Pending
<1>6. Quiet(p) \/ ((Lands(p) \/ Answers(p)) /\ InFlight(call[p]) /\ Applied(call[p].tx))
      \/ (LandsLate(p) /\ Applied(limbo[p]))
  <2>1. Loads(p) \/ Opens(p) \/ Drops(p) \/ Keeps(p) \/ Fails(p) \/ Stops(p) => Quiet(p)
    BY DEF Quiet, Loads, Opens, Drops, Keeps, Fails, Stops
  <2>2. Lands(p) => InFlight(call[p]) /\ Applied(call[p].tx)
    BY DEF Lands
  <2>3. LandsLate(p) => Quiet(p) \/ Applied(limbo[p])
    BY DEF LandsLate, Quiet
  <2>4. Answers(p) => Quiet(p) \/ (InFlight(call[p]) /\ Applied(call[p].tx))
    BY DEF Answers, Quiet
  <2> QED
    BY <2>1, <2>2, <2>3, <2>4 DEF Shaped
<1> QED
  BY <1>3, <1>4, <1>5, <1>6

\* A belief that was true is true after a step of the protocol.
LEMMA ShapedFirm ==
  ASSUME AInv, NEW p \in Procs, Shaped(p), NEW q \in Procs,
         NEW j, NEW r, NEW o, Believes(q, j, r, o)'
  PROVE  Firm(j, r, o)'
<1>0. now' = now /\ IInv /\ PayloadKept /\ (Believes(q, j, r, o) => Firm(j, r, o))
  BY DEF AInv, PInv, UInv, Shaped, Only, Authorised
<1>1. CASE rows' = rows /\ Believes(q, j, r, o)
  BY <1>0, <1>1 DEF Firm, LeasedAs
<1>2. ASSUME NEW tx, Rests(q, j, r, o, tx) PROVE Firm(j, r, o)'
  <2>1. Applying(tx) /\ Ends(tx) /\ TxMarked(tx) /\ GoodTx(tx) /\ Applied(tx)
    BY <1>2 DEF Rests, Applying
  <2>2. CASE j = tx.job /\ r = tx.new /\ o = tx.op.new
    BY <1>0, <2>1, <2>2, FirmWritten
  <2>3. CASE ~(j = tx.job /\ r = tx.new /\ o = tx.op.new)
    BY <1>0, <1>2, <2>1, <2>3, FirmStays DEF Rests
  <2> QED
    BY <2>2, <2>3
<1> QED
  BY <1>1, <1>2, ShapedBelieves

\* A step of the commit protocol.
LEMMA ShapedAuthorised ==
  ASSUME AInv, NEW p \in Procs, Shaped(p), NEW q \in Procs
  PROVE  Authorised(q)'
<1>0. Only(p) /\ now' = now /\ now \in Nat /\ Authorised(q)
  BY DEF AInv, PInv, UInv, IInv, TypeOK, Shaped, Only
<1>1. call'[q].phase = "claiming" => call'[q].at <= now
  <2>1. Inherits(p)
    BY ShapedTouches DEF AInv, PInv, UInv
  <2>2. CASE call'[q] = call[q]
    BY <1>0, <2>2 DEF Authorised
  <2>3. CASE call'[q] # call[q]
    <3>1. call'[q].phase = "claiming" =>
            \E j \in Jobs, viaDue \in BOOLEAN : call'[q] = Claiming(j, rows[j].job, viaDue, now)
      BY <1>0, <2>1, <2>3 DEF Inherits, Only
    <3>2. \A a, b, c : Claiming(a, b, c, now).at = now
      BY DEF Claiming
    <3> QED
      BY <1>0, <3>1, <3>2
  <2> QED
    BY <2>2, <2>3
<1>2. ASSUME call'[q].phase \in CommitPhases, NEW tx, tx = call'[q].tx PROVE Ends(tx)'
  <2>1. CASE q # p \/ call'[q] = call[q]
    BY <1>0, <1>2, <2>1 DEF Only, Authorised, Ends
  <2>2. CASE q = p /\ call'[p] # call[p]
    <3>0. \A a, b, c, d : Claiming(a, b, c, d).phase \notin CommitPhases
      BY DEF Claiming, CommitPhases
    <3>1. /\ Idle.phase \notin CommitPhases
          /\ \A a : Loading(a).phase \notin CommitPhases /\ Corrupt(a).phase \notin CommitPhases
      BY DEF Idle, Loading, Corrupt, CommitPhases
    <3>2. ~Drops(p) /\ ~Answers(p) /\ ~Fails(p) /\ ~Stops(p) /\ ~LandsLate(p)
      BY <1>2, <2>2, <3>1 DEF Drops, Answers, Fails, Stops, LandsLate
    <3>3. ~Loads(p) /\ ~Opens(p)
      BY <1>2, <2>2, <3>0, <3>1 DEF Loads, Opens
    <3>4. Keeps(p) \/ Lands(p)
      BY <3>2, <3>3 DEF Shaped
    <3>5. call[p].phase \in CommitPhases /\ Like(tx, call[p].tx)
      BY <1>2, <2>2, <3>4 DEF Keeps, Lands, InFlight, Like
    <3> QED
      BY <1>0, <2>2, <3>5 DEF Authorised, Ends, Like
  <2> QED
    BY <2>1, <2>2
<1>3. ASSUME NEW tx, tx = limbo'[q], tx # NoTx PROVE Ends(tx)' /\ LateLost(tx)'
  BY <1>3, ShapedLate
<1>4. ASSUME NEW j, NEW r, NEW o, Believes(q, j, r, o)' PROVE Firm(j, r, o)'
  BY <1>4, ShapedFirm
<1> QED
  BY <1>0, <1>1, <1>2, <1>3, <1>4 DEF Authorised

\* Building a transaction gives nobody a new belief.
LEMMA BuiltBelieves ==
  ASSUME NEW p \in Procs, NEW tx, Built(p, tx), Begins(p, tx), NEW q \in Procs,
         NEW j, NEW r, NEW o, Believes(q, j, r, o)'
  PROVE  Believes(q, j, r, o)
<1>1. /\ claim'[q] = claim[q] /\ (q # p => call'[q] = call[q])
      /\ call'[p].est # "committed" /\ call'[p].phase # "loading"
  BY DEF Begins, Only, Committing
<1>2. CASE q # p
  BY <1>1, <1>2 DEF Believes
<1>3. CASE q = p
  <2>1. /\ claim[p].held /\ ~claim[p].lost
        /\ j = claim[p].job /\ r = claim[p].rec /\ o = claim[p].op
    BY <1>1, <1>3 DEF Believes, Committed
  <2>2. ~Committed(call[p])
    BY DEF Built, FromClaim, FromRow, FromCandidate, Committed, Idle, CommitPhases
  <2> QED
    BY <1>3, <2>1, <2>2 DEF Believes
<1> QED
  BY <1>2, <1>3

\* A step that builds a transaction.
LEMMA BuiltAuthorised ==
  ASSUME AInv, NEW p \in Procs, NEW tx, Built(p, tx), Begins(p, tx)
  PROVE  OneOwner' /\ NotBoth' /\ \A q \in Procs : Authorised(q)'
<1>0. /\ Only(p) /\ now' = now /\ rows' = rows /\ claim'[p] = claim[p] /\ limbo'[p] = limbo[p]
      /\ call'[p] = Committing(tx) /\ GoodTx(tx) /\ tx \in Tx /\ Identity(tx)
      /\ TypeOK /\ now \in Nat /\ OneOwner /\ NotBoth
  BY DEF Begins, Only, SameStore, Built, GoodTx, AInv, PInv, UInv, IInv, TypeOK
<1>1. /\ \A q \in Procs : claim'[q] = claim[q] /\ limbo'[q] = limbo[q]
      /\ \A q \in Procs \ {p} : call'[q] = call[q]
  BY <1>0 DEF Only
<1>2. /\ call'[p].phase \in CommitPhases /\ call'[p].tx = tx
      /\ call'[p].est # "committed" /\ call'[p].phase # "loading"
  BY <1>0 DEF Committing, CommitPhases
<1>3. tx.kind = "claim" => tx.new.lease.token \in FreshIds /\ FromCandidate(p, tx)
  BY <1>0 DEF Built, FromClaim, FromRow, Identity, Novel, RecordIds
<1>4. ASSUME NEW t \in FreshIds, NEW q \in Procs PROVE ~Owns(q, t)
  BY <1>0, FreshUnnamed DEF Owns, NamedByClaim, NamedByCall, RecordIds
<1>5. ASSUME NEW q \in Procs, NEW t, Owns(q, t)'
      PROVE  Owns(q, t) \/ (q = p /\ t \in FreshIds)
  <2>1. CASE q # p
    BY <1>1, <1>5, <2>1 DEF Owns
  <2>2. CASE q = p
    BY <1>1, <1>2, <1>3, <1>5, <2>2 DEF Owns
  <2> QED
    BY <2>1, <2>2
<1>6. OneOwner'
  BY <1>0, <1>4, <1>5 DEF OneOwner
<1>7. NotBoth'
  <2>1. Claims(call'[p]) => tx.kind = "claim"
    BY <1>2 DEF Claims, CommitPhases
  <2>2. tx.kind = "claim" => Claims(call[p])
    BY <1>3 DEF FromCandidate, Claims
  <2>3. ASSUME NEW q \in Procs PROVE Claims(call[q])' <=> Claims(call'[q])
    BY DEF Claims
  <2> QED
    BY <1>0, <1>1, <2>1, <2>2, <2>3 DEF NotBoth
<1>8. ASSUME NEW q \in Procs PROVE Authorised(q)'
  <2>0. Authorised(q) /\ Authorised(p)
    BY DEF AInv
  <2>1. call'[q].phase = "claiming" => call'[q].at <= now
    BY <1>1, <1>2, <2>0 DEF Authorised, CommitPhases
  <2>2. Ends(tx)
    <3>1. CASE FromClaim(p, tx)
      BY <3>1 DEF FromClaim, Ends
    <3>2. CASE FromRow(p, tx)
      BY <3>2 DEF FromRow, Ends
    <3>3. CASE FromCandidate(p, tx)
      <4>1. tx.old.state = "leased" => tx.old.lease.until <= call[p].at /\ call[p].at <= now
        BY <2>0, <3>3 DEF FromCandidate, Authorised
      <4>2. tx.old.lease.until \in Int /\ call[p].at \in Int
        BY <1>0, <3>3, CallFields DEF Tx, Record, Lease, FromCandidate
      <4> QED
        BY <1>0, <4>1, <4>2 DEF Ends
    <3> QED
      BY <3>1, <3>2, <3>3 DEF Built
  <2>3. call'[q].phase \in CommitPhases => Ends(call[q].tx)'
    <3>1. CASE q = p
      BY <1>0, <1>2, <2>2, <3>1 DEF Ends
    <3>2. CASE q # p
      BY <1>0, <1>1, <2>0, <3>2 DEF Authorised, Ends
    <3> QED
      BY <3>1, <3>2
  <2>4. ASSUME limbo[q] # NoTx, NEW late, late = limbo[q] PROVE Ends(late)' /\ LateLost(late)'
    <3>1. Ends(late) /\ LateLost(late)
      BY <2>0, <2>4 DEF Authorised
    <3>2. late.old.lease.token \notin FreshIds
      BY <1>0, <2>4, FreshUnnamed DEF NamedByLate, RecordIds
    <3> QED
      BY <1>0, <1>1, <1>5, <3>1, <3>2 DEF Ends, LateLost
  <2>5. ASSUME NEW j, NEW r, NEW o, Believes(q, j, r, o)' PROVE Firm(j, r, o)'
    <3>1. Believes(q, j, r, o)
      BY <2>5, BuiltBelieves
    <3> QED
      BY <1>0, <2>0, <3>1 DEF Authorised, Firm, LeasedAs
  <2> QED
    BY <1>0, <1>1, <2>1, <2>3, <2>4, <2>5 DEF Authorised
<1> QED
  BY <1>6, <1>7, <1>8

\* Time may pass; what has ended in time has ended.
LEMMA WaitsAuthorised ==
  ASSUME AInv, Waits
  PROVE  OneOwner' /\ NotBoth' /\ \A q \in Procs : Authorised(q)'
<1>0. /\ now \in Nat /\ now' \in Nat /\ now' >= now /\ rows' = rows
      /\ call' = call /\ claim' = claim /\ limbo' = limbo
  BY DEF AInv, PInv, UInv, IInv, TypeOK, Waits, SameStore
<1>1. OneOwner' /\ NotBoth'
  BY <1>0 DEF AInv, OneOwner, Owns, NotBoth, Claims
<1>2. ASSUME NEW q \in Procs PROVE Authorised(q)'
  <2>0. /\ Authorised(q) /\ TypeOK /\ call[q] \in Calls /\ limbo[q] \in Tx \cup {NoTx}
    BY DEF AInv, PInv, UInv, IInv, TypeOK
  <2>1. call[q].phase = "claiming" => call[q].at \in Int
    BY <2>0, CallFields
  <2>2. ASSUME NEW tx \in Tx, Ends(tx) PROVE Ends(tx)'
    <3>1. tx.old.lease.until \in Int
      BY DEF Tx, Record, Lease
    <3> QED
      BY <1>0, <2>2, <3>1 DEF Ends
  <2>3. call[q].phase \in CommitPhases => call[q].tx \in Tx
    BY <2>0, CallFields DEF CommitCall
  <2>4. \A tx : LateLost(tx)' <=> LateLost(tx)
    BY <1>0 DEF LateLost, Owns
  <2>5. ASSUME NEW j, NEW r, NEW o, Believes(q, j, r, o)' PROVE Firm(j, r, o)'
    <3>1. Believes(q, j, r, o)
      BY <1>0, <2>5 DEF Believes, Committed
    <3>2. Firm(j, r, o)
      BY <2>0, <3>1 DEF Authorised
    <3>3. r \in Record
      <4>1. claim[q].held => claim[q].rec \in Record
        BY <2>0, HeldClaim
      <4>2. call[q].phase = "loading" => call[q].claim.rec \in Record
        BY <2>0, CallFields DEF Claim
      <4>3. call[q].phase \in CommitPhases => call[q].tx.new \in Record
        BY <2>3 DEF Tx
      <4> QED
        BY <3>1, <4>1, <4>2, <4>3 DEF Believes, Committed
    <3>4. r.lease.until \in Int
      BY <3>3 DEF Record, Lease
    <3> QED
      BY <1>0, <3>2, <3>4 DEF Firm, LeasedAs
  <2>6. call'[q].phase = "claiming" => call'[q].at <= now'
    BY <1>0, <2>0, <2>1 DEF Authorised
  <2>7. ASSUME NEW c, c = call[q], c.phase \in CommitPhases PROVE Ends(c.tx)'
    BY <2>0, <2>2, <2>3, <2>7 DEF Authorised
  <2>8. ASSUME NEW l, l = limbo[q], l # NoTx PROVE Ends(l)' /\ LateLost(l)'
    BY <2>0, <2>2, <2>4, <2>8 DEF Authorised
  <2> QED
    BY <1>0, <2>5, <2>6, <2>7, <2>8 DEF Authorised
<1> QED
  BY <1>1, <1>2

-----------------------------------------------------------------------------
(* The theorem                                                             *)

\* Initially nobody believes anything.
LEMMA AuthorityInitial == Init => AInv
<1> SUFFICES ASSUME Init PROVE AInv
  OBVIOUS
<1>1. PInv /\ MInv
  BY PermitsInitial, MarkedInitial
<1>2. /\ \A p \in Procs : ~claim[p].held /\ call[p].phase = "idle" /\ limbo[p] = NoTx
      /\ \A j \in Jobs : rows[j].job = NoJob
  BY DEF Init, NoClaim, Idle, EmptyRow
<1>3. PayloadKept /\ OneOwner /\ NotBoth
  BY <1>2 DEF PayloadKept, OneOwner, Owns, NotBoth, Claims, CommitPhases
<1>4. \A p \in Procs : Authorised(p)
  BY <1>2 DEF Authorised, Believes, Committed, CommitPhases
<1> QED
  BY <1>1, <1>3, <1>4 DEF AInv

\* Every step keeps beliefs true.
LEMMA AuthorityInductive ==
  ASSUME "corrupt" \notin Ops, "reuse" \notin Ops, AInv, [Next]_vars
  PROVE  AInv'
<1>1. PInv' /\ MInv' /\ PayloadKept' /\ IInv
  BY PermitsInductive, MarkedInductive, PayloadStays DEF AInv, PInv, UInv
<1>2. \A j \in Jobs : ~Damages(j)
  BY DEF Damages
<1>3. OneOwner' /\ NotBoth' /\ \A q \in Procs : Authorised(q)'
  <2>1. ASSUME NEW p \in Procs, Shaped(p)
        PROVE  OneOwner' /\ NotBoth' /\ \A q \in Procs : Authorised(q)'
    BY <2>1, ShapedOwners, ShapedAuthorised
  <2>2. ASSUME NEW p \in Procs, NEW tx, Built(p, tx), Begins(p, tx)
        PROVE  OneOwner' /\ NotBoth' /\ \A q \in Procs : Authorised(q)'
    BY <2>2, BuiltAuthorised
  <2>3. Waits => OneOwner' /\ NotBoth' /\ \A q \in Procs : Authorised(q)'
    BY WaitsAuthorised
  <2> QED
    BY <1>1, <1>2, <2>1, <2>2, <2>3, Shapes
<1> QED
  BY <1>1, <1>3 DEF AInv

\* AuthorityExact: a worker whose claim is current and which is not inside a
\* call has the job, the operation marker and the permits it was given, whatever
\* other workers, administrators, lost acknowledgements and late applications
\* did meanwhile.
THEOREM AuthorityHeld ==
  ASSUME "corrupt" \notin Ops, "reuse" \notin Ops
  PROVE  Spec => []AuthorityExact
<1>1. ASSUME AInv PROVE AuthorityExact
  <2> SUFFICES ASSUME NEW p \in Procs, Holding(p), CurrentLease(claim[p], now)
               PROVE  LET c == claim[p]
                      IN /\ rows[c.job].job = c.rec /\ rows[c.job].op = c.op
                         /\ \A k \in c.keys : permits[k] = c.rec.lease.token
    BY DEF AuthorityExact
  <2> DEFINE c == claim[p]
  <2>1. /\ TypeOK /\ Authorised(p) /\ ClaimExact(c) /\ c.held /\ call[p] = Idle
        /\ c.rec.state = "leased" /\ c.rec.lease.until > now /\ ~c.lost /\ now \in Nat
    BY <1>1 DEF AInv, PInv, UInv, IInv, TypeOK, PermitsTracked, Holding, Available,
       CurrentLease, LeaseAt
  <2>2. c \in Claim /\ c.rec.lease.until \in Int
    BY <2>1, HeldClaim DEF Record, Lease
  <2>3. Believes(p, c.job, c.rec, c.op)
    BY <2>1 DEF Believes, Committed, Idle, CommitPhases
  <2>4. rows[c.job].job = c.rec /\ rows[c.job].op = c.op
    BY <2>1, <2>2, <2>3 DEF Authorised, Firm
  <2>5. Holdings(c.rec.lease.token) = c.keys
    BY <2>1, <2>4 DEF ClaimExact, Exact, LeasedAs
  <2> QED
    BY <2>4, <2>5 DEF Holdings
<1>2. AInv /\ [Next]_vars => AInv'
  BY AuthorityInductive
<1> QED
  BY <1>1, <1>2, AuthorityInitial, PTL DEF Spec

-----------------------------------------------------------------------------
(* Probes                                                                  *)

\* After operation o the job was given to nobody, or under a higher fence: so
\* no receipt of it is that of o.
Shut(j, o) ==
  /\ rows[j].op.fence >= o.fence
  /\ rows[j].job.state = "leased" \/ rows[j].op.kind = "receipt" => rows[j].op.fence > o.fence

\* A lease that somebody still believes in and that is over is shut.
Sealed(j, r, o) == r.state = "leased" => LeasedAs(j, r.lease.token) \/ Shut(j, o)

AllSealed == \A p \in Procs : \A j, r, o : Believes(p, j, r, o) => Sealed(j, r, o)

SInv == AInv /\ TInv /\ AllSealed

\* What is shut stays shut.
LEMMA ShutStays ==
  ASSUME TInv, NEW tx, Pending(tx), GoodTx(tx), Applied(tx),
         NEW j \in Jobs, NEW o, o.fence \in Nat, Shut(j, o)
  PROVE  Shut(j, o)'
<1>0. /\ IInv /\ tx.job \in Jobs /\ rows[tx.job].job = tx.old /\ rows'[tx.job].job = tx.new
      /\ Moves(tx.kind, rows[tx.job], rows'[tx.job])
      /\ RowOK(rows[tx.job]) /\ RowOK(rows'[tx.job])
      /\ \A i \in Jobs \ {tx.job} : rows'[i] = rows[i]
      /\ rows[tx.job].op.fence \in Nat
  BY AppliedFacts DEF TInv, UInv, IInv, TypeOK, Row, Operation, Outcome
<1>1. CASE j # tx.job
  BY <1>0, <1>1 DEF Shut
<1>2. CASE j = tx.job /\ tx.kind = "claim"
  <2>1. rows'[j].op.fence = rows[j].op.fence + 1
    BY <1>2, ClaimOpensNext
  <2> QED
    BY <1>0, <1>2, <2>1 DEF Shut
<1>3. CASE j = tx.job /\ tx.kind # "claim"
  <2>1. rows'[j].op.fence = rows[j].op.fence
    BY <1>0, <1>3 DEF Moves
  <2>2. rows'[j].job.state = "leased" => rows[j].job.state = "leased"
    BY <1>0, <1>3 DEF Moves
  <2>3. ASSUME rows'[j].op.kind = "receipt"
        PROVE  rows[j].job.state = "leased" \/ rows[j].op.kind = "receipt"
    <3>1. rows'[j].job.state = "absent"
      <4>1. tx.new.state \in JobStates
        BY DEF GoodTx, Tx, Record
      <4> QED
        BY <1>0, <1>3, <2>3, <4>1 DEF RowOK, JobStates
    <3> QED
      BY <1>0, <1>3, <3>1 DEF Moves
  <2> QED
    BY <1>0, <1>3, <2>1, <2>2, <2>3 DEF Shut
<1> QED
  BY <1>1, <1>2, <1>3

\* What is believed in is an operation.
LEMMA BelievedOperation ==
  ASSUME AInv, NEW q \in Procs, NEW j, NEW r, NEW o, Believes(q, j, r, o)
  PROVE  o \in Operation
<1>0. TypeOK
  BY DEF AInv, PInv, UInv, IInv
<1>1. claim[q].held => claim[q].op \in Operation
  BY <1>0, HeldClaim DEF Claim
<1>2. call[q].phase = "loading" => call[q].claim.op \in Operation
  BY <1>0, CallFields DEF Claim
<1>3. call[q].phase \in CommitPhases => call[q].tx.op.new \in Operation
  BY <1>0, CallFields DEF CommitCall, Tx
<1> QED
  BY <1>1, <1>2, <1>3 DEF Believes, Committed

\* A lease that is ended by somebody else is shut.
LEMMA ShutByOthers ==
  ASSUME TInv, NEW tx, Pending(tx), GoodTx(tx), Applied(tx), tx.kind \notin {"renew", "settle"},
         NEW j \in Jobs, NEW r, NEW o, o.fence \in Nat, rows[j].job = r, rows[j].op = o,
         r.state = "leased", ~LeasedAs(j, r.lease.token)'
  PROVE  Shut(j, o)'
<1>0. /\ IInv /\ tx.job \in Jobs /\ rows[tx.job].job = tx.old /\ rows'[tx.job].job = tx.new
      /\ Moves(tx.kind, rows[tx.job], rows'[tx.job]) /\ RowOK(rows'[tx.job])
      /\ \A i \in Jobs \ {tx.job} : rows'[i] = rows[i]
      /\ Identity(tx) /\ tx.new.state \in JobStates
  BY AppliedFacts DEF TInv, UInv, Outcome, GoodTx, Tx, Record
<1>1. j = tx.job /\ tx.old = r
  BY <1>0 DEF LeasedAs
<1>2. CASE tx.kind = "claim"
  <2>1. rows'[j].op.fence = rows[j].op.fence + 1
    BY <1>1, <1>2, ClaimOpensNext
  <2> QED
    BY <2>1 DEF Shut
<1>3. CASE tx.kind # "claim"
  <2>1. rows'[j].op.fence = o.fence /\ rows'[j].job.state # "leased"
    BY <1>0, <1>1, <1>3 DEF Moves, LeasedAs
  <2>2. tx.new # NoJob
    BY <1>0, <1>1 DEF Identity, NoJob
  <2>3. rows'[j].op.kind # "receipt"
    BY <1>0, <1>1, <2>2 DEF RowOK, JobStates
  <2> QED
    BY <2>1, <2>3 DEF Shut
<1> QED
  BY <1>2, <1>3

\* Every step keeps what is believed in sealed.
LEMMA SealedInductive ==
  ASSUME "corrupt" \notin Ops, "reuse" \notin Ops, SInv, [Next]_vars
  PROVE  AllSealed'
<1>0. AInv /\ TInv /\ AllSealed /\ IInv /\ TypeOK /\ (\A p \in Procs : Authorised(p))
  BY DEF SInv, TInv, UInv, IInv, AInv
<1>1. ASSUME NEW q \in Procs, NEW j, NEW r, NEW o, Believes(q, j, r, o), rows' = rows
      PROVE  Sealed(j, r, o)'
  BY <1>0, <1>1 DEF AllSealed, Sealed, LeasedAs, Shut
<1>2. ASSUME NEW q \in Procs, NEW j, NEW r, NEW o, NEW tx, Rests(q, j, r, o, tx)
      PROVE  Sealed(j, r, o)'
  <2>0. Pending(tx) /\ Applying(tx) /\ GoodTx(tx) /\ Applied(tx)
    BY <1>2 DEF Rests, Applying
  <2>1. CASE j = tx.job /\ r = tx.new
    BY <1>0, <2>0, <2>1, AppliedFacts DEF Sealed, LeasedAs
  <2>2. CASE ~(j = tx.job /\ r = tx.new)
    <3>0. /\ Believes(q, j, r, o) /\ j \in Jobs
          /\ tx.kind \in {"renew", "settle"} /\ r.lease.token # NoId
               => tx.old.lease.token # r.lease.token
      BY <1>2, <2>2 DEF Rests
    <3>1. Firm(j, r, o) /\ Sealed(j, r, o) /\ o.fence \in Nat
      <4>1. o \in Operation
        BY <1>0, <3>0, BelievedOperation
      <4> QED
        BY <1>0, <3>0, <4>1 DEF Authorised, AllSealed, Operation
    <3> SUFFICES ASSUME r.state = "leased", ~LeasedAs(j, r.lease.token)' PROVE Shut(j, o)'
      BY DEF Sealed
    <3>2. CASE ~LeasedAs(j, r.lease.token)
      BY <1>0, <2>0, <3>0, <3>1, <3>2, ShutStays DEF Sealed
    <3>3. CASE LeasedAs(j, r.lease.token)
      <4>1. rows[j].job = r /\ rows[j].op = o
        BY <3>1, <3>3 DEF Firm
      <4>2. r.lease.token # NoId
        BY <1>0, <3>0, <4>1 DEF IInv, RowsCoherent, RowOK
      <4>3. tx.job \in Jobs /\ rows[tx.job].job = tx.old
            /\ \A i \in Jobs \ {tx.job} : rows'[i] = rows[i]
        BY <1>0, <2>0, AppliedFacts
      <4>4. j = tx.job
        BY <3>0, <3>3, <4>3 DEF LeasedAs
      <4>5. tx.kind \notin {"renew", "settle"}
        BY <3>0, <4>1, <4>2, <4>3, <4>4
      <4> QED
        BY <1>0, <2>0, <3>0, <3>1, <4>1, <4>5, ShutByOthers
    <3> QED
      BY <3>2, <3>3
  <2> QED
    BY <2>1, <2>2
<1>3. ASSUME NEW q \in Procs, NEW j, NEW r, NEW o, Believes(q, j, r, o)'
      PROVE  Sealed(j, r, o)'
  <2>1. ASSUME NEW p \in Procs, Shaped(p) PROVE Sealed(j, r, o)'
    BY <1>0, <1>1, <1>2, <1>3, <2>1, ShapedBelieves
  <2>2. ASSUME NEW p \in Procs, NEW tx, Built(p, tx), Begins(p, tx) PROVE Sealed(j, r, o)'
    BY <1>1, <1>3, <2>2, BuiltBelieves DEF Begins, SameStore
  <2>3. CASE Waits
    <3>1. Believes(q, j, r, o) /\ rows' = rows
      BY <1>3, <2>3 DEF Waits, SameStore, Believes, Committed
    <3> QED
      BY <1>1, <3>1
  <2>4. \A i \in Jobs : ~Damages(i)
    BY DEF Damages
  <2> QED
    BY <1>0, <2>1, <2>2, <2>3, <2>4, Shapes
<1> QED
  BY <1>3 DEF AllSealed

\* ProbeTellsTruth: after a lost acknowledgement the value that a claim, a
\* renewal or a completion finds under its probe key is its own.
THEOREM ProbesTellTruth ==
  ASSUME "corrupt" \notin Ops, "reuse" \notin Ops, StaleReads = FALSE
  PROVE  Spec => []ProbeTellsTruth
<1>1. ASSUME SInv PROVE ProbeTellsTruth
  <2> SUFFICES ASSUME NEW p \in Procs, call[p].phase = "probe", call[p].est # "committed",
                      call[p].tx.kind \in {"claim", "renew"} \/ call[p].tx.probe = "op"
               PROVE  ~Reached(call[p].tx)
    BY DEF ProbeTellsTruth
  <2> DEFINE tx == call[p].tx
  <2>0. /\ AInv /\ UInv /\ IInv /\ InFlight(call[p]) /\ GoodTx(tx) /\ Identity(tx)
        /\ Authorised(p) /\ Own(p)
    BY <1>1, SlotsGood DEF SInv, AInv, PInv, UInv, PermitsTracked, InFlight, CommitPhases, GoodTx
  <2>1. CASE tx.kind = "claim"
    BY <2>0, <2>1, ReachedClaim DEF UInv
  <2>2. CASE tx.kind = "renew"
    BY <2>0, <2>2, ReachedRenew
  <2>3. CASE tx.probe = "op"
    <3>1. /\ claim[p].held /\ ~claim[p].lost /\ tx.job = claim[p].job
          /\ tx.op.old = claim[p].op /\ tx.kind = "settle"
      BY <2>0, <2>3 DEF Own, Identity, InFlight
    <3> DEFINE o == claim[p].op
    <3>2. Believes(p, tx.job, claim[p].rec, o)
      BY <2>0, <3>1 DEF Believes, Committed
    <3>3. Firm(tx.job, claim[p].rec, o) /\ Sealed(tx.job, claim[p].rec, o)
      BY <1>1, <2>0, <3>2 DEF Authorised, SInv, AllSealed
    <3>4. tx.old.state = "leased" /\ tx.old = claim[p].rec /\ tx.op.new = Receipt(o.id, o.fence)
          /\ tx.job \in Jobs /\ o.fence \in Nat /\ RowOK(rows[tx.job])
      <4>1. o \in Operation
        BY <2>0, <3>2, BelievedOperation
      <4> QED
        BY <2>0, <2>3, <3>1, <4>1 DEF Own, Identity, InFlight, Operation, GoodTx, Tx, IInv, RowsCoherent
    <3>5. ASSUME rows[tx.job].op = Receipt(o.id, o.fence) PROVE FALSE
      <4>1. rows[tx.job].op.kind = "receipt" /\ rows[tx.job].op.fence = o.fence
        BY <3>5 DEF Receipt
      <4>2. rows[tx.job].job.state # "leased"
        BY <3>4, <4>1 DEF RowOK
      <4> QED
        BY <3>3, <3>4, <4>1, <4>2 DEF Sealed, LeasedAs, Shut
    <3> QED
      BY <2>3, <3>4, <3>5 DEF Reached
  <2> QED
    BY <2>1, <2>2, <2>3
<1>2. SInv /\ [Next]_vars => SInv'
  BY AuthorityInductive, TrackedInductive, SealedInductive DEF SInv
<1>3. Init => SInv
  <2>1. Init => \A p \in Procs : ~claim[p].held /\ call[p].phase = "idle"
    BY DEF Init, NoClaim, Idle
  <2> QED
    BY <2>1, AuthorityInitial, TrackedInitial DEF SInv, AllSealed, Believes, Committed, CommitPhases
<1> QED
  BY <1>1, <1>2, <1>3, PTL DEF Spec

=============================================================================
