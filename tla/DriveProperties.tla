--------------------------- MODULE DriveProperties ---------------------------
(***************************************************************************)
(* What drives and their shared fairness ledger must get right.            *)
(***************************************************************************)
EXTENDS DriveLoop

HasLedger(d) == drive[d].pc \in {"starting", "polling"}
Ledgers == (IF owner = NoOwner THEN {} ELSE {owner}) \cup {drive[d].ledger : d \in {x \in Drives : HasLedger(x)}}

LeasedIn(L, s) == {j \in Leased(L) : s \in ScopesOf(j)}

\* Every ledger, the stored one and each drive's copy, accounts for exactly
\* the reservations it holds: a scope's in-flight count, free permits and
\* rate, its ready count, and the busy flag of each ordering group, agree
\* with the states of the candidates.  No sequence of reservations, lost
\* saves, reconciliations, settlements and stale permits (admission/
\* capacity.rs, lifecycle.rs) leaks or invents a slot.
LedgerExact ==
    \A L \in Ledgers :
      /\ \A s \in DOMAIN L.scopes :
           LET st == L.scopes[s]
               n  == Cardinality(LeasedIn(L, s))
           IN /\ st.inFlight = n
              /\ st.permits = ScopeConcurrency - n
              /\ st.rate = ScopeRate - n
              /\ st.ready = Cardinality({j \in DOMAIN L.cands : ScopeOf[j] = s /\ Counted(L, j) = 1})
      /\ \A k \in DOMAIN L.orders :
           L.orders[k].busy <=> \E j \in Leased(L) : KeyOf[j] = k

\* A drive never exceeds its request: claims, concurrency, and the payload
\* bytes in flight (one oversized candidate alone excepted).
WithinRequest ==
    \A d \in Drives :
      /\ drive[d].claimed + drive[d].reserved <= MaxClaims
      /\ Cardinality(DOMAIN drive[d].active) <= MaxConcurrency
      /\ Cardinality(DOMAIN drive[d].active) > 1 => ActiveBytes(drive[d]) <= RequestBytes
      /\ drive[d].ops >= 0

\* Neither the shared ledger nor a drive's own budget drifts from the work it stands for
\* (FairnessLedger, the scheduler's runner).
BudgetsExact == LedgerExact /\ WithinRequest

\* A drive that reports no wake, without having been shut down, has seen each
\* job it discovered to its end: whatever was deferred, refused, lost to a
\* conflict or left behind keeps the worker awake (scheduler/runner.rs
\* finish, completion.rs apply).  Exempt are only the jobs of a primary whose
\* registered weights disagree: owner.rs:46-50 takes them out of the drive
\* before its wake is computed, and nothing is reported for them.
WakeNotForgotten ==
    \A d \in Drives :
      drive[d].pc = "finished" /\ drive[d].hint = NoWake /\ ~drive[d].requested =>
        \A j \in drive[d].found \ drive[d].conflicted : job[j].st = "gone"

\* owner/discovery.rs: new candidates "join the tail without renumbering
\* successors below a completed durable head", so the head of an ordering
\* group is always a position somebody holds while work of the group waits.
HeadIsHeld ==
    owner # NoOwner => LET L == owner IN \A k \in DOMAIN L.orders :
      (\E j \in DOMAIN L.cands : KeyOf[j] = k /\ ReadyRoute(StateOf(L, j))) =>
        \E j \in DOMAIN L.cands : KeyOf[j] = k /\ StateOf(L, j) # "absent" /\ L.cands[j].pos = L.orders[k].head
=============================================================================
