----------------------------- MODULE RemoteState -----------------------------
(***************************************************************************)
(* The Valkey buffer of buffered-writes.  An operation reads the retention *)
(* state and its metadata, applies one mutation at the server's time and   *)
(* commits with a script that compares both values and refuses once a      *)
(* lease the mutation relied on has run out.  The operations of a client   *)
(* are tasks of their own that share what the client has observed: the     *)
(* provider is cloned into each of them.  One lease stands for all.        *)
(***************************************************************************)
EXTENDS Integers, Sequences, FiniteSets, SequencesExt

CONSTANTS Clients, LeaseMs, MaxServerTime,
          RemoteOps,        \* the operations of a behaviour, a kind and its client
          MaxOverlap,       \* operations running at once
          MaxRevisions,     \* commits of one behaviour
          MaxRemoteFaults   \* timeouts and losses of the stored pair

\* A renewal stands for renew and for a seal that installs its batch: both need
\* the lease and run it anew.  A settlement stands for settle and for a seal
\* that releases or quarantines its candidate: both need the lease and end it.
OperationKinds == {"append", "claim", "renew", "settle", "inspect"}

ASSUME RemoteAssumption == RemoteOps \subseteq OperationKinds \X Clients
                              /\ LeaseMs \in Nat \ {0} /\ MaxServerTime \in Nat /\ MaxOverlap \in Nat
                              /\ MaxRevisions \in Nat /\ MaxRemoteFaults \in Nat

VARIABLES
  cell,        \* the stored pair, or Missing
  running,     \* the operations whose tasks run
  observed,    \* observed_state of each client, shared by its operations
  flight,      \* commit scripts whose client stopped waiting
  serverTime,
  reported,    \* mutations whose script answered that it applied, since the pair was last lost
  remoteFaults

remoteVars == <<cell, running, observed, flight, serverTime, reported, remoteFaults>>

\* StoredMetadata::capture: the revision and what inspection needs of the state.
Capture(revision, holder, until) == [revision |-> revision, leased |-> holder # "none", until |-> until]

Missing == [state |-> <<>>, revision |-> 0, holder |-> "none", until |-> 0,
            metadata |-> Capture(0, "none", 0)]

RemoteInit ==
  /\ cell = Missing /\ running = {} /\ observed = [c \in Clients |-> FALSE] /\ flight = {}
  /\ serverTime = 1 /\ reported = {} /\ remoteFaults = 0

LeaseActive(s, t) == s.holder # "none" /\ s.until > t

\* What the mutation makes of a snapshot at server time t.  There is always
\* something to claim; a claim that finds the lease taken commits an unchanged state.
Mutate(s, op, t) ==
  CASE op[1] = "append" -> [s EXCEPT !.state = Append(@, op)]
    [] op[1] = "claim" /\ LeaseActive(s, t) -> s
    [] op[1] = "renew" \/ (op[1] = "claim" /\ ~LeaseActive(s, t)) ->
         [s EXCEPT !.state = Append(@, op), !.holder = op[2], !.until = t + LeaseMs]
    [] op[1] = "settle" -> [s EXCEPT !.state = Append(@, op), !.holder = "none", !.until = 0]

\* validate_lease; seal_candidate drops expired leases before it looks for its fence.
Permitted(s, op, t) == op[1] \in {"renew", "settle"} => LeaseActive(s, t) /\ s.holder = op[2]

\* commit_before: the first expiry of a lease active before or after; 0: none.
CommitBefore(old, new, t) ==
  LET ends == {s.until : s \in {x \in {old, new} : LeaseActive(x, t)}}
  IN IF ends = {} THEN 0 ELSE CHOOSE e \in ends : \A f \in ends : e <= f

\* About to read, or past its commit: nothing read and nothing prepared.
\* knew: whether the client had observed the pair when the operation began.
Request(op, pc, knew) ==
  [pc |-> pc, op |-> op, base |-> Missing, next |-> Missing, before |-> 0, knew |-> knew]

\* The task of q goes on as r.
GoesOn(q, r) == running' = (running \ {q}) \cup {r}
Ends(q) == running' = running \ {q}

\* An operation starts in a task of its own; each mutation is made once.
BeginOperation(op) ==
  /\ cell.revision < MaxRevisions /\ Cardinality(running) < MaxOverlap
  /\ op \notin reported /\ op \notin ToSet(cell.state) /\ \A q \in running \cup flight : q.op # op
  /\ running' = running \cup {Request(op, "read", observed[op[2]])}
  /\ UNCHANGED <<cell, observed, flight, serverTime, reported, remoteFaults>>

\* The read script, or the inspect script.
ReadState(q) ==
  /\ q.pc = "read" /\ GoesOn(q, [q EXCEPT !.pc = "check", !.base = cell])
  /\ UNCHANGED <<cell, observed, flight, serverTime, reported, remoteFaults>>

\* record_retention_presence, when the answer is there: nothing was stored though
\* the client has observed something is an error.  An inspection is then over.
RecordPresence(q) ==
  LET present == q.base # Missing
      c == q.op[2]
  IN /\ q.pc = "check"
     /\ IF q.op[1] = "inspect" \/ (~present /\ observed[c]) THEN Ends(q) ELSE GoesOn(q, [q EXCEPT !.pc = "apply"])
     /\ observed' = [observed EXCEPT ![c] = @ \/ present]
     /\ UNCHANGED <<cell, flight, serverTime, reported, remoteFaults>>

\* refresh: batches in flight at server time t, from the metadata alone.
InFlight(metadata, t) == metadata.leased /\ metadata.until > t

\* The pair after a mutation, encoded under a new revision.
Encoded(s) == [s EXCEPT !.revision = @ + 1, !.metadata = Capture(s.revision + 1, s.holder, s.until)]

\* server_time, then the mutation and its encoding.
ApplyMutation(q) ==
  LET next == Encoded(Mutate(q.base, q.op, serverTime))
  IN /\ q.pc = "apply"
     /\ IF ~Permitted(q.base, q.op, serverTime) THEN Ends(q)
        ELSE GoesOn(q, [q EXCEPT !.pc = "commit", !.next = next, !.before = CommitBefore(q.base, next, serverTime)])
     /\ UNCHANGED <<cell, observed, flight, serverTime, reported, remoteFaults>>

\* The commit script.
ScriptApplies(q) == cell = q.base /\ (q.before > 0 => serverTime < q.before)

\* Mutant: the commit is not conditional on what was read.
CommitSnapshot_Blind(q) ==
  /\ q.pc = "commit"
  /\ cell' = q.next /\ GoesOn(q, Request(q.op, "applied", q.knew)) /\ reported' = reported \cup {q.op}
  /\ UNCHANGED <<observed, flight, serverTime, remoteFaults>>

\* The script applies, or refuses and the operation reads again.
CommitSnapshot(q) ==
  /\ q.pc = "commit"
  /\ IF ScriptApplies(q)
     THEN /\ cell' = q.next /\ GoesOn(q, Request(q.op, "applied", q.knew))
          /\ reported' = IF q.next.state # q.base.state THEN reported \cup {q.op} ELSE reported
     ELSE GoesOn(q, Request(q.op, "read", q.knew)) /\ UNCHANGED <<cell, reported>>
  /\ UNCHANGED <<observed, flight, serverTime, remoteFaults>>

\* The answer of a commit that applied: the client has observed the pair.
RecordCommit(q) ==
  /\ q.pc = "applied" /\ Ends(q) /\ observed' = [observed EXCEPT ![q.op[2]] = TRUE]
  /\ UNCHANGED <<cell, flight, serverTime, reported, remoteFaults>>

RemoteFault == remoteFaults < MaxRemoteFaults /\ remoteFaults' = remoteFaults + 1

\* The deadline passes; a commit already sent may still run.
RemoteDeadline(q) ==
  /\ RemoteFault /\ Ends(q)
  /\ flight' \in {flight} \cup (IF q.pc = "commit" THEN {flight \cup {q}} ELSE {})
  /\ UNCHANGED <<cell, observed, serverTime, reported>>

LateCommit(q) ==
  /\ flight' = flight \ {q}
  /\ cell' = IF ScriptApplies(q) THEN q.next ELSE cell
  /\ UNCHANGED <<running, observed, serverTime, reported, remoteFaults>>

\* The pair disappears from the server.
LoseState ==
  /\ cell # Missing /\ RemoteFault /\ cell' = Missing /\ reported' = {}
  /\ UNCHANGED <<running, observed, flight, serverTime>>

ServerTick ==
  /\ serverTime < MaxServerTime /\ serverTime' = serverTime + 1
  /\ UNCHANGED <<cell, running, observed, flight, reported, remoteFaults>>

RemoteNext ==
  \/ \E op \in RemoteOps : BeginOperation(op)
  \/ \E q \in running :
       \/ ReadState(q) \/ RecordPresence(q) \/ ApplyMutation(q)
       \/ CommitSnapshot(q) \/ RecordCommit(q) \/ RemoteDeadline(q)
  \/ \E q \in flight : LateCommit(q)
  \/ LoseState \/ ServerTick

-----------------------------------------------------------------------------
(* Properties                                                              *)

\* Whatever clients interleave and whichever commits land late, a step extends
\* the stored state by at most one mutation and every mutation reported as
\* applied is in it (commit_mutation, the commit script).  Only a loss of the
\* pair itself forgets them.
NoLostUpdate ==
  [][/\ cell' = Missing \/ cell'.state = cell.state
        \/ \E op \in RemoteOps : cell'.state = Append(cell.state, op)
     /\ reported' \subseteq ToSet(cell'.state)]_remoteVars

\* A settlement or a renewal takes effect only while the lease it was checked
\* against still runs on the server, however long its commit travelled
\* (commit_before).
SettledInsideLease ==
  [][\A k \in {"renew", "settle"}, c \in Clients :
       (<<k, c>> \in ToSet(cell'.state) /\ <<k, c>> \notin ToSet(cell.state)) =>
         cell.holder = c /\ serverTime < cell.until]_remoteVars

\* What an inspection derives from the metadata is what the state says at that
\* time, whichever client wrote the pair (validate_revision, refresh).
MetadataAgrees ==
  /\ cell.metadata.revision = cell.revision
  /\ InFlight(cell.metadata, serverTime) = LeaseActive(cell, serverTime)

\* When the pair is gone, no operation begun after its client had observed it
\* starts an empty one in its place, not even with a commit that lands late
\* (record_retention_presence, which sees the operations of a client share one
\* flag).  An operation that read nothing before another one of its client
\* observed the pair is not covered: its commit may follow the loss.
LossIsReported ==
  [][\A q \in (running \ running') \cup (flight \ flight') :
       q.pc = "commit" /\ cell = Missing /\ cell' # Missing => ~q.knew]_remoteVars

\* The remote pair changes by whole mutations, inside the leases they were checked against, and its
\* metadata follows; its loss is reported.
RemotePairSafe == NoLostUpdate /\ SettledInsideLease /\ LossIsReported /\ []MetadataAgrees
=============================================================================
