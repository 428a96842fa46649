-------------------------- MODULE LambdaInvocations --------------------------
(***************************************************************************)
(* The Lambda extension of buffered-writes: the runner opens one phase per *)
(* Invoke event and waits for its report, handlers reach the extension     *)
(* over IPC, and a server that takes one connection at a time binds,       *)
(* admits writes and completes the phase.  The writer behind it is the set *)
(* of writes it admitted, those the watermark of a flush turn has covered,*)
(* and those that have landed at the destination: which are old enough is  *)
(* the writer's own affair (BufferEngine), so a turn settles any of them.  *)
(***************************************************************************)
EXTENDS Integers, FiniteSets, Sequences

CONSTANTS
  RequestOf,     \* the request of each Invoke event, in order
  Attempts,      \* attempt identifiers handlers bind with, as they come
  Calls,         \* IPC exchanges of one behaviour
  PhaseTicks, MaxLambdaTime

ASSUME LambdaAssumption == PhaseTicks \in Nat \ {0} /\ MaxLambdaTime \in Nat /\ Calls \subseteq Nat \ {0}

VARIABLES
  phase,        \* InvocationState
  previous,     \* previous_attempt
  runner,       \* run_events
  call,         \* the exchanges: client and server side
  serving,      \* the connection the server works on
  written,      \* calls whose write the writer admitted
  marked,      \* those under the watermark of the latest completion's flush turn
  landed,       \* those the writer has settled
  lambdaTime

lambdaVars == <<phase, previous, runner, call, serving, written, marked, landed, lambdaTime>>

Nothing == "nothing"
NoCall == 0
\* FlushReportSummary: what the turn settled, and whether the buffer failed under it.
NoSummary == [failed |-> FALSE, items |-> {}]
IdlePhase == [kind |-> "idle", event |-> 0, request |-> Nothing, deadline |-> 0, attempt |-> Nothing,
              report |-> FALSE, summary |-> NoSummary, expired |-> FALSE]
UnusedCall == [pc |-> "unused", cmd |-> Nothing, request |-> Nothing, attempt |-> Nothing, session |-> 0,
               outcome |-> Nothing, summary |-> NoSummary]

LambdaInit ==
  /\ phase = IdlePhase /\ previous = Nothing /\ runner = [pc |-> "next", event |-> 0]
  /\ call = [c \in Calls |-> UnusedCall] /\ serving = NoCall /\ written = {} /\ marked = {} /\ landed = {}
  /\ lambdaTime = 0

-----------------------------------------------------------------------------
(* InvocationCoordination.  A session is the event of the phase that issued  *)
(* it: one phase issues at most one.                                         *)

IsTerminal(p) == p.expired \/ (p.attempt # Nothing /\ p.report)

\* begin: refused while a phase is unfinished, for its own event, or when stopped.
Begins(e) == phase.kind = "idle" \/ (phase.kind = "phase" /\ phase.event # e /\ IsTerminal(phase))

\* Phase::permission.
Permission(s) ==
  IF phase.kind # "phase" \/ phase.attempt = Nothing \/ phase.expired \/ phase.event # s THEN "refused"
  ELSE IF phase.report THEN "completed"
  ELSE IF lambdaTime >= phase.deadline THEN "refused" ELSE "active"

\* try_bind, Phase::bind, issue_session.
TryBind(request, attempt) ==
  CASE phase.kind = "stopped" -> "refused"
    [] phase.kind = "idle" -> "wait"
    [] phase.kind = "phase" /\ phase.attempt = attempt ->
         IF phase.request # request \/ phase.expired THEN "refused" ELSE "bound"
    [] phase.kind = "phase" /\ phase.attempt # attempt ->
         IF previous = attempt THEN "refused"
         ELSE IF IsTerminal(phase) THEN "wait"
         ELSE IF phase.request # request \/ phase.attempt # Nothing \/ lambdaTime >= phase.deadline
         THEN "refused" ELSE "issue"

-----------------------------------------------------------------------------
(* The runner                                                              *)

\* The Extensions API hands out events one by one, with their deadline.
NextEvent == runner.event + 1

\* An Invoke event: begin_invocation.
InvokeEvent ==
  LET e == NextEvent
  IN /\ runner.pc = "next" /\ e \in DOMAIN RequestOf
     /\ IF Begins(e)
        THEN /\ previous' = IF phase.kind = "phase" /\ phase.attempt # Nothing THEN phase.attempt ELSE previous
             /\ phase' = [IdlePhase EXCEPT !.kind = "phase", !.event = e, !.request = RequestOf[e],
                                           !.deadline = lambdaTime + PhaseTicks]
             /\ runner' = [pc |-> "await", event |-> e]
        ELSE runner' = [runner EXCEPT !.pc = "failed"] /\ UNCHANGED <<phase, previous>>
     /\ UNCHANGED <<call, serving, written, marked, landed, lambdaTime>>

\* completed: the report, a state that is not this event's, or the deadline.
AwaitCompletion ==
  /\ runner.pc = "await"
  /\ \/ phase.kind = "phase" /\ phase.event = runner.event /\ ~phase.expired /\ phase.report
        /\ runner' = [runner EXCEPT !.pc = "next"]
     \/ (phase.kind # "phase" \/ phase.event # runner.event \/ phase.expired)
        /\ runner' = [runner EXCEPT !.pc = "failed"]
     \/ lambdaTime >= phase.deadline /\ ~phase.report /\ runner' = [runner EXCEPT !.pc = "expire"]
  /\ UNCHANGED <<phase, previous, call, serving, written, marked, landed, lambdaTime>>

\* expire takes the lock again: a report may have come in between.
Expire ==
  /\ runner.pc = "expire" /\ runner' = [runner EXCEPT !.pc = "next"]
  /\ phase' = IF phase.kind = "phase" /\ phase.event = runner.event /\ ~IsTerminal(phase)
              THEN [phase EXCEPT !.expired = TRUE] ELSE phase
  /\ UNCHANGED <<previous, call, serving, written, marked, landed, lambdaTime>>

\* The admission under way in an exchange that ends may have taken effect.
CutShort ==
  {written} \cup {written \cup {c} : c \in {x \in Calls : serving = x /\ call[x].pc = "submit"}}

\* A Shutdown event: stop ends the service, whose connection is dropped, and
\* the writer drains as far as its budget reaches.
ShutdownEvent ==
  /\ runner.pc = "next" /\ runner' = [runner EXCEPT !.pc = "drained"]
  /\ phase' = [phase EXCEPT !.kind = "stopped"] /\ serving' = NoCall
  /\ \E w \in CutShort : written' = w /\ \E items \in SUBSET (w \ landed) : landed' = landed \cup items
  /\ UNCHANGED <<previous, call, marked, lambdaTime>>

-----------------------------------------------------------------------------
(* Clients                                                                 *)

Sessions == {call[c].session : c \in {x \in Calls : call[x].cmd = "bind" /\ call[x].outcome = "bound"}}
Fresh(c) == call[c].pc = "unused" /\ \A x \in Calls : x < c => call[x].pc # "unused"
\* Attempts are only told apart: which one a handler draws first does not matter.
Bound == {call[x].attempt : x \in {y \in Calls : call[y].cmd = "bind"}}
Put(c, fields) == call' = [call EXCEPT ![c] = fields]

\* ExchangeFailure::into_write_error.
IntoWriteError(dispatched) == IF dispatched THEN "ambiguous" ELSE "refused"

\* begin_invocation, add_write_item and after_response build their request and
\* connect, or fail to.
Connect(c) ==
  /\ Fresh(c)
  /\ \E pc \in {"sent", "gone"} :
       LET out == [UnusedCall EXCEPT !.pc = pc, !.outcome = IF pc = "sent" THEN Nothing ELSE IntoWriteError(FALSE)]
       IN \/ \E i \in DOMAIN RequestOf, n \in DOMAIN Attempts :
               /\ n <= Cardinality(Bound) + 1
               /\ Put(c, [out EXCEPT !.cmd = "bind", !.request = RequestOf[i], !.attempt = Attempts[n]])
          \/ \E s \in Sessions, cmd \in {"submit", "complete"} : Put(c, [out EXCEPT !.cmd = cmd, !.session = s])
  /\ UNCHANGED <<phase, previous, runner, serving, written, marked, landed, lambdaTime>>

\* The caller's deadline passes after the request was dispatched, or its
\* connection is dropped.
GiveUpCall(c) ==
  /\ call[c].pc \in {"sent", "served", "submit", "complete", "report"} /\ call[c].outcome = Nothing
  /\ Put(c, [call[c] EXCEPT !.outcome = IntoWriteError(TRUE)])
  /\ UNCHANGED <<phase, previous, runner, serving, written, marked, landed, lambdaTime>>

-----------------------------------------------------------------------------
(* The server                                                              *)

Serving == phase.kind # "stopped"
Answer(c, outcome) ==
  /\ serving' = NoCall
  /\ Put(c, [call[c] EXCEPT !.pc = "gone", !.outcome = IF @ = Nothing THEN outcome ELSE @])

\* IpcResponse::Completed, with the summary it carries.
Complete(c, summary) ==
  /\ serving' = NoCall
  /\ Put(c, [call[c] EXCEPT !.pc = "gone", !.summary = summary, !.outcome = IF @ = Nothing THEN "completed" ELSE @])

\* serve_connections takes the next connection; its client may be gone.
Accept(c) ==
  /\ Serving /\ serving = NoCall /\ call[c].pc = "sent"
  /\ serving' = c /\ Put(c, [call[c] EXCEPT !.pc = "served"])
  /\ UNCHANGED <<phase, previous, runner, written, marked, landed, lambdaTime>>

\* bind waits inside the exchange.
ServeBind(c) ==
  LET r == TryBind(call[c].request, call[c].attempt)
  IN /\ Serving /\ serving = c /\ call[c].cmd = "bind" /\ call[c].pc = "served" /\ r # "wait"
     /\ serving' = NoCall
     /\ IF r = "refused" THEN Answer(c, "refused") /\ UNCHANGED phase
        ELSE /\ phase' = [phase EXCEPT !.attempt = call[c].attempt]
             /\ Put(c, [call[c] EXCEPT !.pc = "gone", !.session = phase.event,
                                       !.outcome = IF @ = Nothing THEN "bound" ELSE @])
     /\ UNCHANGED <<previous, runner, written, marked, landed, lambdaTime>>

\* apply_command: the permission of the session.
ApplyCommand(c) ==
  LET p == Permission(call[c].session)
  IN /\ Serving /\ serving = c /\ call[c].pc = "served" /\ call[c].cmd # "bind"
     /\ IF p = "active" THEN Put(c, [call[c] EXCEPT !.pc = call[c].cmd]) /\ UNCHANGED serving
        ELSE IF p = "completed" /\ call[c].cmd = "complete" THEN Complete(c, phase.summary) ELSE Answer(c, "refused")
     /\ UNCHANGED <<phase, previous, runner, written, marked, landed, lambdaTime>>

\* What the writer makes of a write, and what WriteFailure carries back of it:
\* an error that does not know says so.
WriterOutcomes(c) == {<<written \cup {c}, "admitted">>, <<written, "refused">>}
                       \cup ({written, written \cup {c}} \X {"ambiguous"})

\* admit_current: the writer admits or refuses within the shortened deadline.
AdmitCurrent(c) ==
  /\ Serving /\ serving = c /\ call[c].pc = "submit"
  /\ \E o \in WriterOutcomes(c) : written' = o[1] /\ Answer(c, o[2])
  /\ UNCHANGED <<phase, previous, runner, marked, landed, lambdaTime>>

\* Mutant: the completion reports without its flush turn.
FlushCurrent_Skipped(c) ==
  /\ Serving /\ serving = c /\ call[c].pc = "complete" /\ Put(c, [call[c] EXCEPT !.pc = "report"])
  /\ UNCHANGED <<phase, previous, runner, serving, written, marked, landed, lambdaTime>>

\* complete_current: after_response inspects the buffer for its watermark and
\* settles what is eligible below it, or fails at the buffer.  The deadline,
\* checked once more before it, may pass at any moment and ends the exchange.
FlushCurrent(c) ==
  /\ Serving /\ serving = c /\ call[c].pc = "complete"
  /\ \E failed \in BOOLEAN, items \in SUBSET (written \ landed) :
       /\ marked' = IF failed THEN marked ELSE written
       /\ landed' = landed \cup items
       /\ Put(c, [call[c] EXCEPT !.pc = "report", !.summary = [failed |-> failed, items |-> items]])
  /\ UNCHANGED <<phase, previous, runner, serving, written, lambdaTime>>

ReportCurrent(c) ==
  /\ Serving /\ serving = c /\ call[c].pc = "report"
  /\ IF Permission(call[c].session) # "refused"
     THEN phase' = [phase EXCEPT !.report = TRUE, !.summary = call[c].summary] /\ Complete(c, call[c].summary)
     ELSE Answer(c, "ambiguous") /\ UNCHANGED phase
  /\ UNCHANGED <<previous, runner, written, marked, landed, lambdaTime>>

\* The exchange's own timeout, or the connection breaks: an admission or a
\* flush turn under way may have taken effect.
ExchangeEnds(c) ==
  /\ serving = c /\ Answer(c, "ambiguous")
  /\ written' \in CutShort
  /\ \E items \in SUBSET (written \ landed) :
       (call[c].pc # "complete" => items = {}) /\ landed' = landed \cup items
  /\ UNCHANGED <<phase, previous, runner, marked, lambdaTime>>

LambdaTick ==
  /\ lambdaTime < MaxLambdaTime /\ lambdaTime' = lambdaTime + 1
  /\ UNCHANGED <<phase, previous, runner, call, serving, written, marked, landed>>

LambdaNext ==
  \/ InvokeEvent \/ AwaitCompletion \/ Expire \/ ShutdownEvent \/ LambdaTick
  \/ \E c \in Calls : Connect(c) \/ GiveUpCall(c) \/ Accept(c) \/ ServeBind(c) \/ ApplyCommand(c)
                        \/ AdmitCurrent(c) \/ FlushCurrent(c) \/ ReportCurrent(c) \/ ExchangeEnds(c)

-----------------------------------------------------------------------------
(* Properties                                                              *)

\* Whatever handlers do, the runner never meets a phase it left unfinished:
\* begin is not refused and completed finds its own event (run_events,
\* InvocationCoordination::begin, expire).
RunnerKeepsGoing == runner.pc # "failed"

\* A write the handler was told is not accepted was not admitted, however the
\* exchange ended (into_write_error, WriteFailure).
RefusedMeansAbsent == \A c \in Calls : call[c].cmd = "submit" /\ call[c].outcome = "refused" => c \notin written

\* The flush turn a completion reports without an error had its watermark above
\* every write its session was acknowledged, and not only above those of an
\* earlier completion: no acknowledged write slips in between the watermark and
\* the report (complete_current, after_response, complete).  What the turn
\* settles of them is up to their age.
ReportCoversWrites ==
  phase.kind = "phase" /\ phase.report /\ ~phase.summary.failed =>
    \A c \in Calls :
      call[c].cmd = "submit" /\ call[c].session = phase.event /\ call[c].outcome = "admitted" => c \in marked

\* However often a handler completes, late sessions of other phases included,
\* its phase is completed once and every answer carries the summary of that one
\* turn (Phase::permission, InvocationPermission::Completed).
CompletedOnce ==
  phase.kind = "phase" =>
    \A c \in Calls :
      call[c].cmd = "complete" /\ call[c].session = phase.event /\ call[c].outcome = "completed"
        => phase.report /\ call[c].summary = phase.summary

\* What the runner and the handlers are told of writes and phases is so, and no phase stops the runner (run_events).
InvocationsTruthful == RunnerKeepsGoing /\ RefusedMeansAbsent /\ ReportCoversWrites /\ CompletedOnce
=============================================================================
