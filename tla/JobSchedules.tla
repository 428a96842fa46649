---------------------------- MODULE JobSchedules ----------------------------
(***************************************************************************)
(* bg-jobs recurring schedules: a host keeps a ScheduleCursor, asks        *)
(* materialize to enqueue what is due and saves the cursor it gets back.   *)
(* The host may stop anywhere in between, time may run out, an enqueue may *)
(* fail, and operators pause and disable the schedule meanwhile.  Also the *)
(* idle back-off of polling jobs, which lives in their checkpoint.         *)
(***************************************************************************)
EXTENDS Integers, Sequences, FiniteSets, FiniteSetsExt, SequencesExt

CONSTANTS
  CronTicks,          \* the instants the cron expression names, up to the horizon
  MisfirePolicies,    \* policies to choose from: the maximum_occurrences of CatchUp, or one of the two below
  ForbidOverlap,      \* OverlapPolicy
  Budgets,            \* materialization budgets
  OccurrenceScan,     \* MAX_OCCURRENCE_SCAN
  MaxScheduleTime, MaxScheduleOps, MaxIdle

\* ScheduleMaterializationBudget::try_new; the deadline is the DeadlinePassed step.
AllBudgets == [occurrences : Nat \ {0}, operations : Nat \ {0}]

ASSUME ScheduleAssumption ==
  /\ CronTicks \subseteq Nat \ {0} /\ Budgets \subseteq AllBudgets
  /\ OccurrenceScan \in Nat \ {0} /\ MisfirePolicies \subseteq -1 .. OccurrenceScan /\ ForbidOverlap \in BOOLEAN

VARIABLES
  misfire,       \* the misfire policy of the schedule, once there is one
  firstDue,      \* the first instant of the schedule, for the properties
  cursor,        \* the ScheduleCursor the host has saved
  pass,          \* the materialize call under way
  occurrences,   \* instants whose job has been enqueued
  skippedCount,  \* skipped, summed over the passes whose cursor was saved
  unscanned,     \* instants a saved cursor went past although its pass had not scanned them
  cronClock, scheduleOps,
  pollState      \* the checkpoint of a polling job

scheduleVars == <<misfire, firstDue, cursor, pass, occurrences, skippedCount, unscanned, cronClock, scheduleOps, pollState>>

SkipMissed == 0
FireOnceOnly == -1
NoPolicy == -2

Never == 1000000    \* no further instant
NoPass == [pc |-> "idle", from |-> <<>>, todo |-> <<>>, done |-> <<>>, next |-> <<>>, skipped |-> 0, beyond |-> {}, wake |-> Never]

\* cron.next_after: the first instant after t.
NextAfter(t) == LET later == {c \in CronTicks : c > t} IN IF later = {} THEN Never ELSE Min(later)

NewCursor(due) ==
  [nextDue |-> due, watermark |-> 0, revision |-> 0, generation |-> 0, paused |-> FALSE, enabled |-> TRUE, active |-> FALSE]

ScheduleInit ==
  /\ misfire = NoPolicy /\ firstDue = Never /\ cursor = NewCursor(Never) /\ pass = NoPass /\ occurrences = {} /\ skippedCount = 0 /\ unscanned = {}
  /\ cronClock = 0 /\ scheduleOps = 0
  /\ pollState = [empty |-> 0, work |-> FALSE, notBefore |-> 0]

----------------------------------------------------------------------------
\* EvaluationLimits: how many occurrences a CatchUp pass selects, and whether
\* it stops there.
SelectedLimit(limit) == IF misfire > 0 THEN Min({misfire, limit}) ELSE 0
StopsAfterSelection(limit) == misfire > 0 /\ limit < misfire

\* The instants from next_due to now.
Missed(due, now) == {c \in CronTicks : due <= c /\ c <= now}

\* collect_backlog: as many of them as a scan takes, cut after the selection
\* when the pass will be resumed.
Backlog(due, now, limit) ==
  LET all == SetToSortSeq(Missed(due, now), <)
      most == IF StopsAfterSelection(limit) THEN Min({SelectedLimit(limit), OccurrenceScan}) ELSE OccurrenceScan
  IN SubSeq(all, 1, Min({most, Len(all)}))

Chosen(backlog, limit) ==
  CASE misfire = SkipMissed -> <<>>
    [] misfire = FireOnceOnly -> <<Last(backlog)>>
    [] OTHER -> SubSeq(backlog, 1, Min({SelectedLimit(limit), Len(backlog)}))

\* advance_cursor.
AdvanceCursor(c, due, mark) ==
  [c EXCEPT !.nextDue = due, !.watermark = mark, !.revision = @ + 1]

\* evaluate_with_limit: what a pass will do, and the cursor after it.
IdleEvaluation(c, wake) == [todo |-> <<>>, skipped |-> 0, beyond |-> {}, next |-> c, wake |-> wake]
FinishEvaluation(c, now, backlog, limit) ==
  LET chosen == Chosen(backlog, limit)
      resumable == StopsAfterSelection(limit) /\ NextAfter(Last(backlog)) <= now
      due == IF resumable THEN NextAfter(Last(backlog)) ELSE NextAfter(now)
  IN [todo |-> chosen, skipped |-> Len(backlog) - Len(chosen), beyond |-> Missed(c.nextDue, now) \ Range(backlog),
      next |-> AdvanceCursor(c, due, IF misfire = SkipMissed THEN backlog[1] ELSE Last(chosen)),
      wake |-> IF resumable THEN now ELSE due]

EvaluateCursor(c, now, limit) ==
  LET backlog == Backlog(c.nextDue, now, limit)
  IN IF ~c.enabled \/ c.paused \/ (ForbidOverlap /\ c.active) \/ c.nextDue = Never THEN IdleEvaluation(c, Never)
     ELSE IF backlog = <<>> THEN IdleEvaluation(c, NextAfter(now - 1))
     ELSE FinishEvaluation(c, now, backlog, limit)

ResumeCursor_KeepsDue(p) ==
  IF p.done = <<>> THEN p.from ELSE [p.next EXCEPT !.watermark = Last(p.done)]

\* resume_cursor: the pass ends early, after its last enqueue.
ResumeCursor(p) ==
  IF p.done = <<>> THEN p.from
  ELSE [p.next EXCEPT !.nextDue = NextAfter(Last(p.done)), !.watermark = Last(p.done)]

----------------------------------------------------------------------------
Op == scheduleOps < MaxScheduleOps /\ scheduleOps' = scheduleOps + 1
Elsewhere == UNCHANGED <<misfire, firstDue, pollState>>

\* cursor_after: a schedule begins with its first instant.
CreateSchedule(policy) ==
  /\ misfire = NoPolicy /\ misfire' = policy
  /\ firstDue' = NextAfter(cronClock) /\ cursor' = NewCursor(firstDue')
  /\ UNCHANGED <<pass, occurrences, skippedCount, unscanned, cronClock, scheduleOps, pollState>>

\* materialization_item_limit: each occurrence is charged the most store
\* operations an enqueue takes.
EnqueueOperations == 4
ItemLimit(b) == Min({b.occurrences, b.operations \div EnqueueOperations})

\* materialize: evaluates the saved cursor under a budget.
Materialize(limit) ==
  /\ pass.pc = "idle" /\ misfire # NoPolicy /\ Op
  /\ LET e == IF limit = 0 THEN IdleEvaluation(cursor, cronClock) ELSE EvaluateCursor(cursor, cronClock, limit)
     IN pass' = [pc |-> "enqueue", from |-> cursor, todo |-> e.todo, done |-> <<>>, next |-> e.next,
                 skipped |-> e.skipped, beyond |-> e.beyond, wake |-> e.wake]
  /\ UNCHANGED <<cursor, occurrences, skippedCount, unscanned, cronClock>> /\ Elsewhere

\* One occurrence: its job identity is derived from the schedule and the
\* instant, so a repeated enqueue meets the same job.
EnqueueOccurrence ==
  /\ pass.pc = "enqueue" /\ pass.todo # <<>>
  /\ occurrences' = occurrences \cup {Head(pass.todo)}
  /\ pass' = [pass EXCEPT !.todo = Tail(@), !.done = Append(@, Head(pass.todo))]
  /\ UNCHANGED <<cursor, skippedCount, unscanned, cronClock, scheduleOps>> /\ Elsewhere

\* The enqueue may fail after it took effect; materialize returns the error
\* and no cursor.
EnqueueFails ==
  /\ pass.pc = "enqueue" /\ pass.todo # <<>> /\ Op /\ pass' = NoPass
  /\ \/ UNCHANGED occurrences
     \/ occurrences' = occurrences \cup {Head(pass.todo)}
  /\ UNCHANGED <<cursor, skippedCount, unscanned, cronClock>> /\ Elsewhere

DeadlinePassed ==
  /\ pass.pc = "enqueue" /\ pass.todo # <<>>
  /\ pass' = [pass EXCEPT !.pc = "save", !.next = ResumeCursor(pass), !.skipped = 0, !.wake = cronClock]
  /\ UNCHANGED <<cursor, occurrences, skippedCount, unscanned, cronClock, scheduleOps>> /\ Elsewhere

Materialized ==
  /\ pass.pc = "enqueue" /\ pass.todo = <<>> /\ pass' = [pass EXCEPT !.pc = "save"]
  /\ UNCHANGED <<cursor, occurrences, skippedCount, unscanned, cronClock, scheduleOps>> /\ Elsewhere

\* The host saves the cursor unless it has changed since the pass began.
SaveCursor ==
  /\ pass.pc = "save" /\ pass' = NoPass
  /\ IF pass.from = cursor
     THEN /\ cursor' = pass.next /\ skippedCount' = skippedCount + pass.skipped
          /\ unscanned' = unscanned \cup {c \in pass.beyond : c < pass.next.nextDue}
     ELSE UNCHANGED <<cursor, skippedCount, unscanned>>
  /\ UNCHANGED <<occurrences, cronClock, scheduleOps>> /\ Elsewhere

HostStops ==
  /\ pass.pc # "idle" /\ Op /\ pass' = NoPass
  /\ UNCHANGED <<cursor, occurrences, skippedCount, unscanned, cronClock>> /\ Elsewhere

\* apply_control with the revision and generation it was meant for.
ApplyControl ==
  /\ misfire # NoPolicy /\ Op
  /\ \E change \in {[paused |-> TRUE], [paused |-> FALSE], [enabled |-> TRUE], [enabled |-> FALSE]} :
       cursor' = [f \in DOMAIN cursor |->
                    IF f \in DOMAIN change THEN change[f]
                    ELSE IF f = "active" THEN FALSE
                    ELSE IF f \in {"revision", "generation"} THEN cursor[f] + 1 ELSE cursor[f]]
  /\ UNCHANGED <<pass, occurrences, skippedCount, unscanned, cronClock>> /\ Elsewhere

\* mark_started and mark_completed; the caller quotes the current revision.
MarkStarted ==
  /\ misfire # NoPolicy /\ Op /\ ~cursor.paused /\ cursor.enabled /\ ~cursor.active
  /\ cursor' = [cursor EXCEPT !.active = TRUE, !.revision = @ + 1]
  /\ UNCHANGED <<pass, occurrences, skippedCount, unscanned, cronClock>> /\ Elsewhere

MarkCompleted ==
  /\ Op /\ cursor.active
  /\ cursor' = [cursor EXCEPT !.active = FALSE, !.revision = @ + 1]
  /\ UNCHANGED <<pass, occurrences, skippedCount, unscanned, cronClock>> /\ Elsewhere

CronTick ==
  /\ cronClock < MaxScheduleTime /\ cronClock' = cronClock + 1
  /\ UNCHANGED <<cursor, pass, occurrences, skippedCount, unscanned, scheduleOps>> /\ Elsewhere

----------------------------------------------------------------------------
\* idle_poll_delay: doubled per empty cycle up to the cap; the jitter is left out.
PollBase == 1
PollCap == 4
IdleDelay(base, empty) == Min({base * 2 ^ Min({empty, 32}), Max({PollCap, base})})

\* continue_poll: a page of a cycle, the last one or not, to go on after a
\* delay.  The checkpoint carries the number of empty cycles and whether this
\* cycle has found work.
PollCheckpoint(found, delay, complete) ==
  LET work == pollState.work \/ found
      empty == IF ~complete THEN pollState.empty ELSE IF work THEN 0 ELSE pollState.empty + 1
  IN [empty |-> empty, work |-> ~complete /\ work,
      notBefore |-> cronClock + (IF complete THEN IdleDelay(delay, empty) ELSE delay)]

\* The continued job runs again when it is due.
ContinuePoll(found, delay, complete) ==
  /\ Op /\ pollState.empty < MaxIdle /\ pollState.notBefore <= cronClock
  /\ pollState' = PollCheckpoint(found, delay, complete)
  /\ UNCHANGED <<misfire, firstDue, cursor, pass, occurrences, skippedCount, unscanned, cronClock>>

\* PollingJob: every poll is a whole cycle, and an active one is followed by
\* the next at once; a cancelled one settles otherwise.
PollHandler(activity) ==
  IF activity = "active" THEN ContinuePoll(TRUE, 0, TRUE) ELSE ContinuePoll(FALSE, PollBase, TRUE)

----------------------------------------------------------------------------
ScheduleNext ==
  \/ \E policy \in MisfirePolicies : CreateSchedule(policy)
  \/ \E b \in Budgets : Materialize(ItemLimit(b))
  \/ EnqueueOccurrence \/ EnqueueFails \/ DeadlinePassed \/ Materialized \/ SaveCursor \/ HostStops
  \/ ApplyControl \/ MarkStarted \/ MarkCompleted \/ CronTick

\* Polling jobs, apart from the schedules.
PollNext ==
  \/ \E found \in BOOLEAN : ContinuePoll(found, PollBase, FALSE)
  \/ \E activity \in {"active", "idle"} : PollHandler(activity)
  \/ CronTick

\* The instants the saved cursor has left behind.
Passed == {c \in CronTicks : firstDue <= c /\ c < cursor.nextDue}

\* Within the scan of a pass (evaluation.rs:206) no instant is passed over
\* silently, whatever is interrupted: it has been enqueued or is among those
\* reported as skipped; and a schedule that catches up reports exactly the ones
\* it did not enqueue.  Instants beyond the scan are neither, since the cursor
\* then moves past now (evaluation.rs:185): only those are exempt.
OccurrencesAccounted ==
  LET unaccounted == Passed \ (occurrences \cup unscanned)
  IN Cardinality(unaccounted) <= skippedCount /\ (misfire > 0 => Cardinality(unaccounted) = skippedCount)
=============================================================================
