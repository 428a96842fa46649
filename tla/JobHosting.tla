----------------------------- MODULE JobHosting -----------------------------
(***************************************************************************)
(* bg-jobs-tokio: the loops that drive a job system until shutdown, and    *)
(* the workers that take deliveries from a leased queue under a heartbeat. *)
(* The queue itself is external: it leases a delivery for a time and hands *)
(* it out again when the lease has run out.                                *)
(***************************************************************************)
EXTENDS Integers, FiniteSets

CONSTANTS
  Tasks,           \* tasks that run one JobRuntime, or one QueueConsumer
  Deliveries,      \* messages of the queue
  DrainingTasks,   \* hosts whose heartbeat lets the operation finish after a loss
  SafetyWake, RecoveryWake, Heartbeat, VisibilityTime,
  MaxHostTime

ASSUME HostingAssumption ==
  /\ DrainingTasks \subseteq Tasks
  /\ {SafetyWake, RecoveryWake, Heartbeat, VisibilityTime} \subseteq Nat \ {0} /\ MaxHostTime \in Nat

VARIABLES hostClock,
          stopping,    \* shutdown_requested
          latched,     \* the permit of shutdown_notify
          runLoop,      \* each host's run_until_shutdown
          watchStop,   \* the watch channel of the taker: FALSE, TRUE or "closed"
          taker,    \* each host's run_worker; beat is the next renewal, later the outcome
          leased,     \* per delivery: when its lease ends and for which receipt, or done
          receipts,    \* receipts handed out
          refused      \* receipts under which a renewal failed

hostVars == <<hostClock, stopping, latched, runLoop, watchStop, taker, leased, receipts, refused>>
driverVars == <<stopping, latched, runLoop>>
consumerVars == <<watchStop, taker, leased, receipts, refused>>

Hints == {"now", "at", "none"}       \* WakeHint; "at" stands for any later instant
NoDelivery == "none"
MaxReceipts == 3

HostingInit ==
  /\ hostClock = 0 /\ stopping = FALSE /\ latched = FALSE
  /\ runLoop = [h \in Tasks |-> [pc |-> "driving", until |-> 0]]
  /\ watchStop = "open" /\ receipts = 0 /\ refused = {}
  /\ taker = [h \in Tasks |-> [pc |-> "top", msg |-> NoDelivery, receipt |-> 0, beat |-> 0]]
  /\ leased = [m \in Deliveries |-> [st |-> "ready", until |-> 0, receipt |-> 0]]

----------------------------------------------------------------------------
(* JobRuntime *)

Shorter(a, b) == IF a < b THEN a ELSE b

\* wake_delay: never past the safety poll, never zero.
WakeDelay(hint, at) ==
  LET d == CASE hint = "now" -> 0 [] hint = "at" -> at [] hint = "none" -> SafetyWake
      m == Shorter(d, SafetyWake)
  IN IF m < 1 THEN 1 ELSE m

Goto(h, pc) == runLoop' = [runLoop EXCEPT ![h].pc = pc]
DriverUnchanged == UNCHANGED <<hostClock, consumerVars>>

\* One turn of run_until_shutdown up to its wait.  Errors of the store that may
\* pass are waited out; a drive that saw the request reports it.
DriveOnce(h) ==
  /\ runLoop[h].pc = "driving" /\ DriverUnchanged /\ UNCHANGED <<stopping, latched>>
  /\ \/ stopping /\ Goto(h, "returned")
     \/ Goto(h, "failed")
     \/ \E d \in {RecoveryWake} \cup {WakeDelay(hint, at) : hint \in Hints, at \in 1 .. SafetyWake + 1} :
          runLoop' = [runLoop EXCEPT ![h] = [pc |-> "enter", until |-> d]]

\* wait_for_delay looks at the flag, asks the scheduler, and looks again; the
\* scheduler may refuse.
EnterWait(h) ==
  /\ runLoop[h].pc = "enter" /\ DriverUnchanged /\ UNCHANGED <<stopping, latched>>
  /\ \/ stopping /\ Goto(h, "returned")
     \/ ~stopping /\ (Goto(h, "failed") \/ Goto(h, "armed"))
ArmWait(h) ==
  /\ runLoop[h].pc = "armed" /\ DriverUnchanged /\ UNCHANGED <<stopping, latched>>
  /\ IF stopping THEN Goto(h, "returned")
     ELSE runLoop' = [runLoop EXCEPT ![h] = [pc |-> "waiting", until |-> hostClock + @.until]]

\* The timer's branch of the select looks at the flag once more.
WakeOutcome == IF stopping THEN "returned" ELSE "driving"

Wake(h) ==
  /\ runLoop[h].pc = "waiting" /\ hostClock >= runLoop[h].until
  /\ DriverUnchanged /\ UNCHANGED <<stopping, latched>>
  /\ Goto(h, WakeOutcome)
TakeShutdown(h) ==
  /\ runLoop[h].pc = "waiting" /\ latched /\ latched' = FALSE
  /\ DriverUnchanged /\ UNCHANGED stopping
  /\ Goto(h, "returned")

\* request_shutdown: the flag, then notify_one, which keeps a permit for a
\* waiter that has not registered yet.
RequestShutdown == ~stopping /\ stopping' = TRUE /\ UNCHANGED <<latched, runLoop>> /\ DriverUnchanged
NotifyShutdown ==
  /\ stopping /\ ~latched /\ (\E h \in Tasks : runLoop[h].pc \notin {"returned", "failed"})
  /\ latched' = TRUE /\ UNCHANGED <<stopping, runLoop>> /\ DriverUnchanged

----------------------------------------------------------------------------
(* QueueConsumer *)

Worker(h, c) == taker' = [taker EXCEPT ![h] = c]
FreeTaker(pc) == [pc |-> pc, msg |-> NoDelivery, receipt |-> 0, beat |-> 0]
StopRequested == watchStop # "open"
ConsumerUnchanged == UNCHANGED <<hostClock, driverVars>>

\* Receive: at most one leased delivery; a failure is waited out unless the
\* stop comes first.
ReceiveDelivery(h) ==
  /\ taker[h].pc = "top" /\ ConsumerUnchanged
  /\ \/ /\ StopRequested /\ Worker(h, FreeTaker("returned"))
        /\ UNCHANGED <<watchStop, leased, receipts, refused>>
     \/ /\ ~StopRequested /\ receipts < MaxReceipts
        /\ \E m \in Deliveries :
             /\ leased[m].st # "done" /\ hostClock >= leased[m].until
             /\ receipts' = receipts + 1
             /\ leased' = [leased EXCEPT ![m] =
                              [st |-> "held", until |-> hostClock + VisibilityTime, receipt |-> receipts']]
             /\ Worker(h, [FreeTaker("received") EXCEPT !.msg = m, !.receipt = receipts'])
        /\ UNCHANGED <<watchStop, refused>>

\* The stop is looked at again before the handler starts; a delivery that is not
\* started is left to its lease.
StartDelivery(h) ==
  /\ taker[h].pc = "received" /\ ConsumerUnchanged /\ UNCHANGED <<watchStop, leased, receipts, refused>>
  /\ Worker(h, IF StopRequested THEN FreeTaker("returned")
               ELSE [taker[h] EXCEPT !.pc = "executing", !.beat = hostClock + Heartbeat])

AfterLoss_Continues(h) == taker[h]

\* LeaseHeartbeat::run after a failed renewal: the operation is dropped, or is
\* waited for and its output thrown away.
AfterLoss(h) ==
  IF h \in DrainingTasks THEN [taker[h] EXCEPT !.pc = "draining"] ELSE FreeTaker("top")

RenewLease(h) ==
  /\ taker[h].pc = "executing" /\ hostClock >= taker[h].beat
  /\ ConsumerUnchanged /\ UNCHANGED <<watchStop, receipts>>
  /\ LET m == taker[h].msg
     IN IF leased[m].receipt = taker[h].receipt /\ leased[m].until > hostClock
        THEN \/ /\ leased' = [leased EXCEPT ![m].until = hostClock + VisibilityTime]
                /\ Worker(h, [taker[h] EXCEPT !.beat = hostClock + Heartbeat]) /\ UNCHANGED refused
             \/ UNCHANGED leased /\ Worker(h, AfterLoss(h)) /\ refused' = refused \cup {taker[h].receipt}
        ELSE UNCHANGED leased /\ Worker(h, AfterLoss(h)) /\ refused' = refused \cup {taker[h].receipt}

\* What observe finds under the job's key and under its operation's key: nothing,
\* bytes of no known version, bytes of another job, or a record in some state.
JobValues == {"absent", "damaged", "foreign", "scheduled", "held", "cancelled", "deadLettered", "suspended"}
OperationValues == {"absent", "damaged", "foreign", "live", "receipt"}

ObserveTerminal(operation) == IF operation = "receipt" THEN "terminal" ELSE "invalid"
ObserveCurrent(job, operation) ==
  IF job \in {"damaged", "foreign"} \/ operation \in {"damaged", "foreign"} THEN "invalid" ELSE job
Observe(job, operation) ==
  CASE job = "absent" /\ operation = "absent" -> "missing"
    [] job = "absent" /\ operation # "absent" -> ObserveTerminal(operation)
    [] job # "absent" -> ObserveCurrent(job, operation)

\* observe_queue_outcome, which a handler settles by: 0 completes the delivery, a
\* positive delay gives it back; a job that is missing or damaged has no outcome.
QueueOutcomeOf(sight, deadline) ==
  CASE sight \in {"terminal", "cancelled", "deadLettered"} -> {0}
    [] sight = "suspended" -> {RecoveryWake}
    [] sight \in {"scheduled", "held"} -> {IF deadline > hostClock THEN deadline - hostClock ELSE 1}
    [] OTHER -> {}
Outcomes ==
  UNION {QueueOutcomeOf(Observe(j, o), d) : j \in JobValues, o \in OperationValues, d \in 0 .. MaxHostTime}

\* The handler ends: with an outcome to settle, or with none.
FinishDelivery(h) ==
  /\ taker[h].pc \in {"executing", "draining"} /\ ConsumerUnchanged /\ UNCHANGED <<watchStop, leased, receipts, refused>>
  /\ \/ Worker(h, FreeTaker("top"))
     \/ taker[h].pc = "executing" /\ \E o \in Outcomes : Worker(h, [taker[h] EXCEPT !.pc = "settling", !.beat = o])

\* The queue obeys the receipt of the current lease; RetryAfter gives the
\* delivery back for later.
SettleDelivery(h) ==
  /\ taker[h].pc = "settling" /\ ConsumerUnchanged /\ UNCHANGED <<watchStop, receipts, refused>>
  /\ LET m == taker[h].msg
         mine == leased[m].receipt = taker[h].receipt
         delay == taker[h].beat
     IN leased' = [leased EXCEPT ![m] =
          IF ~mine THEN @ ELSE IF delay = 0 THEN [@ EXCEPT !.st = "done"] ELSE [@ EXCEPT !.until = hostClock + delay]]
  /\ Worker(h, FreeTaker("top"))

StopConsumer ==
  /\ watchStop = "open" /\ watchStop' \in {"stop", "closed"}
  /\ ConsumerUnchanged /\ UNCHANGED <<taker, leased, receipts, refused>>

HostTick ==
  /\ hostClock < MaxHostTime /\ hostClock' = hostClock + 1
  /\ UNCHANGED <<driverVars, consumerVars>>

DriverNext ==
  \/ \E h \in Tasks : DriveOnce(h) \/ EnterWait(h) \/ ArmWait(h) \/ Wake(h) \/ TakeShutdown(h)
  \/ RequestShutdown \/ NotifyShutdown
ConsumerNext ==
  \/ \E h \in Tasks : ReceiveDelivery(h) \/ StartDelivery(h) \/ RenewLease(h) \/ FinishDelivery(h) \/ SettleDelivery(h)
  \/ StopConsumer

----------------------------------------------------------------------------
(***************************************************************************)
(* Shutdown is not slept through: a loop that waits when it is requested,  *)
(* or that has not begun to wait, returns without another drive, whichever *)
(* of timer and notice the select sees and whenever the permit was left.   *)
(***************************************************************************)
ShutdownEndsWaits ==
  [][\A h \in Tasks : stopping => /\ runLoop[h].pc = "waiting" => runLoop'[h].pc # "driving"
                                  /\ runLoop[h].pc \in {"enter", "armed"} => runLoop'[h].pc # "waiting"]_driverVars

(***************************************************************************)
(* A loss is final: once a renewal under a receipt has failed, nothing is  *)
(* settled under it, neither by a handler that was let finish nor by one   *)
(* that ended at the same instant, and the delivery stays recoverable.     *)
(***************************************************************************)
LossIsFinal ==
  /\ \A h \in Tasks : taker[h].pc = "settling" => taker[h].receipt \notin refused
  /\ \A m \in Deliveries : leased[m].st = "done" => leased[m].receipt \notin refused

\* Hosts stop when they are told to, and never settle what they have lost (run, LeaseHeartbeat).
HostsSafe == ShutdownEndsWaits /\ [][LossIsFinal']_consumerVars
=============================================================================
