--------------------------- MODULE WriterLifecycle ---------------------------
(***************************************************************************)
(* The lifecycle driver of buffered-writes: hosts send triggers through a  *)
(* one-slot channel, the attached driver runs one trigger at a time and    *)
(* keeps listening while it works, and the writer's own shutdown and the   *)
(* runtime guard may end the driver at any await.                          *)
(***************************************************************************)
EXTENDS Integers, FiniteSets

CONSTANTS
  DrainTimes,       \* shutdown deadlines hosts and callers ask for
  FlushesBetween,   \* can_flush_between_responses of the source
  Periodic,         \* whether a periodic flush is configured
  MaxTriggers       \* triggers sent, signals and ticks of one behaviour

ASSUME LifecycleAssumption == DrainTimes \subseteq Nat \ {0} /\ MaxTriggers \in Nat
                                /\ FlushesBetween \in BOOLEAN /\ Periodic \in BOOLEAN

VARIABLES
  channel,     \* ChannelState: the mailbox of the controller
  driver,      \* LifecycleDriver: its own mailbox and the work it runs
  handle,      \* the driver slot, driver_state, guard and their shared flags
  drain,       \* the engine: begun, its deadline, shutdown calls that returned
  closing,     \* BufferedWrites::shutdown
  asked,       \* whether an open channel was sent a shutdown
  triggers

lifecycleVars == <<channel, driver, handle, drain, closing, asked, triggers>>

NoDeadline == 0
Trigger(kind, deadline) == [kind |-> kind, deadline |-> deadline]
NoTrigger == Trigger("none", NoDeadline)
HostWork == {Trigger(k, NoDeadline) : k \in {"response", "tick", "flush"}}
Shutdowns == {Trigger("shutdown", d) : d \in DrainTimes}

EmptyMailbox == [pending |-> NoTrigger, terminating |-> FALSE]
Detached == [pc |-> "absent", box |-> EmptyMailbox, ended |-> FALSE, run |-> NoTrigger, joined |-> FALSE]

LifecycleInit ==
  /\ channel = [box |-> EmptyMailbox, closed |-> FALSE] /\ driver = Detached
  /\ handle = [slot |-> FALSE, stored |-> FALSE, guard |-> "none", cancelled |-> FALSE, completed |-> FALSE,
               reported |-> FALSE]
  /\ drain = [begun |-> FALSE, until |-> NoDeadline, done |-> FALSE]
  /\ closing = [pc |-> "idle", until |-> NoDeadline] /\ asked = FALSE /\ triggers = 0

Shorten(a, b) == IF a = NoDeadline \/ b < a THEN b ELSE a

\* Mutant: a trigger always replaces the one before.
Push_Latest(box, trigger) == [box EXCEPT !.pending = trigger]

\* LifecycleMailbox::push.
Push(box, trigger) ==
  CASE trigger.kind = "shutdown" ->
         [pending |-> IF box.pending.kind = "shutdown"
                      THEN Trigger("shutdown", Shorten(box.pending.deadline, trigger.deadline)) ELSE trigger,
          terminating |-> TRUE]
    [] trigger.kind # "shutdown" /\ (box.terminating \/ box.pending.kind = "flush") -> box
    [] OTHER -> [box EXCEPT !.pending = trigger]

Taken(box) == [box EXCEPT !.pending = NoTrigger]
CountTrigger == triggers < MaxTriggers /\ triggers' = triggers + 1

-----------------------------------------------------------------------------
(* Hosts                                                                   *)

\* LifecycleController::send.
Send(trigger) ==
  /\ CountTrigger /\ channel' = IF channel.closed THEN channel ELSE [channel EXCEPT !.box = Push(@, trigger)]
  /\ asked' = (asked \/ (trigger.kind = "shutdown" /\ ~channel.closed))
  /\ UNCHANGED <<driver, handle, drain, closing>>

CloseChannel ==
  /\ ~channel.closed /\ channel' = [channel EXCEPT !.closed = TRUE]
  /\ UNCHANGED <<driver, handle, drain, closing, asked, triggers>>

\* start: claim_lifecycle_slot, then the task is spawned.
StartDriver ==
  /\ ~handle.slot /\ (Periodic => FlushesBetween)
  /\ handle' = [handle EXCEPT !.slot = TRUE]
  /\ driver' = [Detached EXCEPT !.pc = "select"]
  /\ UNCHANGED <<channel, drain, closing, asked, triggers>>

\* attach_driver: the caller keeps the guard, the writer the handle.
AttachDriver ==
  /\ handle.slot /\ handle.guard = "none"
  /\ handle' = [handle EXCEPT !.stored = TRUE, !.guard = "held"]
  /\ UNCHANGED <<channel, driver, drain, closing, asked, triggers>>

Aborted == [driver EXCEPT !.pc = IF @ = "absent" THEN @ ELSE "gone", !.run = NoTrigger]

\* RuntimeGuard::drop; cancel does the same and keeps the guard.
DropGuard ==
  /\ handle.guard = "held"
  /\ handle' = [handle EXCEPT !.guard = "dropped", !.cancelled = TRUE, !.reported = ~handle.completed]
  /\ driver' = Aborted
  /\ UNCHANGED <<channel, drain, closing, asked, triggers>>

CancelGuard ==
  /\ handle.guard = "held" /\ ~handle.cancelled
  /\ handle' = [handle EXCEPT !.cancelled = TRUE] /\ driver' = Aborted
  /\ UNCHANGED <<channel, drain, closing, asked, triggers>>

-----------------------------------------------------------------------------
(* The driver                                                              *)

Arrived == channel.box.pending # NoTrigger
BeginDrain(deadline) == [drain EXCEPT !.begun = TRUE, !.until = Shorten(@, deadline)]

\* receive_event; next_event is ready with an event, or with the end.
ReceiveEvent(d) ==
  IF Arrived THEN /\ driver' = [d EXCEPT !.box = Push(@, channel.box.pending)]
                  /\ channel' = [channel EXCEPT !.box = Taken(@)]
  ELSE driver' = [d EXCEPT !.ended = TRUE] /\ UNCHANGED channel

\* drive between two works: cancelled, pending work, a closed source, or select.
DriveTurn ==
  /\ driver.pc = "select" /\ ~handle.cancelled
  /\ IF driver.box.pending # NoTrigger
     THEN /\ driver' = [driver EXCEPT !.pc = "work", !.run = driver.box.pending, !.box = Taken(@)]
          /\ drain' = IF driver.box.pending.kind = "shutdown" THEN BeginDrain(driver.box.pending.deadline) ELSE drain
          /\ UNCHANGED <<channel, handle, triggers>>
     ELSE /\ UNCHANGED drain
          /\ \/ /\ driver.ended /\ driver' = [driver EXCEPT !.pc = "gone"]
                /\ handle' = [handle EXCEPT !.cancelled = TRUE] /\ UNCHANGED <<channel, triggers>>
             \/ ~driver.ended /\ (Arrived \/ channel.closed) /\ ReceiveEvent(driver) /\ UNCHANGED <<handle, triggers>>
             \/ /\ ~driver.ended /\ FlushesBetween /\ CountTrigger /\ UNCHANGED <<channel, handle>>
                /\ \E t \in HostWork : /\ t.kind = "tick" => Periodic
                                   /\ driver' = [driver EXCEPT !.box = Push(@, t)]
  /\ UNCHANGED <<closing, asked>>

StopCancelled ==
  /\ driver.pc = "select" /\ handle.cancelled /\ driver' = [driver EXCEPT !.pc = "gone"]
  /\ UNCHANGED <<channel, handle, drain, closing, asked, triggers>>

IsShutdown(d) == d.run.kind = "shutdown" \/ d.joined

\* complete_work while the work runs: a shutdown begins the drain at once and
\* joins it to the work.
ListenAtWork ==
  /\ driver.pc = "work" /\ ~driver.ended /\ (Arrived \/ channel.closed)
  /\ LET stop == Arrived /\ channel.box.pending.kind = "shutdown"
     IN /\ ReceiveEvent([driver EXCEPT !.joined = @ \/ (stop /\ ~IsShutdown(driver))])
        /\ drain' = IF stop THEN BeginDrain(channel.box.pending.deadline) ELSE drain
  /\ UNCHANGED <<handle, closing, asked, triggers>>

\* execute_trigger returned, and a joined shutdown with it.
WorkDone ==
  /\ driver.pc = "work"
  /\ drain' = IF IsShutdown(driver) THEN [drain EXCEPT !.done = TRUE] ELSE drain
  /\ IF IsShutdown(driver)
     THEN driver' = [driver EXCEPT !.pc = "gone", !.run = NoTrigger]
          /\ handle' = [handle EXCEPT !.completed = TRUE, !.cancelled = TRUE]
     ELSE driver' = [driver EXCEPT !.pc = "select", !.run = NoTrigger] /\ UNCHANGED handle
  /\ UNCHANGED <<channel, closing, asked, triggers>>

-----------------------------------------------------------------------------
(* BufferedWrites::shutdown                                                *)

CallShutdown(deadline) ==
  /\ closing.pc = "idle" /\ CountTrigger
  /\ closing' = [pc |-> "drain", until |-> deadline] /\ drain' = BeginDrain(deadline)
  /\ UNCHANGED <<channel, driver, handle, asked>>

DrainReturns ==
  /\ closing.pc = "drain" /\ closing' = [closing EXCEPT !.pc = "complete"]
  /\ drain' = [drain EXCEPT !.done = TRUE]
  /\ UNCHANGED <<channel, driver, handle, asked, triggers>>

\* complete_attached_driver: nothing when no handle is stored yet.
CompleteDriver ==
  /\ closing.pc = "complete" /\ closing' = [closing EXCEPT !.pc = "returned"]
  /\ IF handle.stored
     THEN /\ handle' = [handle EXCEPT !.stored = FALSE, !.completed = TRUE, !.cancelled = TRUE]
          /\ driver' = Aborted
     ELSE UNCHANGED <<handle, driver>>
  /\ UNCHANGED <<channel, drain, asked, triggers>>

LifecycleNext ==
  \/ \E t \in HostWork \cup Shutdowns : Send(t)
  \/ CloseChannel \/ StartDriver \/ AttachDriver \/ DropGuard \/ CancelGuard
  \/ DriveTurn \/ StopCancelled \/ ListenAtWork \/ WorkDone
  \/ \E d \in DrainTimes : CallShutdown(d)
  \/ DrainReturns \/ CompleteDriver

-----------------------------------------------------------------------------
(* Properties                                                              *)

\* The guard and is_active say shut down only when a drain has returned,
\* whether the driver met the shutdown idle, at work or not at all
\* (complete_work, complete_attached_driver, RuntimeGuard::drop).
CompletedTruthful == handle.completed => drain.done

\* A shutdown a host sent to an open channel is never swallowed by the
\* triggers around it: until the driver ends, the channel or the driver's
\* mailbox holds it, or the drain has begun (LifecycleMailbox::push,
\* receive_event, complete_work).
ShutdownKept ==
  asked /\ driver.pc \in {"select", "work"} =>
    drain.begun \/ "shutdown" \in {channel.box.pending.kind, driver.box.pending.kind}

\* A shutdown is neither swallowed on its way to the driver nor reported before its drain returned
\* (LifecycleMailbox, RuntimeGuard).
ShutdownTruthful == CompletedTruthful /\ ShutdownKept
=============================================================================
