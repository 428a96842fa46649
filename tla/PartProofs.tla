----------------------------- MODULE PartProofs -----------------------------
(***************************************************************************)
(* Proofs about the parts that stand alone.  Each part has a specification *)
(* of its own, an inductive invariant and a theorem for the property the   *)
(* runs check; the parts share no state.                                   *)
(***************************************************************************)
EXTENDS WriterLifecycle, SpotNotices, JobHosting, ReplayQueue, RemoteState, DiskJournal, SequenceTheorems, TLAPS

-----------------------------------------------------------------------------
(* The lifecycle driver                                                    *)

LifecycleSpec == LifecycleInit /\ [][LifecycleNext]_lifecycleVars

TriggerKinds == {"none", "response", "tick", "flush", "shutdown"}
Triggers == [kind : TriggerKinds, deadline : Nat]
Mailboxes == [pending : Triggers, terminating : BOOLEAN]
Drivers ==
  [pc : {"absent", "select", "work", "gone"}, box : Mailboxes, ended : BOOLEAN, run : Triggers, joined : BOOLEAN]
Handles ==
  [slot : BOOLEAN, stored : BOOLEAN, guard : {"none", "held", "dropped"}, cancelled : BOOLEAN, completed : BOOLEAN,
   reported : BOOLEAN]

LifecycleTyped ==
  /\ channel \in [box : Mailboxes, closed : BOOLEAN] /\ driver \in Drivers /\ handle \in Handles
  /\ drain \in [begun : BOOLEAN, until : Nat, done : BOOLEAN]
  /\ closing \in [pc : {"idle", "drain", "complete", "returned"}, until : Nat] /\ asked \in BOOLEAN /\ triggers \in Nat

\* A mailbox that holds a shutdown takes nothing in its place.
Guarded(box) == box.pending.kind = "shutdown" => box.terminating

LifecycleInv ==
  /\ LifecycleTyped /\ Guarded(channel.box) /\ Guarded(driver.box)
  /\ ~handle.slot => driver.pc = "absent"
  /\ driver.pc = "absent" => driver.box = EmptyMailbox
  /\ asked /\ driver.pc # "gone" =>
       drain.begun \/ "shutdown" \in {channel.box.pending.kind, driver.box.pending.kind}
  /\ closing.pc \in {"complete", "returned"} => drain.done
  /\ CompletedTruthful

\* Every trigger a host or the source makes is well formed (LifecycleTrigger).
LEMMA TriggersTyped ==
  /\ HostWork \cup Shutdowns \subseteq Triggers
  /\ NoTrigger \in Triggers
PROOF BY LifecycleAssumption DEF HostWork, Shutdowns, Triggers, TriggerKinds, Trigger, NoTrigger, NoDeadline

\* A trigger that is pushed leaves a guarded mailbox guarded, and never takes
\* the place of a shutdown; a shutdown is always kept (LifecycleMailbox::push).
LEMMA PushKeeps ==
  ASSUME NEW box \in Mailboxes, NEW t \in Triggers, Guarded(box)
  PROVE  /\ Push(box, t) \in Mailboxes /\ Guarded(Push(box, t))
         /\ box.pending.kind = "shutdown" \/ t.kind = "shutdown" => Push(box, t).pending.kind = "shutdown"
PROOF
  <1>1. CASE t.kind = "shutdown"
    <2>1. Trigger("shutdown", Shorten(box.pending.deadline, t.deadline)) \in Triggers
      BY DEF Triggers, TriggerKinds, Trigger, Shorten, Mailboxes, NoDeadline
    <2>2. Push(box, t) = [pending |-> IF box.pending.kind = "shutdown"
                                      THEN Trigger("shutdown", Shorten(box.pending.deadline, t.deadline)) ELSE t,
                          terminating |-> TRUE]
      BY <1>1 DEF Push
    <2> QED BY <1>1, <2>1, <2>2 DEF Mailboxes, Guarded, Trigger
  <1>2. CASE t.kind # "shutdown" /\ (box.terminating \/ box.pending.kind = "flush")
    <2>1. Push(box, t) = box
      BY <1>2 DEF Push
    <2> QED BY <1>2, <2>1
  <1>3. CASE t.kind # "shutdown" /\ ~(box.terminating \/ box.pending.kind = "flush")
    <2>1. Push(box, t) = [box EXCEPT !.pending = t]
      BY <1>3 DEF Push
    <2> QED BY <1>3, <2>1 DEF Mailboxes, Guarded
  <1> QED BY <1>1, <1>2, <1>3

\* A mailbox whose trigger was taken stays guarded (LifecycleMailbox::take).
LEMMA TakenKeeps ==
  ASSUME NEW box \in Mailboxes, Guarded(box)
  PROVE  Taken(box) \in Mailboxes /\ Guarded(Taken(box))
PROOF BY TriggersTyped DEF Taken, Mailboxes, Guarded, NoTrigger, Trigger

\* A drain that has begun stays so, and so does one that is done (begin_drain).
LEMMA DrainBegins ==
  ASSUME LifecycleTyped, NEW d \in Nat
  PROVE  /\ BeginDrain(d) \in [begun : BOOLEAN, until : Nat, done : BOOLEAN]
         /\ BeginDrain(d).begun /\ BeginDrain(d).done = drain.done
PROOF BY DEF BeginDrain, Shorten, LifecycleTyped, NoDeadline

\* A driver starts with nothing in its mailbox (LifecycleDriver::new).
LEMMA StartsEmpty ==
  /\ EmptyMailbox \in Mailboxes /\ Guarded(EmptyMailbox) /\ EmptyMailbox.pending.kind = "none"
  /\ Detached \in Drivers /\ Detached.box = EmptyMailbox /\ Detached.pc = "absent"
  /\ [Detached EXCEPT !.pc = "select"] \in Drivers
  /\ [Detached EXCEPT !.pc = "select"].box = EmptyMailbox /\ [Detached EXCEPT !.pc = "select"].pc = "select"
PROOF
  <1>1. EmptyMailbox \in Mailboxes /\ EmptyMailbox.pending = NoTrigger
    BY TriggersTyped DEF EmptyMailbox, Mailboxes
  <1>2. NoTrigger.kind = "none"
    BY DEF NoTrigger, Trigger
  <1>3. Detached \in Drivers /\ Detached.box = EmptyMailbox /\ Detached.pc = "absent"
    BY <1>1, TriggersTyped DEF Detached, Drivers
  <1>4. /\ [Detached EXCEPT !.pc = "select"] \in Drivers
        /\ [Detached EXCEPT !.pc = "select"].box = EmptyMailbox /\ [Detached EXCEPT !.pc = "select"].pc = "select"
    BY <1>3 DEF Drivers
  <1> QED BY <1>1, <1>2, <1>3, <1>4 DEF Guarded

\* The invariant holds at the start.
LEMMA LifecycleInitial == LifecycleInit => LifecycleInv
PROOF
  <1> SUFFICES ASSUME LifecycleInit PROVE LifecycleInv
    OBVIOUS
  <1>1. channel \in [box : Mailboxes, closed : BOOLEAN] /\ channel.box = EmptyMailbox /\ driver = Detached
    BY StartsEmpty DEF LifecycleInit
  <1>2. handle \in Handles /\ ~handle.completed
    BY DEF LifecycleInit, Handles
  <1>3. drain \in [begun : BOOLEAN, until : Nat, done : BOOLEAN] /\ closing.pc = "idle"
        /\ closing \in [pc : {"idle", "drain", "complete", "returned"}, until : Nat]
    BY DEF LifecycleInit, NoDeadline
  <1> QED BY <1>1, <1>2, <1>3, StartsEmpty DEF LifecycleInit, LifecycleInv, LifecycleTyped, CompletedTruthful

\* Every step of the hosts, the driver and the writer's shutdown keeps it.
LEMMA LifecycleInductive == LifecycleInv /\ [LifecycleNext]_lifecycleVars => LifecycleInv'
PROOF
  <1> SUFFICES ASSUME LifecycleInv, [LifecycleNext]_lifecycleVars PROVE LifecycleInv'
    OBVIOUS
  <1> USE DEF LifecycleInv, CompletedTruthful
  <1>1. CASE \E t \in HostWork \cup Shutdowns : Send(t)
    <2> PICK t \in HostWork \cup Shutdowns : Send(t)
      BY <1>1
    <2>1. t \in Triggers
      BY TriggersTyped
    <2>2. channel.box \in Mailboxes
      BY DEF LifecycleTyped
    <2>3. /\ Push(channel.box, t) \in Mailboxes /\ Guarded(Push(channel.box, t))
          /\ channel.box.pending.kind = "shutdown" \/ t.kind = "shutdown" =>
               Push(channel.box, t).pending.kind = "shutdown"
      BY <2>1, <2>2, PushKeeps
    <2>4. CASE channel.closed
      BY <2>4 DEF Send, LifecycleTyped, CountTrigger
    <2>5. CASE ~channel.closed
      <3>1. channel' = [channel EXCEPT !.box = Push(channel.box, t)]
        BY <2>5 DEF Send
      <3>2. channel'.box = Push(channel.box, t) /\ channel' \in [box : Mailboxes, closed : BOOLEAN]
        BY <3>1, <2>3 DEF LifecycleTyped
      <3> QED BY <3>2, <2>3, <2>5 DEF Send, LifecycleTyped, CountTrigger
    <2> QED BY <2>4, <2>5 DEF LifecycleTyped
  <1>2. CASE CloseChannel
    BY <1>2 DEF CloseChannel, LifecycleTyped
  <1>3. CASE StartDriver
    BY <1>3, StartsEmpty DEF StartDriver, LifecycleTyped, Handles
  <1>4. CASE AttachDriver
    BY <1>4 DEF AttachDriver, LifecycleTyped, Handles
  <1>5. Aborted \in Drivers /\ Aborted.box = driver.box /\ Aborted.pc \in {"absent", "gone"}
        /\ (driver.pc = "absent" <=> Aborted.pc = "absent")
    BY TriggersTyped DEF Aborted, LifecycleTyped, Drivers
  <1>6. CASE DropGuard
    BY <1>5, <1>6 DEF DropGuard, LifecycleTyped, Handles
  <1>7. CASE CancelGuard
    BY <1>5, <1>7 DEF CancelGuard, LifecycleTyped, Handles
  <1>8. CASE DriveTurn
    <2>1. driver.box \in Mailboxes /\ channel.box \in Mailboxes /\ driver.box.pending \in Triggers
          /\ channel.box.pending \in Triggers
      BY DEF LifecycleTyped, Drivers, Mailboxes
    <2>2. CASE driver.box.pending # NoTrigger
      <3>1. driver.box.pending.deadline \in Nat
        BY <2>1 DEF Triggers
      <3>2. Taken(driver.box) \in Mailboxes /\ Guarded(Taken(driver.box))
        BY <2>1, TakenKeeps
      <3>3. /\ driver' = [driver EXCEPT !.pc = "work", !.run = driver.box.pending, !.box = Taken(driver.box)]
            /\ drain' = IF driver.box.pending.kind = "shutdown" THEN BeginDrain(driver.box.pending.deadline) ELSE drain
            /\ UNCHANGED <<channel, handle, triggers, closing, asked>> /\ driver.pc = "select"
        BY <1>8, <2>2 DEF DriveTurn
      <3>4. driver' \in Drivers /\ driver'.box = Taken(driver.box) /\ driver'.pc = "work"
        BY <2>1, <3>2, <3>3 DEF LifecycleTyped, Drivers
      <3> QED BY <3>1, <3>2, <3>3, <3>4, DrainBegins DEF LifecycleTyped
    <2>3. CASE driver.box.pending = NoTrigger /\ driver.ended /\ driver' = [driver EXCEPT !.pc = "gone"]
               /\ handle' = [handle EXCEPT !.cancelled = TRUE] /\ UNCHANGED <<drain, closing, asked, channel, triggers>>
               /\ driver.pc = "select"
      BY <2>3 DEF LifecycleTyped, Drivers, Handles
    <2>4. CASE ReceiveEvent(driver) /\ UNCHANGED <<drain, closing, asked, handle, triggers>> /\ driver.pc = "select"
      <3>1. CASE Arrived
        <4>1. /\ Push(driver.box, channel.box.pending) \in Mailboxes /\ Guarded(Push(driver.box, channel.box.pending))
              /\ driver.box.pending.kind = "shutdown" \/ channel.box.pending.kind = "shutdown" =>
                   Push(driver.box, channel.box.pending).pending.kind = "shutdown"
          BY <2>1, PushKeeps
        <4>2. Taken(channel.box) \in Mailboxes /\ Guarded(Taken(channel.box))
          BY <2>1, TakenKeeps
        <4>3. /\ driver' = [driver EXCEPT !.box = Push(driver.box, channel.box.pending)]
              /\ channel' = [channel EXCEPT !.box = Taken(channel.box)]
          BY <2>4, <3>1 DEF ReceiveEvent
        <4>4. /\ driver' \in Drivers /\ driver'.box = Push(driver.box, channel.box.pending) /\ driver'.pc = "select"
              /\ channel' \in [box : Mailboxes, closed : BOOLEAN] /\ channel'.box = Taken(channel.box)
          BY <2>4, <4>1, <4>2, <4>3 DEF LifecycleTyped, Drivers
        <4> QED BY <2>4, <4>1, <4>2, <4>4 DEF LifecycleTyped
      <3>2. CASE ~Arrived
        BY <2>4, <3>2 DEF ReceiveEvent, LifecycleTyped, Drivers
      <3> QED BY <3>1, <3>2
    <2>5. CASE /\ CountTrigger /\ UNCHANGED <<channel, handle, drain, closing, asked>> /\ driver.pc = "select"
               /\ \E t \in HostWork : driver' = [driver EXCEPT !.box = Push(@, t)]
      <3> PICK t \in HostWork : driver' = [driver EXCEPT !.box = Push(driver.box, t)]
        BY <2>5
      <3>1. /\ Push(driver.box, t) \in Mailboxes /\ Guarded(Push(driver.box, t))
            /\ driver.box.pending.kind = "shutdown" => Push(driver.box, t).pending.kind = "shutdown"
        BY <2>1, TriggersTyped, PushKeeps
      <3>2. driver' \in Drivers /\ driver'.box = Push(driver.box, t) /\ driver'.pc = "select"
        BY <2>5, <3>1 DEF LifecycleTyped, Drivers
      <3> QED BY <2>5, <3>1, <3>2 DEF LifecycleTyped, CountTrigger
    <2>6. \/ driver.box.pending # NoTrigger
          \/ driver.box.pending = NoTrigger /\ driver.ended /\ driver' = [driver EXCEPT !.pc = "gone"]
               /\ handle' = [handle EXCEPT !.cancelled = TRUE] /\ UNCHANGED <<drain, closing, asked, channel, triggers>>
               /\ driver.pc = "select"
          \/ ReceiveEvent(driver) /\ UNCHANGED <<drain, closing, asked, handle, triggers>> /\ driver.pc = "select"
          \/ /\ CountTrigger /\ UNCHANGED <<channel, handle, drain, closing, asked>> /\ driver.pc = "select"
             /\ \E t \in HostWork : driver' = [driver EXCEPT !.box = Push(@, t)]
      BY <1>8, Zenon DEF DriveTurn
    <2> QED BY <2>2, <2>3, <2>4, <2>5, <2>6
  <1>9. CASE StopCancelled
    BY <1>9 DEF StopCancelled, LifecycleTyped, Drivers
  <1>10. CASE ListenAtWork
    <2>1. driver.box \in Mailboxes /\ channel.box \in Mailboxes /\ driver.box.pending \in Triggers
          /\ channel.box.pending \in Triggers /\ channel.box.pending.deadline \in Nat
      BY DEF LifecycleTyped, Drivers, Mailboxes, Triggers
    <2> DEFINE stop == Arrived /\ channel.box.pending.kind = "shutdown"
               next == [driver EXCEPT !.joined = @ \/ (stop /\ ~IsShutdown(driver))]
    <2>2. next \in Drivers /\ next.box = driver.box /\ next.pc = "work" /\ driver.pc = "work"
      BY <1>10 DEF LifecycleTyped, Drivers, ListenAtWork
    <2>3. /\ ReceiveEvent(next) /\ drain' = IF stop THEN BeginDrain(channel.box.pending.deadline) ELSE drain
          /\ UNCHANGED <<handle, closing, asked, triggers>>
      BY <1>10 DEF ListenAtWork
    <2> HIDE DEF next
    <2>4. drain' \in [begun : BOOLEAN, until : Nat, done : BOOLEAN] /\ (drain.begun => drain'.begun)
          /\ (drain.done => drain'.done) /\ (stop => drain'.begun)
      BY <2>1, <2>3, DrainBegins DEF LifecycleTyped
    <2>5. CASE Arrived
      <3>1. /\ Push(driver.box, channel.box.pending) \in Mailboxes /\ Guarded(Push(driver.box, channel.box.pending))
            /\ driver.box.pending.kind = "shutdown" \/ channel.box.pending.kind = "shutdown" =>
                 Push(driver.box, channel.box.pending).pending.kind = "shutdown"
        BY <2>1, PushKeeps
      <3>2. Taken(channel.box) \in Mailboxes /\ Guarded(Taken(channel.box))
        BY <2>1, TakenKeeps
      <3>3. /\ driver' = [next EXCEPT !.box = Push(driver.box, channel.box.pending)]
            /\ channel' = [channel EXCEPT !.box = Taken(channel.box)]
        BY <2>2, <2>3, <2>5 DEF ReceiveEvent
      <3>4. /\ driver' \in Drivers /\ driver'.box = Push(driver.box, channel.box.pending) /\ driver'.pc = "work"
            /\ channel' \in [box : Mailboxes, closed : BOOLEAN] /\ channel'.box = Taken(channel.box)
        BY <2>2, <3>1, <3>2, <3>3 DEF LifecycleTyped, Drivers
      <3> QED BY <2>2, <2>3, <2>4, <3>1, <3>2, <3>4 DEF LifecycleTyped
    <2>6. CASE ~Arrived
      <3>1. driver' = [next EXCEPT !.ended = TRUE] /\ UNCHANGED channel
        BY <2>3, <2>6 DEF ReceiveEvent
      <3>2. driver' \in Drivers /\ driver'.box = driver.box /\ driver'.pc = "work"
        BY <2>2, <3>1 DEF Drivers
      <3> QED BY <2>2, <2>3, <2>4, <3>1, <3>2 DEF LifecycleTyped
    <2> QED BY <2>5, <2>6
  <1>11. CASE WorkDone
    <2>1. CASE IsShutdown(driver)
      BY <1>11, <2>1, TriggersTyped, ZenonT(60) DEF WorkDone, LifecycleTyped, Drivers, Handles
    <2>2. CASE ~IsShutdown(driver)
      BY <1>11, <2>2, TriggersTyped DEF WorkDone, LifecycleTyped, Drivers
    <2> QED BY <2>1, <2>2
  <1>12. CASE \E d \in DrainTimes : CallShutdown(d)
    <2> PICK d \in DrainTimes : CallShutdown(d)
      BY <1>12
    <2>1. d \in Nat
      BY LifecycleAssumption
    <2> QED BY <2>1, DrainBegins DEF CallShutdown, LifecycleTyped, CountTrigger
  <1>13. CASE DrainReturns
    BY <1>13 DEF DrainReturns, LifecycleTyped
  <1>14. CASE CompleteDriver
    <2>1. CASE handle.stored
      BY <1>5, <1>14, <2>1, ZenonT(60) DEF CompleteDriver, LifecycleTyped, Handles
    <2>2. CASE ~handle.stored
      BY <1>14, <2>2 DEF CompleteDriver, LifecycleTyped
    <2> QED BY <2>1, <2>2
  <1>15. CASE UNCHANGED lifecycleVars
    BY <1>15 DEF lifecycleVars, LifecycleTyped
  <1> QED BY <1>1, <1>2, <1>3, <1>4, <1>6, <1>7, <1>8, <1>9, <1>10, <1>11, <1>12, <1>13, <1>14, <1>15 DEF LifecycleNext

\* A shutdown a host sent is never swallowed before its drain, and nothing is
\* called shut down before a drain returned (LifecycleMailbox, complete_work).
THEOREM ShutdownsTruthful == LifecycleSpec => []ShutdownTruthful
PROOF
  <1>1. LifecycleInv => ShutdownTruthful
    BY DEF LifecycleInv, ShutdownTruthful, ShutdownKept
  <1> QED BY <1>1, LifecycleInitial, LifecycleInductive, PTL DEF LifecycleSpec

-----------------------------------------------------------------------------
(* Spot notices                                                            *)

SpotSpec == SpotInit /\ [][SpotNext]_spotVars

PollStates == [phase : {"none", "token", "action", "done", "aborted"}, result : Notices \cup {"none", "nothing", "error"}]
PollSlots == [next : Nat, active : Polls \cup {NoPoll}, closed : BOOLEAN, waiters : Int, count : Nat]

SpotTyped ==
  /\ polling \in PollSlots /\ poll \in [Polls -> PollStates] /\ unseen \subseteq Notices
  /\ spotTime \in 0 .. MaxSpotTime /\ polling.active <= polling.count /\ polling.count <= polling.next

\* A poll that runs is the one in flight; a poll not yet started holds nothing;
\* a notice is held by a poll that is done, and that one is still in flight
\* unless its notice was returned or the poll given up on purpose.
PollsInFlight ==
  \A p \in Polls : /\ poll[p].phase \in {"token", "action"} => polling.active = p
                   /\ p > polling.count => poll[p] = NoPollYet
                   /\ poll[p].result \in Notices =>
                        poll[p].phase = "done" /\ (poll[p].result \in seen \/ polling.active = p \/ released)

SpotInv == SpotTyped /\ PollsInFlight

\* The invariant holds before the first poll.
LEMMA SpotInitial == SpotInit => SpotInv
PROOF
  <1> SUFFICES ASSUME SpotInit PROVE SpotInv
    OBVIOUS
  <1>1. NoPollYet \in PollStates /\ NoPollYet.phase = "none" /\ NoPollYet.result \notin Notices
    BY SpotAssumption DEF NoPollYet, PollStates
  <1>2. polling \in PollSlots /\ polling.count = 0 /\ polling.next = 0 /\ polling.active = 0
    BY DEF SpotInit, PollSlots, NoPoll
  <1>3. poll \in [Polls -> PollStates] /\ \A p \in Polls : poll[p] = NoPollYet
    BY <1>1 DEF SpotInit
  <1> QED BY <1>1, <1>2, <1>3, SpotAssumption DEF SpotInit, SpotInv, SpotTyped, PollsInFlight

\* A poll that is aborted has no notice any more, a poll that is done keeps its
\* own, and the others are left alone (ActivePoll::cancel).
LEMMA AbortKeeps ==
  ASSUME SpotTyped
  PROVE  /\ Abort(poll, polling.active) \in [Polls -> PollStates]
         /\ \A p \in Polls : \/ Abort(poll, polling.active)[p] = poll[p]
                                /\ (p = polling.active => poll[p].phase = "done")
                             \/ /\ p = polling.active /\ poll[p].phase # "done"
                                /\ Abort(poll, polling.active)[p].phase = "aborted"
                                /\ Abort(poll, polling.active)[p].result \notin Notices
PROOF
  <1>1. CASE polling.active = NoPoll \/ poll[polling.active].phase = "done"
    <2>1. Abort(poll, polling.active) = poll
      BY <1>1 DEF Abort
    <2>2. NoPoll \notin Polls
      BY SpotAssumption DEF NoPoll, Polls
    <2> QED BY <1>1, <2>1, <2>2 DEF SpotTyped
  <1>2. CASE ~(polling.active = NoPoll \/ poll[polling.active].phase = "done")
    <2>1. Abort(poll, polling.active) = [poll EXCEPT ![polling.active] = [phase |-> "aborted", result |-> "none"]]
      BY <1>2 DEF Abort
    <2>2. [phase |-> "aborted", result |-> "none"] \in PollStates
      BY DEF PollStates
    <2> QED BY <1>2, <2>1, <2>2, SpotAssumption DEF SpotTyped, PollSlots
  <1> QED BY <1>1, <1>2

\* A poll given up on purpose leaves the invariant in place.
LEMMA GivenUp ==
  ASSUME SpotInv, released' = TRUE, poll' = Abort(poll, polling.active), polling' \in PollSlots,
         polling'.active = NoPoll, polling'.count = polling.count, polling'.next = polling.next,
         UNCHANGED <<unseen, spotTime>>
  PROVE  SpotInv'
PROOF
  <1>1. SpotTyped'
    BY AbortKeeps DEF SpotInv, SpotTyped, PollSlots, NoPoll
  <1>2. ASSUME NEW p \in Polls
        PROVE  /\ poll'[p].phase \in {"token", "action"} => polling'.active = p
               /\ p > polling'.count => poll'[p] = NoPollYet
               /\ poll'[p].result \in Notices => poll'[p].phase = "done"
    <2>1. CASE poll'[p] = poll[p] /\ (p = polling.active => poll[p].phase = "done")
      BY <2>1 DEF SpotInv, PollsInFlight
    <2>2. CASE p = polling.active /\ poll[p].phase # "done" /\ poll'[p].phase = "aborted" /\ poll'[p].result \notin Notices
      <3>1. ~(p > polling'.count)
        BY <2>2 DEF SpotInv, SpotTyped, PollSlots, Polls
      <3> QED BY <2>2, <3>1
    <2> QED BY <2>1, <2>2, AbortKeeps DEF SpotInv
  <1> QED BY <1>1, <1>2 DEF SpotInv, PollsInFlight

\* A step that leaves the polls, the poll in flight and what was handed out alone.
LEMMA PollsAlone ==
  ASSUME SpotInv, polling' \in PollSlots, polling'.active = polling.active, polling'.count = polling.count,
         polling'.next = polling.next, UNCHANGED <<poll, unseen, seen>>, released => released',
         spotTime' \in 0 .. MaxSpotTime
  PROVE  SpotInv'
PROOF BY DEF SpotInv, SpotTyped, PollsInFlight

\* A poll that ends with a result that is no notice, or advances, in its own place.
LEMMA PollAdvances ==
  ASSUME SpotInv, NEW p \in Polls, poll[p].phase \in {"token", "action"}, NEW s \in PollStates,
         poll' = [poll EXCEPT ![p] = s], s.phase \in {"action", "done"}, s.result \in Notices => s.phase = "done",
         unseen' \subseteq unseen, UNCHANGED <<polling, seen, released, spotTime>>
  PROVE  SpotInv'
PROOF
  <1>1. poll' \in [Polls -> PollStates] /\ poll'[p] = s /\ \A q \in Polls : q # p => poll'[q] = poll[q]
    BY DEF SpotInv, SpotTyped
  <1>2. polling.active = p /\ ~(p > polling.count)
    BY DEF SpotInv, SpotTyped, PollsInFlight, PollSlots, Polls
  <1>3. ASSUME NEW q \in Polls
        PROVE  /\ poll'[q].phase \in {"token", "action"} => polling'.active = q
               /\ q > polling'.count => poll'[q] = NoPollYet
               /\ poll'[q].result \in Notices =>
                    poll'[q].phase = "done" /\ (poll'[q].result \in seen' \/ polling'.active = q \/ released')
    <2>1. CASE q = p
      BY <1>1, <1>2, <2>1
    <2>2. CASE q # p
      BY <1>1, <2>2 DEF SpotInv, PollsInFlight
    <2> QED BY <2>1, <2>2
  <1> QED BY <1>1, <1>3 DEF SpotInv, SpotTyped, PollsInFlight

\* Every step of the waiters, the source and the host keeps the invariant.
LEMMA SpotInductive == SpotInv /\ [SpotNext]_spotVars => SpotInv'
PROOF
  <1> SUFFICES ASSUME SpotInv, [SpotNext]_spotVars PROVE SpotInv'
    OBVIOUS
  <1>0. polling \in PollSlots /\ spotTime \in 0 .. MaxSpotTime
    BY DEF SpotInv, SpotTyped
  <1>1. Released \in PollSlots /\ Released.active = NoPoll /\ Released.count = polling.count /\ Released.next = polling.next
    BY <1>0 DEF PollSlots, Released
  <1>2. ASSUME NEW w \in SpotWaiters, BeginWaiter(w) PROVE SpotInv'
    <2>1. polling' \in PollSlots /\ polling'.active = polling.active /\ polling'.count = polling.count
          /\ polling'.next = polling.next
      BY <1>0, <1>2 DEF BeginWaiter, PollSlots
    <2> QED BY <1>0, <1>2, <2>1, PollsAlone DEF BeginWaiter
  <1>3. ASSUME NEW w \in SpotWaiters, NextTurn(w) PROVE SpotInv'
    <2>1. CASE UNCHANGED <<polling, poll>>
      BY <1>0, <1>3, <2>1, PollsAlone DEF NextTurn
    <2>2. CASE ~UNCHANGED <<polling, poll>>
      <3> DEFINE p == polling.count + 1
      <3>1. /\ polling.active = NoPoll /\ polling.next <= spotTime
            /\ polling' = [polling EXCEPT !.next = spotTime + PollInterval, !.active = p, !.count = p]
            /\ poll' = [poll EXCEPT ![p].phase = "token"]
            /\ UNCHANGED <<unseen, seen, released, spotTime>>
        BY <1>3, <2>2 DEF NextTurn
      <3>2. p \in Polls /\ p \in Nat /\ spotTime + PollInterval \in Nat /\ p <= spotTime + PollInterval
        BY <1>0, <3>1, SpotAssumption DEF SpotInv, SpotTyped, Polls, PollSlots
      <3>3. polling' \in PollSlots /\ polling'.active = p /\ polling'.count = p /\ polling'.next = spotTime + PollInterval
        BY <1>0, <3>1, <3>2 DEF PollSlots
      <3>4. poll[p] = NoPollYet
        BY <1>0, <3>2 DEF SpotInv, PollsInFlight, PollSlots
      <3>5. NoPoll \notin Polls /\ polling.count \in Nat
        BY <1>0, SpotAssumption DEF NoPoll, Polls, PollSlots
      <3>6. /\ poll' \in [Polls -> PollStates] /\ poll'[p].phase = "token" /\ poll'[p].result = "none"
            /\ \A q \in Polls : q # p => poll'[q] = poll[q]
        BY <3>1, <3>2, <3>4 DEF SpotInv, SpotTyped, PollStates, NoPollYet
      <3>7. ASSUME NEW q \in Polls
            PROVE  /\ poll'[q].phase \in {"token", "action"} => polling'.active = q
                   /\ q > polling'.count => poll'[q] = NoPollYet
                   /\ poll'[q].result \in Notices =>
                        poll'[q].phase = "done" /\ (poll'[q].result \in seen' \/ polling'.active = q \/ released')
        <4>1. CASE q = p
          BY <3>2, <3>3, <3>6, <4>1, SpotAssumption
        <4>2. CASE q # p
          <5>1. q > p => q > polling.count
            BY <3>5 DEF Polls
          <5> QED BY <3>1, <3>3, <3>5, <3>6, <4>2, <5>1 DEF SpotInv, PollsInFlight
        <4> QED BY <4>1, <4>2
      <3> QED BY <3>1, <3>2, <3>3, <3>6, <3>7 DEF SpotInv, SpotTyped, PollsInFlight
    <2> QED BY <2>1, <2>2
  <1>4. ASSUME NEW w \in SpotWaiters, SleepOver(w) PROVE SpotInv'
    BY <1>0, <1>4, PollsAlone DEF SleepOver
  <1>5. ASSUME NEW w \in SpotWaiters, HostEvent(w) PROVE SpotInv'
    <2>1. CASE host.pending \in {"shutdown", "none"}
      <3>1. /\ poll' = Abort(poll, polling.active) /\ polling' = [Released EXCEPT !.waiters = @ - 1] /\ released' = TRUE
            /\ UNCHANGED <<unseen, spotTime>>
        BY <1>5, <2>1 DEF HostEvent
      <3>2. polling' \in PollSlots /\ polling'.active = NoPoll /\ polling'.count = polling.count /\ polling'.next = polling.next
        BY <1>1, <3>1 DEF PollSlots
      <3> QED BY <3>1, <3>2, GivenUp
    <2>2. CASE host.pending \notin {"shutdown", "none"}
      <3>1. /\ polling' = [polling EXCEPT !.waiters = @ - 1] /\ (released => released')
            /\ UNCHANGED <<poll, unseen, seen, spotTime>>
        BY <1>5, <2>2 DEF HostEvent
      <3>2. polling' \in PollSlots /\ polling'.active = polling.active /\ polling'.count = polling.count
            /\ polling'.next = polling.next
        BY <1>0, <3>1 DEF PollSlots
      <3> QED BY <1>0, <3>1, <3>2, PollsAlone
    <2> QED BY <2>1, <2>2
  <1>6. ASSUME NEW w \in SpotWaiters, PollOutput(w) PROVE SpotInv'
    <2> DEFINE p == spot[w].poll
    <2>1. /\ polling' \in PollSlots /\ polling'.count = polling.count /\ polling'.next = polling.next
          /\ polling'.active = IF polling.active = p THEN NoPoll ELSE polling.active
      <3>1. CompletePoll(p) \in PollSlots /\ CompletePoll(p).count = polling.count /\ CompletePoll(p).next = polling.next
            /\ CompletePoll(p).active = IF polling.active = p THEN NoPoll ELSE polling.active
        BY <1>0 DEF CompletePoll, Released, PollSlots
      <3>2. polling' = CompletePoll(p) \/ polling' = [CompletePoll(p) EXCEPT !.waiters = @ - 1]
        BY <1>6 DEF PollOutput
      <3> QED BY <3>1, <3>2 DEF PollSlots
    <2>2. /\ poll[p].phase \in {"done", "aborted"} /\ seen \subseteq seen'
          /\ poll[p].result \in Notices => poll[p].result \in seen'
          /\ UNCHANGED <<poll, unseen, released, spotTime>>
      BY <1>6 DEF PollOutput
    <2>3. polling'.active <= polling'.count
      BY <1>0, <2>1 DEF SpotInv, SpotTyped, PollSlots, NoPoll
    <2>4. ASSUME NEW q \in Polls
          PROVE  /\ poll'[q].phase \in {"token", "action"} => polling'.active = q
                 /\ poll'[q].result \in Notices =>
                      poll'[q].phase = "done" /\ (poll'[q].result \in seen' \/ polling'.active = q \/ released')
      <3>1. CASE q = p
        BY <2>1, <2>2, <3>1 DEF SpotInv, PollsInFlight
      <3>2. CASE q # p
        BY <2>1, <2>2, <3>2 DEF SpotInv, PollsInFlight
      <3> QED BY <3>1, <3>2
    <2> QED BY <2>1, <2>2, <2>3, <2>4 DEF SpotInv, SpotTyped, PollsInFlight
  <1>7. ASSUME NEW w \in SpotWaiters, CancelWaiter(w) PROVE SpotInv'
    <2>1. CASE polling.waiters = 1
      <3>1. /\ poll' = Abort(poll, polling.active) /\ polling' = [Released EXCEPT !.waiters = @ - 1] /\ released' = TRUE
            /\ UNCHANGED <<unseen, spotTime>>
        BY <1>7, <2>1 DEF CancelWaiter
      <3>2. polling' \in PollSlots /\ polling'.active = NoPoll /\ polling'.count = polling.count /\ polling'.next = polling.next
        BY <1>1, <3>1 DEF PollSlots
      <3> QED BY <3>1, <3>2, GivenUp
    <2>2. CASE polling.waiters # 1
      <3>1. /\ polling' = [polling EXCEPT !.waiters = @ - 1] /\ (released => released')
            /\ UNCHANGED <<poll, unseen, seen, spotTime>>
        BY <1>7, <2>2 DEF CancelWaiter
      <3>2. polling' \in PollSlots /\ polling'.active = polling.active /\ polling'.count = polling.count
            /\ polling'.next = polling.next
        BY <1>0, <3>1 DEF PollSlots
      <3> QED BY <1>0, <3>1, <3>2, PollsAlone
    <2> QED BY <2>1, <2>2
  <1>8. ASSUME NEW p \in Polls, FetchToken(p) PROVE SpotInv'
    <2>1. poll[p] \in PollStates /\ poll[p].phase = "token" /\ UNCHANGED <<polling, unseen, seen, released, spotTime>>
      BY <1>8 DEF FetchToken, SpotInv, SpotTyped
    <2>2. poll[p].result \notin Notices
      BY <2>1 DEF SpotInv, PollsInFlight
    <2>3. CASE poll' = [poll EXCEPT ![p].phase = "action"]
      <3>1. [poll[p] EXCEPT !.phase = "action"] \in PollStates /\ [poll[p] EXCEPT !.phase = "action"].phase = "action"
            /\ [poll[p] EXCEPT !.phase = "action"].result = poll[p].result
        BY <2>1 DEF PollStates
      <3>2. poll' = [poll EXCEPT ![p] = [poll[p] EXCEPT !.phase = "action"]]
        BY <2>3
      <3> QED BY <2>1, <2>2, <3>1, <3>2, PollAdvances
    <2>4. CASE Ended(p, "error")
      <3>1. [phase |-> "done", result |-> "error"] \in PollStates
        BY DEF PollStates
      <3> QED BY <2>1, <2>4, <3>1, PollAdvances DEF Ended
    <2> QED BY <1>8, <2>3, <2>4 DEF FetchToken
  <1>9. ASSUME NEW p \in Polls, FetchAction(p) PROVE SpotInv'
    <2>1. poll[p].phase = "action" /\ UNCHANGED <<polling, seen, released, spotTime>> /\ unseen' \subseteq unseen
      BY <1>9 DEF FetchAction
    <2>2. PICK r \in Notices \cup {"nothing", "error"} : Ended(p, r)
      BY <1>9 DEF FetchAction, NextNotice, SpotInv, SpotTyped
    <2>3. [phase |-> "done", result |-> r] \in PollStates /\ [phase |-> "done", result |-> r].phase = "done"
      BY DEF PollStates
    <2> QED BY <2>1, <2>2, <2>3, PollAdvances DEF Ended
  <1>10. ASSUME NEW e \in {"response", "shutdown"}, Notify(e) PROVE SpotInv'
    BY <1>0, <1>10, PollsAlone DEF Notify
  <1>11. CASE CloseSpot
    <2>1. polling' \in PollSlots /\ polling'.active = NoPoll /\ polling'.count = polling.count /\ polling'.next = polling.next
      BY <1>0, <1>11 DEF PollSlots, Released, CloseSpot
    <2> QED BY <1>11, <2>1, GivenUp DEF CloseSpot
  <1>12. CASE SpotTick
    <2>1. spotTime' \in 0 .. MaxSpotTime
      BY <1>0, <1>12, SpotAssumption DEF SpotTick
    <2> QED BY <1>0, <1>12, <2>1, PollsAlone DEF SpotTick
  <1>13. CASE UNCHANGED spotVars
    BY <1>0, <1>13, PollsAlone DEF spotVars
  <1> QED BY <1>2, <1>3, <1>4, <1>5, <1>6, <1>7, <1>8, <1>9, <1>10, <1>11, <1>12, <1>13 DEF SpotNext, NextWaiter

\* A notice the source handed out reaches a caller, whichever waiters come, go
\* or are cancelled around it (complete_host_event, finish_waiter).
THEOREM NoticesKept == SpotSpec => []NoticeKept
PROOF
  <1>1. SpotInv => NoticeKept
    BY DEF SpotInv, PollsInFlight, NoticeKept, Wanted
  <1> QED BY <1>1, SpotInitial, SpotInductive, PTL DEF SpotSpec

-----------------------------------------------------------------------------
(* Hosts                                                                   *)

HostingNext == DriverNext \/ ConsumerNext \/ HostTick
HostingSpec == HostingInit /\ [][HostingNext]_hostVars

LoopPhases == {"driving", "enter", "armed", "waiting", "returned", "failed"}
TakerPhases == {"top", "received", "executing", "draining", "settling", "returned"}
TakerStates == [pc : TakerPhases, msg : Deliveries \cup {NoDelivery}, receipt : Nat, beat : Int]
LeaseStates == [st : {"ready", "held", "done"}, until : Int, receipt : Nat]

LoopsTyped ==
  hostClock \in Nat /\ stopping \in BOOLEAN /\ latched \in BOOLEAN /\ runLoop \in [Tasks -> [pc : LoopPhases, until : Int]]

TakersTyped ==
  /\ hostClock \in Nat /\ receipts \in Nat /\ refused \subseteq 1 .. receipts
  /\ taker \in [Tasks -> TakerStates] /\ leased \in [Deliveries -> LeaseStates]

Active(h) == taker[h].pc \in {"received", "executing", "draining", "settling"}

\* Each receipt was handed to one worker; one that lost its lease only drains;
\* what is done was settled under a receipt no worker holds any more.
ReceiptsOwned ==
  /\ \A h \in Tasks : Active(h) => taker[h].receipt \in 1 .. receipts
  /\ \A h, k \in Tasks : Active(h) /\ Active(k) /\ taker[h].receipt = taker[k].receipt => h = k
  /\ \A h \in Tasks : Active(h) /\ taker[h].pc # "draining" => taker[h].receipt \notin refused
  /\ \A m \in Deliveries : leased[m].receipt <= receipts
  /\ \A m \in Deliveries : leased[m].st = "done" =>
       leased[m].receipt \notin refused /\ \A h \in Tasks : Active(h) => taker[h].receipt # leased[m].receipt

ConsumerInv == TakersTyped /\ ReceiptsOwned

\* The wait a drive asks for is a number of ticks (wake_delay).
LEMMA WakeDelayTyped ==
  ASSUME NEW hint \in Hints, NEW at \in Int
  PROVE  WakeDelay(hint, at) \in Int
PROOF BY HostingAssumption DEF WakeDelay, Shorter, Hints

\* What a handler settles by is a number of ticks (observe_queue_outcome).
LEMMA OutcomesTyped ==
  ASSUME hostClock \in Nat, NEW o \in Outcomes
  PROVE  o \in Int
PROOF
  <1>1. PICK j \in JobValues, p \in OperationValues, d \in 0 .. MaxHostTime : o \in QueueOutcomeOf(Observe(j, p), d)
    BY DEF Outcomes
  <1> QED BY <1>1, HostingAssumption DEF QueueOutcomeOf

\* The loops stay typed.
LEMMA LoopsInductive ==
  ASSUME LoopsTyped, HostingNext
  PROVE  LoopsTyped'
PROOF
  <1> USE DEF LoopsTyped
  <1>1. ASSUME NEW h \in Tasks, NEW pc \in LoopPhases, Goto(h, pc)
        PROVE  runLoop' \in [Tasks -> [pc : LoopPhases, until : Int]]
    BY <1>1 DEF Goto
  <1>2. ASSUME NEW h \in Tasks, DriveOnce(h) PROVE LoopsTyped'
    <2>1. UNCHANGED <<hostClock, stopping, latched>>
      BY <1>2 DEF DriveOnce, DriverUnchanged
    <2>2. CASE Goto(h, "returned") \/ Goto(h, "failed")
      BY <1>1, <2>1, <2>2 DEF LoopPhases
    <2>3. ASSUME NEW d \in {RecoveryWake} \cup {WakeDelay(hint, at) : hint \in Hints, at \in 1 .. SafetyWake + 1},
                 runLoop' = [runLoop EXCEPT ![h] = [pc |-> "enter", until |-> d]]
          PROVE  LoopsTyped'
      <3>1. d \in Int
        BY WakeDelayTyped, HostingAssumption
      <3>2. [pc |-> "enter", until |-> d] \in [pc : LoopPhases, until : Int]
        BY <3>1 DEF LoopPhases
      <3> QED BY <2>1, <2>3, <3>2
    <2> QED BY <1>2, <2>2, <2>3 DEF DriveOnce
  <1>3. ASSUME NEW h \in Tasks, EnterWait(h) PROVE LoopsTyped'
    BY <1>1, <1>3 DEF EnterWait, DriverUnchanged, LoopPhases
  <1>4. ASSUME NEW h \in Tasks, ArmWait(h) PROVE LoopsTyped'
    <2>1. CASE stopping
      BY <1>1, <1>4, <2>1 DEF ArmWait, DriverUnchanged, LoopPhases
    <2>2. CASE ~stopping
      <3>1. [pc |-> "waiting", until |-> hostClock + runLoop[h].until] \in [pc : LoopPhases, until : Int]
        BY DEF LoopPhases
      <3> QED BY <1>4, <2>2, <3>1 DEF ArmWait, DriverUnchanged
    <2> QED BY <2>1, <2>2
  <1>5. ASSUME NEW h \in Tasks, Wake(h) \/ TakeShutdown(h) PROVE LoopsTyped'
    <2>1. WakeOutcome \in LoopPhases /\ "returned" \in LoopPhases
      BY DEF WakeOutcome, LoopPhases
    <2> QED BY <1>1, <1>5, <2>1 DEF Wake, TakeShutdown, DriverUnchanged
  <1>6. CASE RequestShutdown \/ NotifyShutdown
    BY <1>6 DEF RequestShutdown, NotifyShutdown, DriverUnchanged
  <1>7. CASE ConsumerNext
    <2>1. UNCHANGED <<hostClock, stopping, latched, runLoop>>
      BY <1>7 DEF ConsumerNext, ReceiveDelivery, StartDelivery, RenewLease, FinishDelivery, SettleDelivery, StopConsumer,
        ConsumerUnchanged, driverVars
    <2> QED BY <2>1
  <1>8. CASE HostTick
    BY <1>8 DEF HostTick, driverVars
  <1> QED BY <1>2, <1>3, <1>4, <1>5, <1>6, <1>7, <1>8 DEF HostingNext, DriverNext

\* Once shutdown is requested no loop wakes into another drive or begins a wait.
LEMMA StopsWaiting ==
  ASSUME LoopsTyped, HostingNext, NEW h \in Tasks, stopping
  PROVE  /\ runLoop[h].pc = "waiting" => runLoop'[h].pc # "driving"
         /\ runLoop[h].pc \in {"enter", "armed"} => runLoop'[h].pc # "waiting"
PROOF
  <1> USE DEF LoopsTyped
  <1>1. ASSUME NEW k \in Tasks, DriveOnce(k) PROVE runLoop[h].pc # "driving" => runLoop'[h] = runLoop[h]
    BY <1>1 DEF DriveOnce, Goto
  <1>2. ASSUME NEW k \in Tasks, NEW pc, Goto(k, pc), pc \notin {"driving", "waiting"}
        PROVE  runLoop'[h] = runLoop[h] \/ runLoop'[h].pc = pc
    BY <1>2 DEF Goto
  <1>3. ASSUME NEW k \in Tasks, EnterWait(k) \/ ArmWait(k) \/ Wake(k) \/ TakeShutdown(k) PROVE Goto(k, "returned")
    BY <1>3 DEF EnterWait, ArmWait, Wake, TakeShutdown, WakeOutcome
  <1>4. CASE RequestShutdown \/ NotifyShutdown \/ ConsumerNext \/ HostTick
    <2>1. UNCHANGED runLoop
      BY <1>4 DEF RequestShutdown, NotifyShutdown, ConsumerNext, ReceiveDelivery, StartDelivery, RenewLease, FinishDelivery,
        SettleDelivery, StopConsumer, ConsumerUnchanged, driverVars, HostTick
    <2> QED BY <2>1
  <1> QED BY <1>1, <1>2, <1>3, <1>4 DEF HostingNext, DriverNext

\* A worker that gives up its delivery, or moves on with it, changes nothing that
\* others rely on.
LEMMA TakerMoves ==
  ASSUME ConsumerInv, NEW h \in Tasks, NEW t \in TakerStates, taker' = [taker EXCEPT ![h] = t],
         \/ t.pc \in {"top", "returned"}
         \/ /\ Active(h) /\ t.receipt = taker[h].receipt
            /\ taker[h].pc = "draining" => t.pc = "draining",
         UNCHANGED <<hostClock, receipts, refused, leased>>
  PROVE  ConsumerInv'
PROOF
  <1>1. taker' \in [Tasks -> TakerStates] /\ taker'[h] = t /\ \A k \in Tasks : k # h => taker'[k] = taker[k]
    BY DEF ConsumerInv, TakersTyped
  <1>2. TakersTyped'
    BY <1>1 DEF ConsumerInv, TakersTyped
  <1>3. \A k \in Tasks : Active(k)' => Active(k) /\ taker'[k].receipt = taker[k].receipt
                          /\ (taker[k].pc = "draining" => taker'[k].pc = "draining")
    BY <1>1 DEF Active
  <1> QED BY <1>2, <1>3 DEF ConsumerInv, ReceiptsOwned

\* A worker whose renewal failed holds a receipt nobody else holds.
LEMMA LossRefuses ==
  ASSUME ConsumerInv, NEW h \in Tasks, taker[h].pc = "executing", taker' = [taker EXCEPT ![h] = AfterLoss(h)],
         refused' = refused \cup {taker[h].receipt}, UNCHANGED <<hostClock, receipts, leased>>
  PROVE  ConsumerInv'
PROOF
  <1>1. taker[h] \in TakerStates /\ Active(h)
    BY DEF ConsumerInv, TakersTyped, Active
  <1>2. AfterLoss(h) \in TakerStates /\ AfterLoss(h).pc \in {"draining", "top"}
        /\ (AfterLoss(h).pc = "draining" => AfterLoss(h).receipt = taker[h].receipt)
    BY <1>1 DEF AfterLoss, FreeTaker, TakerStates, TakerPhases, NoDelivery
  <1>3. taker' \in [Tasks -> TakerStates] /\ taker'[h] = AfterLoss(h) /\ \A k \in Tasks : k # h => taker'[k] = taker[k]
    BY <1>2 DEF ConsumerInv, TakersTyped
  <1>4. taker[h].receipt \in 1 .. receipts
    BY <1>1 DEF ConsumerInv, ReceiptsOwned
  <1>5. TakersTyped'
    BY <1>3, <1>4 DEF ConsumerInv, TakersTyped
  <1>6. \A k \in Tasks : Active(k)' => Active(k) /\ taker'[k].receipt = taker[k].receipt
                          /\ (taker'[k].pc # "draining" => k # h /\ taker[k].pc = taker'[k].pc)
    BY <1>1, <1>2, <1>3 DEF Active
  <1>7. \A k \in Tasks : Active(k) /\ k # h => taker[k].receipt # taker[h].receipt
    BY <1>1 DEF ConsumerInv, ReceiptsOwned
  <1>8. \A m \in Deliveries : leased[m].st = "done" => leased[m].receipt # taker[h].receipt
    BY <1>1 DEF ConsumerInv, ReceiptsOwned
  <1>9. \A k \in Tasks : Active(k)' /\ taker'[k].pc # "draining" => taker'[k].receipt \notin refused'
    BY <1>6, <1>7 DEF ConsumerInv, ReceiptsOwned
  <1>10. \A m \in Deliveries : leased'[m].st = "done" =>
           leased'[m].receipt \notin refused' /\ \A k \in Tasks : Active(k)' => taker'[k].receipt # leased'[m].receipt
    BY <1>6, <1>8 DEF ConsumerInv, ReceiptsOwned
  <1>11. /\ \A k \in Tasks : Active(k)' => taker'[k].receipt \in 1 .. receipts'
         /\ \A k, j \in Tasks : Active(k)' /\ Active(j)' /\ taker'[k].receipt = taker'[j].receipt => k = j
    BY <1>6 DEF ConsumerInv, ReceiptsOwned
  <1>12. \A m \in Deliveries : leased'[m].receipt <= receipts'
    BY DEF ConsumerInv, ReceiptsOwned
  <1> QED BY <1>5, <1>9, <1>10, <1>11, <1>12 DEF ConsumerInv, ReceiptsOwned

\* A lease that is renewed or given back keeps its receipt.
LEMMA LeaseMoves ==
  ASSUME ConsumerInv, NEW m \in Deliveries, NEW l \in LeaseStates, leased' = [leased EXCEPT ![m] = l],
         l.receipt = leased[m].receipt, l.st = leased[m].st, UNCHANGED <<hostClock, receipts, refused, taker>>
  PROVE  ConsumerInv'
PROOF
  <1>1. leased' \in [Deliveries -> LeaseStates]
        /\ \A n \in Deliveries : leased'[n].receipt = leased[n].receipt /\ leased'[n].st = leased[n].st
    BY DEF ConsumerInv, TakersTyped
  <1> QED BY <1>1 DEF ConsumerInv, TakersTyped, ReceiptsOwned, Active

\* The invariant holds before anything is received.
LEMMA ConsumerInitial == HostingInit => ConsumerInv /\ LoopsTyped
PROOF
  <1> SUFFICES ASSUME HostingInit PROVE ConsumerInv /\ LoopsTyped
    OBVIOUS
  <1>1. [pc |-> "top", msg |-> NoDelivery, receipt |-> 0, beat |-> 0] \in TakerStates
    BY DEF TakerStates, TakerPhases
  <1>2. [st |-> "ready", until |-> 0, receipt |-> 0] \in LeaseStates
    BY DEF LeaseStates
  <1>3. [pc |-> "driving", until |-> 0] \in [pc : LoopPhases, until : Int]
    BY DEF LoopPhases
  <1>4. taker \in [Tasks -> TakerStates] /\ \A h \in Tasks : ~Active(h)
    BY <1>1 DEF HostingInit, Active
  <1>5. leased \in [Deliveries -> LeaseStates] /\ \A m \in Deliveries : leased[m].receipt = 0 /\ leased[m].st = "ready"
    BY <1>2 DEF HostingInit
  <1>6. LoopsTyped
    BY <1>3 DEF HostingInit, LoopsTyped
  <1> QED BY <1>4, <1>5, <1>6 DEF HostingInit, ConsumerInv, TakersTyped, ReceiptsOwned

\* Every step of the loops and the workers keeps the invariant.
LEMMA ConsumerInductive ==
  ASSUME ConsumerInv, HostingNext
  PROVE  ConsumerInv'
PROOF
  <1>1. \A pc \in {"top", "returned"} : FreeTaker(pc) \in TakerStates /\ FreeTaker(pc).pc = pc
    BY DEF FreeTaker, TakerStates, TakerPhases
  <1>2. hostClock \in Nat /\ taker \in [Tasks -> TakerStates] /\ leased \in [Deliveries -> LeaseStates] /\ receipts \in Nat
    BY DEF ConsumerInv, TakersTyped
  <1>3. ASSUME NEW h \in Tasks, ReceiveDelivery(h) PROVE ConsumerInv'
    <2>1. CASE Worker(h, FreeTaker("returned")) /\ UNCHANGED <<leased, receipts, refused>>
      BY <1>1, <1>3, <2>1, TakerMoves DEF ReceiveDelivery, Worker, ConsumerUnchanged
    <2>2. ASSUME NEW m \in Deliveries, leased[m].st # "done", receipts' = receipts + 1, UNCHANGED refused,
                 leased' = [leased EXCEPT ![m] =
                              [st |-> "held", until |-> hostClock + VisibilityTime, receipt |-> receipts']],
                 Worker(h, [FreeTaker("received") EXCEPT !.msg = m, !.receipt = receipts'])
          PROVE  ConsumerInv'
      <3> DEFINE t == [FreeTaker("received") EXCEPT !.msg = m, !.receipt = receipts']
                 l == [st |-> "held", until |-> hostClock + VisibilityTime, receipt |-> receipts']
      <3>0. FreeTaker("received") \in TakerStates /\ FreeTaker("received").pc = "received"
        BY DEF FreeTaker, TakerStates, TakerPhases
      <3>1. t \in TakerStates /\ t.receipt = receipts + 1 /\ t.pc = "received"
        <4>1. \A f \in TakerStates, r \in Nat : /\ [f EXCEPT !.msg = m, !.receipt = r] \in TakerStates
                                               /\ [f EXCEPT !.msg = m, !.receipt = r].receipt = r
                                               /\ [f EXCEPT !.msg = m, !.receipt = r].pc = f.pc
          BY DEF TakerStates
        <4>2. receipts' \in Nat
          BY <1>2, <2>2
        <4> QED BY <2>2, <3>0, <4>1, <4>2
      <3>2. l \in LeaseStates /\ l.st = "held" /\ l.receipt = receipts + 1
        BY <1>2, <2>2, HostingAssumption DEF LeaseStates
      <3>3. taker' = [taker EXCEPT ![h] = t] /\ leased' = [leased EXCEPT ![m] = l] /\ UNCHANGED hostClock
        BY <1>3, <2>2 DEF Worker, ReceiveDelivery, ConsumerUnchanged
      <3> HIDE DEF t, l
      <3>4. taker' \in [Tasks -> TakerStates] /\ taker'[h] = t /\ \A k \in Tasks : k # h => taker'[k] = taker[k]
        BY <1>2, <3>1, <3>3
      <3>5. leased' \in [Deliveries -> LeaseStates] /\ leased'[m] = l /\ \A n \in Deliveries : n # m => leased'[n] = leased[n]
        BY <1>2, <3>2, <3>3
      <3>6. TakersTyped'
        BY <1>2, <2>2, <3>3, <3>4, <3>5 DEF ConsumerInv, TakersTyped
      <3>7. \A k \in Tasks : Active(k)' => (k = h /\ taker'[k].receipt = receipts + 1)
                                           \/ (k # h /\ Active(k) /\ taker'[k] = taker[k] /\ taker[k].receipt \in 1 .. receipts)
        BY <3>1, <3>4 DEF Active, ConsumerInv, ReceiptsOwned
      <3>8. receipts + 1 \notin refused /\ receipts + 1 \notin 1 .. receipts
        BY <1>2 DEF ConsumerInv, TakersTyped
      <3>9. /\ \A k \in Tasks : Active(k)' => taker'[k].receipt \in 1 .. receipts'
            /\ \A k, j \in Tasks : Active(k)' /\ Active(j)' /\ taker'[k].receipt = taker'[j].receipt => k = j
        BY <1>2, <2>2, <3>7, <3>8 DEF ConsumerInv, ReceiptsOwned
      <3>10. \A k \in Tasks : Active(k)' /\ taker'[k].pc # "draining" => taker'[k].receipt \notin refused'
        BY <2>2, <3>7, <3>8 DEF ConsumerInv, ReceiptsOwned
      <3>11. \A n \in Deliveries : leased'[n].receipt <= receipts'
        BY <1>2, <2>2, <3>2, <3>5 DEF ConsumerInv, ReceiptsOwned, LeaseStates
      <3>12. \A n \in Deliveries : leased'[n].st = "done" => leased'[n] = leased[n] /\ leased[n].receipt # receipts + 1
        BY <1>2, <3>2, <3>5 DEF ConsumerInv, ReceiptsOwned, LeaseStates
      <3>13. \A n \in Deliveries : leased'[n].st = "done" =>
               leased'[n].receipt \notin refused' /\ \A k \in Tasks : Active(k)' => taker'[k].receipt # leased'[n].receipt
        BY <2>2, <3>7, <3>12 DEF ConsumerInv, ReceiptsOwned
      <3> QED BY <3>6, <3>9, <3>10, <3>11, <3>13 DEF ConsumerInv, ReceiptsOwned
    <2> QED BY <1>3, <2>1, <2>2 DEF ReceiveDelivery
  <1>4. ASSUME NEW h \in Tasks, StartDelivery(h) PROVE ConsumerInv'
    <2>1. taker[h] \in TakerStates /\ taker[h].pc = "received" /\ Active(h)
      BY <1>2, <1>4 DEF StartDelivery, Active
    <2> DEFINE t == [taker[h] EXCEPT !.pc = "executing", !.beat = hostClock + Heartbeat]
    <2>2. hostClock + Heartbeat \in Int
      BY <1>2, HostingAssumption
    <2>3. t \in TakerStates /\ t.receipt = taker[h].receipt /\ t.pc = "executing"
      BY <2>2, <2>1 DEF TakerStates, TakerPhases
    <2>4. Worker(h, FreeTaker("returned")) \/ Worker(h, t)
      BY <1>4 DEF StartDelivery
    <2>5. UNCHANGED <<hostClock, receipts, refused, leased>>
      BY <1>4 DEF StartDelivery, ConsumerUnchanged
    <2> HIDE DEF t
    <2> QED BY <1>1, <2>1, <2>3, <2>4, <2>5, TakerMoves DEF Worker
  <1>5. ASSUME NEW h \in Tasks, RenewLease(h) PROVE ConsumerInv'
    <2>1. taker[h] \in TakerStates /\ taker[h].pc = "executing" /\ Active(h) /\ UNCHANGED <<hostClock, receipts>>
      BY <1>2, <1>5 DEF RenewLease, Active, ConsumerUnchanged
    <2>2. CASE UNCHANGED leased /\ Worker(h, AfterLoss(h)) /\ refused' = refused \cup {taker[h].receipt}
      BY <2>1, <2>2, LossRefuses DEF Worker
    <2>3. CASE /\ leased' = [leased EXCEPT ![taker[h].msg].until = hostClock + VisibilityTime]
               /\ Worker(h, [taker[h] EXCEPT !.beat = hostClock + Heartbeat]) /\ UNCHANGED refused
      <3> DEFINE t == [taker[h] EXCEPT !.beat = hostClock + Heartbeat]
      <3>1. t \in TakerStates /\ t.receipt = taker[h].receipt /\ t.pc = "executing"
        BY <1>2, <2>1, HostingAssumption DEF TakerStates, TakerPhases
      <3>2. leased' \in [Deliveries -> LeaseStates]
            /\ \A n \in Deliveries : leased'[n].receipt = leased[n].receipt /\ leased'[n].st = leased[n].st
        <4>1. hostClock + VisibilityTime \in Int
          BY <1>2, HostingAssumption
        <4>2. CASE taker[h].msg \in Deliveries
          BY <1>2, <2>3, <4>1, <4>2 DEF LeaseStates
        <4>3. CASE taker[h].msg \notin Deliveries
          <5>1. leased' = leased
            BY <1>2, <2>3, <4>3
          <5> QED BY <1>2, <5>1
        <4> QED BY <4>2, <4>3
      <3>3. taker' = [taker EXCEPT ![h] = t]
        BY <2>3 DEF Worker
      <3> HIDE DEF t
      <3>4. taker' \in [Tasks -> TakerStates] /\ \A k \in Tasks : taker'[k].receipt = taker[k].receipt /\ taker'[k].pc = taker[k].pc
        BY <1>2, <2>1, <3>1, <3>3
      <3> QED BY <2>1, <2>3, <3>2, <3>4 DEF ConsumerInv, TakersTyped, ReceiptsOwned, Active
    <2> QED BY <1>5, <2>2, <2>3 DEF RenewLease
  <1>6. ASSUME NEW h \in Tasks, FinishDelivery(h) PROVE ConsumerInv'
    <2>1. UNCHANGED <<hostClock, receipts, refused, leased>>
      BY <1>6 DEF FinishDelivery, ConsumerUnchanged
    <2>2. CASE Worker(h, FreeTaker("top"))
      BY <1>1, <2>1, <2>2, TakerMoves DEF Worker
    <2>3. ASSUME taker[h].pc = "executing", NEW o \in Outcomes, Worker(h, [taker[h] EXCEPT !.pc = "settling", !.beat = o])
          PROVE  ConsumerInv'
      <3> DEFINE t == [taker[h] EXCEPT !.pc = "settling", !.beat = o]
      <3>1. t \in TakerStates /\ t.receipt = taker[h].receipt /\ t.pc = "settling"
        BY <1>2, <2>3, OutcomesTyped DEF TakerStates, TakerPhases
      <3>2. Active(h) /\ taker' = [taker EXCEPT ![h] = t]
        BY <2>3 DEF Active, Worker
      <3> HIDE DEF t
      <3> QED BY <2>1, <2>3, <3>1, <3>2, TakerMoves
    <2> QED BY <1>6, <2>2, <2>3 DEF FinishDelivery
  <1>7. ASSUME NEW h \in Tasks, SettleDelivery(h) PROVE ConsumerInv'
    <2> DEFINE m == taker[h].msg
    <2>1. taker[h] \in TakerStates /\ taker[h].pc = "settling" /\ Active(h) /\ UNCHANGED <<hostClock, receipts, refused>>
          /\ taker' = [taker EXCEPT ![h] = FreeTaker("top")]
      BY <1>2, <1>7 DEF SettleDelivery, Active, ConsumerUnchanged, Worker
    <2>2. taker' \in [Tasks -> TakerStates] /\ \A k \in Tasks : Active(k)' => k # h /\ Active(k) /\ taker'[k] = taker[k]
      BY <1>1, <1>2, <2>1 DEF Active
    <2>3. taker[h].receipt \notin refused /\ taker[h].beat \in Int
      BY <2>1 DEF ConsumerInv, ReceiptsOwned, TakerStates
    <2>4. leased' = [leased EXCEPT ![m] = IF leased[m].receipt # taker[h].receipt THEN leased[m]
                                          ELSE IF taker[h].beat = 0 THEN [leased[m] EXCEPT !.st = "done"]
                                          ELSE [leased[m] EXCEPT !.until = hostClock + taker[h].beat]]
      BY <1>7 DEF SettleDelivery
    <2>5. leased' \in [Deliveries -> LeaseStates] /\ \A n \in Deliveries : leased'[n].receipt = leased[n].receipt
          /\ (leased'[n].st = "done" => leased[n].st = "done" \/ leased[n].receipt = taker[h].receipt)
      <3>1. CASE m \in Deliveries
        <4>1. leased[m] \in LeaseStates
          BY <1>2, <3>1
        <4>2. CASE leased[m].receipt # taker[h].receipt
          BY <1>2, <2>4, <3>1, <4>1, <4>2
        <4>3. CASE leased[m].receipt = taker[h].receipt /\ taker[h].beat = 0
          BY <1>2, <2>4, <3>1, <4>1, <4>3 DEF LeaseStates
        <4>4. CASE leased[m].receipt = taker[h].receipt /\ taker[h].beat # 0
          BY <1>2, <2>3, <2>4, <3>1, <4>1, <4>4 DEF LeaseStates
        <4> QED BY <4>2, <4>3, <4>4
      <3>2. CASE m \notin Deliveries
        <4>1. leased' = leased
          BY <1>2, <2>4, <3>2
        <4> QED BY <1>2, <4>1
      <3> QED BY <3>1, <3>2
    <2>6. TakersTyped'
      BY <2>1, <2>2, <2>5 DEF ConsumerInv, TakersTyped
    <2>7. \A k \in Tasks : Active(k) /\ k # h => taker[k].receipt # taker[h].receipt
      BY <2>1 DEF ConsumerInv, ReceiptsOwned
    <2>8. \A n \in Deliveries : leased'[n].st = "done" =>
            leased'[n].receipt \notin refused' /\ \A k \in Tasks : Active(k)' => taker'[k].receipt # leased'[n].receipt
      BY <2>1, <2>2, <2>3, <2>5, <2>7 DEF ConsumerInv, ReceiptsOwned
    <2> QED BY <2>1, <2>2, <2>5, <2>6, <2>8 DEF ConsumerInv, ReceiptsOwned
  <1>8. CASE StopConsumer \/ HostTick \/ DriverNext
    <2>1. UNCHANGED <<taker, leased, receipts, refused>> /\ hostClock' \in Nat
      BY <1>2, <1>8 DEF StopConsumer, HostTick, DriverNext, DriveOnce, EnterWait, ArmWait, Wake, TakeShutdown, RequestShutdown,
        NotifyShutdown, DriverUnchanged, ConsumerUnchanged, consumerVars
    <2> QED BY <2>1 DEF ConsumerInv, TakersTyped, ReceiptsOwned, Active
  <1> QED BY <1>3, <1>4, <1>5, <1>6, <1>7, <1>8 DEF HostingNext, ConsumerNext

\* Hosts stop when they are told to, and nothing is settled under a receipt whose
\* renewal failed, for any number of hosts, deliveries and ticks (run_until_shutdown,
\* LeaseHeartbeat::run).
THEOREM HostsAreSafe == HostingSpec => HostsSafe
PROOF
  <1>1. ConsumerInv /\ LoopsTyped /\ [HostingNext]_hostVars => (ConsumerInv /\ LoopsTyped)'
    <2>1. ASSUME ConsumerInv, LoopsTyped, UNCHANGED hostVars PROVE (ConsumerInv /\ LoopsTyped)'
      BY <2>1 DEF hostVars, ConsumerInv, TakersTyped, ReceiptsOwned, Active, LoopsTyped
    <2> QED BY <2>1, ConsumerInductive, LoopsInductive
  <1>2. LoopsTyped /\ [HostingNext]_hostVars =>
          [\A h \in Tasks : stopping => /\ runLoop[h].pc = "waiting" => runLoop'[h].pc # "driving"
                                        /\ runLoop[h].pc \in {"enter", "armed"} => runLoop'[h].pc # "waiting"]_driverVars
    BY StopsWaiting DEF hostVars, driverVars
  <1>3. ConsumerInv => LossIsFinal
    BY DEF ConsumerInv, ReceiptsOwned, LossIsFinal, Active
  <1>4. ConsumerInv' => LossIsFinal'
    BY <1>3, PTL
  <1> QED BY <1>1, <1>2, <1>4, ConsumerInitial, PTL DEF HostingSpec, HostsSafe, ShutdownEndsWaits

-----------------------------------------------------------------------------
(* Handoff and replay                                                      *)

QueueSpec == QueueInit /\ [][QueueNext]_queueVars

Alive == {"visible", "flight"}
MessageStates == [batch : Envelopes \cup {"none"}, state : {"none", "visible", "flight", "gone"}]
Entries == [copy : Copies, batch : Envelopes \cup {"none"}]
ReplayPhases == {"idle", "prepare", "sink", "acknowledge", "bury"}

Lives(k, b) == message[k].batch = b /\ message[k].state \in Alive

\* An entry a worker holds is the copy it received, or that copy is gone.
Traced(e) == message[e.copy] = Gone \/ Lives(e.copy, e.batch)

\* A worker claims only progress the sink made, and acknowledges only a batch
\* the sink has applied.
WorkerTruthful(s) ==
  /\ s \in [pc : ReplayPhases, list : Seq(Entries), done : SUBSET delivered]
  /\ s.pc # "idle" => s.list # <<>> /\ \A i \in 1 .. Len(s.list) : Traced(s.list[i])
  /\ s.pc = "acknowledge" => OpsOf(s.list[1].batch) \subseteq delivered

QueueTyped == message \in [Copies -> MessageStates] /\ worker = [w \in Workers |-> worker[w]]
WorkersTruthful == \A w \in Workers : WorkerTruthful(worker[w])
Handed == \A b \in sent : (\E k \in Copies : Lives(k, b)) \/ Buried(b) \/ OpsOf(b) \subseteq delivered

QueueInv == QueueTyped /\ WorkersTruthful /\ Handed /\ GravesTruthful

\* What a step may do to the queue: a copy keeps its batch until it is gone for good.
CopiesAge ==
  \A k \in Copies : /\ message[k] = Gone => message'[k] = Gone
                    /\ message[k].state \in Alive =>
                         message'[k] = Gone \/ (message'[k].batch = message[k].batch /\ message'[k].state \in Alive)

\* The invariant holds of an empty queue and idle workers.
LEMMA QueueInitial == QueueInit => QueueInv
PROOF
  <1> SUFFICES ASSUME QueueInit PROVE QueueInv
    OBVIOUS
  <1>1. NoCopy \in MessageStates
    BY DEF NoCopy, MessageStates
  <1>2. WorkerTruthful(IdleWorker)
    BY DEF WorkerTruthful, IdleWorker, ReplayPhases
  <1> QED BY <1>1, <1>2 DEF QueueInit, QueueInv, QueueTyped, WorkersTruthful, Handed, GravesTruthful

\* A worker that does not move stays truthful while the queue ages.
LEMMA StaysTruthful ==
  ASSUME NEW s, WorkerTruthful(s), CopiesAge, delivered \subseteq delivered'
  PROVE  WorkerTruthful(s)'
PROOF
  <1>1. \A e \in Entries : Traced(e) => Traced(e)'
    BY DEF Traced, Lives, CopiesAge, Entries, Gone, Alive
  <1>2. \A i \in 1 .. Len(s.list) : s.list[i] \in Entries
    BY DEF WorkerTruthful
  <1> QED BY <1>1, <1>2 DEF WorkerTruthful

\* One worker moves, and the others stay truthful.
LEMMA WorkerMoves ==
  ASSUME QueueInv, NEW w \in Workers, NEW s, worker' = [worker EXCEPT ![w] = s], WorkerTruthful(s)',
         CopiesAge, delivered \subseteq delivered'
  PROVE  WorkersTruthful' /\ worker' = [v \in Workers |-> worker'[v]]
PROOF
  <1>1. worker'[w] = s /\ \A v \in Workers : v # w => worker'[v] = worker[v]
    BY DEF QueueInv, QueueTyped
  <1>2. ASSUME NEW v \in Workers PROVE WorkerTruthful(worker[v])'
    <2>1. PICK t : t = worker[v]
      OBVIOUS
    <2>2. WorkerTruthful(t)'
      BY <2>1, StaysTruthful DEF QueueInv, WorkersTruthful
    <2>3. WorkerTruthful(s)'
      OBVIOUS
    <2>4. CASE v # w
      <3>1. worker'[v] = t
        BY <1>1, <2>1, <2>4
      <3> QED BY <2>2, <3>1 DEF WorkerTruthful
    <2>5. CASE v = w
      <3>1. worker'[v] = s
        BY <1>1, <2>5
      <3> QED BY <2>3, <3>1 DEF WorkerTruthful
    <2> QED BY <2>4, <2>5
  <1>3. worker' = [v \in Workers |-> worker'[v]]
    BY DEF QueueInv, QueueTyped
  <1> QED BY <1>2, <1>3 DEF WorkersTruthful

\* A batch that was handed over stays so unless its last copy goes without reason.
LEMMA HandedOn ==
  ASSUME QueueInv, UNCHANGED sent, graves \subseteq graves', delivered \subseteq delivered',
         \A k \in Copies, b \in sent :
           Lives(k, b) => Lives(k, b)' \/ (\E g \in graves' : g.batch = b) \/ OpsOf(b) \subseteq delivered'
  PROVE  Handed'
PROOF
  <1>1. \A b \in sent : Buried(b) => \E g \in graves' : g.batch = b
    BY DEF Buried
  <1>2. \A b \in sent : (\E k \in Copies : Lives(k, b)') \/ (\E g \in graves' : g.batch = b) \/ OpsOf(b) \subseteq delivered'
    BY <1>1 DEF QueueInv, Handed
  <1> QED BY <1>2 DEF Handed, Buried

\* An idle worker holds nothing.
LEMMA IdleTruthful == WorkerTruthful(IdleWorker)
PROOF BY DEF WorkerTruthful, IdleWorker, ReplayPhases

\* The next envelope of a batch, or the end of it.
LEMMA NextTruthful ==
  ASSUME NEW s, WorkerTruthful(s), s.pc # "idle"
  PROVE  WorkerTruthful(IF Len(s.list) = 1 THEN IdleWorker ELSE [pc |-> "prepare", list |-> Tail(s.list), done |-> {}])
PROOF
  <1>1. CASE Len(s.list) = 1
    BY <1>1, IdleTruthful
  <1>2. CASE Len(s.list) # 1
    <2> DEFINE n == [pc |-> "prepare", list |-> Tail(s.list), done |-> {}]
    <2>1. n.pc = "prepare" /\ n.list = Tail(s.list)
      OBVIOUS
    <2>2. /\ Tail(s.list) \in Seq(Entries) /\ Len(Tail(s.list)) = Len(s.list) - 1 /\ Len(s.list) > 1
          /\ \A i \in 1 .. Len(Tail(s.list)) : Tail(s.list)[i] = s.list[i + 1]
      <3>1. s.list \in Seq(Entries) /\ s.list # <<>>
        BY DEF WorkerTruthful
      <3>2. Len(s.list) \in Nat /\ Len(s.list) # 0
        BY <3>1, EmptySeq, LenProperties
      <3>3. /\ Tail(s.list) \in Seq(Entries) /\ Len(Tail(s.list)) = Len(s.list) - 1
            /\ \A i \in 1 .. Len(Tail(s.list)) : Tail(s.list)[i] = s.list[i + 1]
        BY <3>1, HeadTailProperties
      <3>4. Len(s.list) > 1
        <4>1. \A x \in Nat : x # 0 /\ x # 1 => x > 1
          OBVIOUS
        <4> QED BY <1>2, <3>2, <4>1, Zenon
      <3> QED BY <3>3, <3>4, Zenon
    <2>3. Tail(s.list) # <<>> /\ \A i \in 1 .. Len(Tail(s.list)) : Traced(Tail(s.list)[i])
      <3>1. Len(s.list) \in Nat /\ Len(<<>>) = 0
        BY LenProperties, EmptySeq DEF WorkerTruthful
      <3>2. ASSUME NEW i \in 1 .. Len(Tail(s.list)) PROVE i + 1 \in 1 .. Len(s.list) /\ Tail(s.list)[i] = s.list[i + 1]
        BY <2>2, <3>1
      <3>3. \A j \in 1 .. Len(s.list) : Traced(s.list[j])
        BY DEF WorkerTruthful
      <3>4. \A i \in 1 .. Len(Tail(s.list)) : Traced(Tail(s.list)[i])
        BY <3>2, <3>3, Zenon
      <3>5. Len(Tail(s.list)) # Len(<<>>)
        <4>1. \A x, y \in Nat : y = x - 1 /\ x > 1 => y # 0
          OBVIOUS
        <4>2. Len(Tail(s.list)) \in Nat
          BY <2>2, LenProperties
        <4> QED BY <2>2, <3>1, <4>1, <4>2, Zenon
      <3> QED BY <3>4, <3>5, Zenon
    <2>4. n \in [pc : ReplayPhases, list : Seq(Entries), done : SUBSET delivered]
      BY <2>2 DEF ReplayPhases
    <2> HIDE DEF n
    <2>5. WorkerTruthful(n)
      BY <2>1, <2>3, <2>4 DEF WorkerTruthful
    <2> QED BY <1>2, <2>5 DEF n
  <1> QED BY <1>1, <1>2

\* Another place in the same envelope, with more of its operations delivered.
LEMMA GoToTruthful ==
  ASSUME NEW s, WorkerTruthful(s), s.pc # "idle", NEW pc \in {"sink", "bury"}, NEW done, done \subseteq delivered
  PROVE  WorkerTruthful([s EXCEPT !.pc = pc, !.done = done])
PROOF
  <1> DEFINE n == [s EXCEPT !.pc = pc, !.done = done]
  <1>1. n.pc = pc /\ n.list = s.list /\ n \in [pc : ReplayPhases, list : Seq(Entries), done : SUBSET delivered]
    BY DEF WorkerTruthful, ReplayPhases
  <1> HIDE DEF n
  <1>2. WorkerTruthful(n)
    BY <1>1 DEF WorkerTruthful
  <1> QED BY <1>2 DEF n

\* The steps of the code's shorthands, as one worker's new state.
LEMMA MovesOf ==
  ASSUME QueueInv, NEW w \in Workers
  PROVE  /\ Abandon(w) => worker' = [worker EXCEPT ![w] = IdleWorker]
         /\ NextEnvelope(w) =>
              worker' = [worker EXCEPT ![w] = IF Len(worker[w].list) = 1 THEN IdleWorker
                                              ELSE [pc |-> "prepare", list |-> Tail(worker[w].list), done |-> {}]]
         /\ \A pc, done : GoTo(w, pc, done) =>
              worker' = [worker EXCEPT ![w] = [worker[w] EXCEPT !.pc = pc, !.done = done]]
PROOF BY DEF QueueInv, QueueTyped, Abandon, NextEnvelope, GoTo

\* The envelope a worker is at is one it received.
LEMMA CurrentTraced ==
  ASSUME QueueInv, NEW w \in Workers, worker[w].pc # "idle"
  PROVE  Current(w) = worker[w].list[1] /\ Current(w) \in Entries /\ Traced(Current(w))
PROOF
  <1>1. worker[w].list \in Seq(Entries) /\ worker[w].list # <<>> /\ \A i \in 1 .. Len(worker[w].list) : Traced(worker[w].list[i])
    BY DEF QueueInv, WorkersTruthful, WorkerTruthful
  <1>2. 1 \in 1 .. Len(worker[w].list)
    <2>1. Len(worker[w].list) \in Nat \ {0}
      BY <1>1, EmptySeq
    <2>2. \A x \in Nat \ {0} : 1 \in 1 .. x
      OBVIOUS
    <2> QED BY <2>1, <2>2, Zenon
  <1>3. Current(w) = worker[w].list[1]
    BY <1>1 DEF Current
  <1> QED BY <1>1, <1>2, <1>3, ElementOfSeq

\* A copy that is removed ages the queue; every other copy lives on.
LEMMA RemovalAges ==
  ASSUME QueueInv, NEW k \in Copies, RemoveCopies(k)
  PROVE  /\ message' \in [Copies -> MessageStates] /\ CopiesAge
         /\ \A j \in Copies, b \in sent : Lives(j, b) => Lives(j, b)' \/ j = k
PROOF
  <1>1. Gone \in MessageStates
    BY DEF Gone, MessageStates
  <1> QED BY <1>1 DEF QueueInv, QueueTyped, RemoveCopies, CopiesAge, Lives

\* Nothing about the queue changes.
LEMMA QueueStill ==
  ASSUME QueueInv, UNCHANGED message
  PROVE  /\ message' \in [Copies -> MessageStates] /\ CopiesAge
         /\ \A j \in Copies, b \in sent : Lives(j, b) => Lives(j, b)'
PROOF BY DEF QueueInv, QueueTyped, CopiesAge, Lives

\* A step of one worker that may remove the copy it is at, once the copy's batch
\* is applied or buried, and claims only what the sink applied.
LEMMA WorkerStepKeeps ==
  ASSUME QueueInv, NEW w \in Workers, worker[w].pc # "idle", NEW s, worker' = [worker EXCEPT ![w] = s],
         WorkerTruthful(s) \/ WorkerTruthful(s)',
         \/ UNCHANGED message
         \/ /\ RemoveCopies(Current(w).copy)
            /\ \/ OpsOf(Current(w).batch) \subseteq delivered
               \/ \E g \in graves' : g.batch = Current(w).batch,
         UNCHANGED sent, delivered \subseteq delivered', graves \subseteq graves', GravesTruthful'
  PROVE  QueueInv'
PROOF
  <1>1. Current(w) \in Entries /\ Traced(Current(w)) /\ Current(w).copy \in Copies
    BY CurrentTraced DEF Entries
  <1>2. message' \in [Copies -> MessageStates] /\ CopiesAge
    BY <1>1, RemovalAges, QueueStill
  <1>3. WorkerTruthful(s)'
    BY <1>2, StaysTruthful
  <1>4. WorkersTruthful' /\ worker' = [v \in Workers |-> worker'[v]]
    BY <1>2, <1>3, WorkerMoves
  <1>5. ASSUME NEW k \in Copies, NEW b \in sent, Lives(k, b)
        PROVE  Lives(k, b)' \/ (\E g \in graves' : g.batch = b) \/ OpsOf(b) \subseteq delivered'
    <2>1. CASE Lives(k, b)'
      BY <2>1
    <2>2. CASE ~Lives(k, b)'
      <3>1. k = Current(w).copy /\ RemoveCopies(Current(w).copy)
        BY <1>1, <1>5, <2>2, RemovalAges, QueueStill
      <3>2. message[k] # Gone
        BY <1>5 DEF Lives, Gone, Alive
      <3>3. Current(w).batch = b
        BY <1>1, <1>5, <3>1, <3>2 DEF Traced, Lives
      <3>4. ~UNCHANGED message
        BY <1>5, <2>2, QueueStill
      <3> QED BY <3>3, <3>4
    <2> QED BY <2>1, <2>2
  <1>6. Handed'
    BY <1>5, HandedOn
  <1> QED BY <1>2, <1>4, <1>6 DEF QueueInv, QueueTyped

\* What a worker receives are copies of the queue (receive).
LEMMA ReceiveKeeps ==
  ASSUME QueueInv, NEW w \in Workers, Receive(w)
  PROVE  QueueInv'
PROOF
  <1> DEFINE visible == {k \in Copies : message[k].state = "visible"}
  <1>1. PICK ks \in SUBSET visible :
          /\ Cardinality(ks) \in {1, 2}
          /\ message' = [k \in Copies |-> IF k \in ks THEN [message[k] EXCEPT !.state = "flight"] ELSE message[k]]
          /\ \E list \in [1 .. Cardinality(ks) -> ks] :
               worker' = [worker EXCEPT ![w] =
                 [pc |-> "prepare", list |-> [i \in DOMAIN list |-> [copy |-> list[i], batch |-> message[list[i]].batch]],
                  done |-> {}]]
    BY DEF Receive
  <1>2. PICK list \in [1 .. Cardinality(ks) -> ks] :
          worker' = [worker EXCEPT ![w] =
            [pc |-> "prepare", list |-> [i \in DOMAIN list |-> [copy |-> list[i], batch |-> message[list[i]].batch]],
             done |-> {}]]
    BY <1>1
  <1>3. UNCHANGED <<sent, delivered, graves>>
    BY DEF Receive
  <1>4. /\ message' \in [Copies -> MessageStates]
        /\ \A k \in Copies : message'[k].batch = message[k].batch
             /\ (message[k].state \in Alive => message'[k].state \in Alive) /\ (message[k] = Gone => message'[k] = Gone)
    <2>1. \A k \in Copies : message[k] \in MessageStates
      BY DEF QueueInv, QueueTyped
    <2>2. \A k \in ks : k \in Copies /\ message[k].state = "visible"
      OBVIOUS
    <2> QED BY <1>1, <2>1, <2>2 DEF MessageStates, Gone, Alive
  <1>5. CopiesAge /\ \A k \in Copies, b \in sent : Lives(k, b) => Lives(k, b)'
    BY <1>4 DEF CopiesAge, Lives
  <1>6. PICK l : l = [i \in 1 .. Cardinality(ks) |-> [copy |-> list[i], batch |-> message[list[i]].batch]]
    OBVIOUS
  <1>7. ASSUME NEW i \in 1 .. Cardinality(ks) PROVE l[i] \in Entries /\ l[i].copy = list[i] /\ l[i].batch = message[list[i]].batch
    <2>1. list[i] \in Copies /\ message[list[i]] \in MessageStates
      BY DEF QueueInv, QueueTyped
    <2> QED BY <1>6, <2>1 DEF Entries, MessageStates
  <1>8. l \in [1 .. Cardinality(ks) -> Entries] /\ Cardinality(ks) \in Nat \ {0}
    BY <1>1, <1>6, <1>7
  <1>9. l \in Seq(Entries) /\ Len(l) = Cardinality(ks) /\ l # <<>>
    <2>1. l \in Seq(Entries) /\ Len(l) = Cardinality(ks)
      BY <1>8
    <2> QED BY <1>8, <2>1, EmptySeq
  <1>10. \A i \in 1 .. Len(l) : Traced(l[i])'
    <2>1. ASSUME NEW i \in 1 .. Len(l) PROVE Traced(l[i])'
      <3>1. list[i] \in Copies /\ message[list[i]].state \in Alive /\ l[i].copy = list[i] /\ l[i].batch = message[list[i]].batch
        BY <1>7, <1>9, <2>1 DEF Alive
      <3> QED BY <1>4, <3>1 DEF Traced, Lives
    <2> QED BY <2>1
  <1>11. PICK s : s = [pc |-> "prepare", list |-> l, done |-> {}]
    OBVIOUS
  <1>12. s.pc = "prepare" /\ s.list = l /\ s \in [pc : ReplayPhases, list : Seq(Entries), done : SUBSET delivered']
    BY <1>9, <1>11 DEF ReplayPhases
  <1>13. WorkerTruthful(s)'
    BY <1>9, <1>10, <1>12 DEF WorkerTruthful
  <1>14. worker' = [worker EXCEPT ![w] = s]
    BY <1>2, <1>6, <1>11
  <1>15. WorkersTruthful' /\ worker' = [v \in Workers |-> worker'[v]]
    BY <1>3, <1>5, <1>13, <1>14, WorkerMoves
  <1>16. Handed' /\ GravesTruthful'
    BY <1>3, <1>5, HandedOn DEF QueueInv, GravesTruthful
  <1> QED BY <1>4, <1>15, <1>16 DEF QueueInv, QueueTyped

\* Every step of the producer, the queue and the workers keeps the invariant.
LEMMA QueueInductive == QueueInv /\ [QueueNext]_queueVars => QueueInv'
PROOF
  <1> SUFFICES ASSUME QueueInv, [QueueNext]_queueVars PROVE QueueInv'
    OBVIOUS
  <1>1. ASSUME NEW b \in Envelopes, Publish(b) PROVE QueueInv'
    <2>1. PICK k \in FreshCopies : message' = [message EXCEPT ![k] = [batch |-> b, state |-> "visible"]]
      BY <1>1 DEF Publish
    <2>2. k \in Copies /\ message[k] = NoCopy /\ UNCHANGED <<worker, delivered, graves>> /\ sent' = sent \cup {b}
      BY <1>1 DEF FreshCopies, Publish
    <2>3. [batch |-> b, state |-> "visible"] \in MessageStates
      BY DEF MessageStates
    <2>4. message' \in [Copies -> MessageStates] /\ message'[k] = [batch |-> b, state |-> "visible"]
          /\ \A j \in Copies : j # k => message'[j] = message[j]
      BY <2>1, <2>2, <2>3 DEF QueueInv, QueueTyped
    <2>5. CopiesAge /\ (\A j \in Copies, c \in sent : Lives(j, c) => Lives(j, c)') /\ Lives(k, b)'
      BY <2>2, <2>4 DEF CopiesAge, Lives, Alive, NoCopy, Gone
    <2>6. ASSUME NEW v \in Workers PROVE WorkerTruthful(worker[v])'
      <3>1. PICK t : t = worker[v]
        OBVIOUS
      <3>2. WorkerTruthful(t)'
        BY <2>2, <2>5, <3>1, StaysTruthful DEF QueueInv, WorkersTruthful
      <3> QED BY <2>2, <3>1, <3>2 DEF WorkerTruthful
    <2>7. Handed'
      BY <2>2, <2>5 DEF QueueInv, Handed, Buried
    <2> QED BY <2>2, <2>4, <2>6, <2>7 DEF QueueInv, QueueTyped, WorkersTruthful, GravesTruthful
  <1>2. ASSUME NEW w \in Workers, PrepareReplay(w) PROVE QueueInv'
    <2>1. worker[w].pc # "idle" /\ UNCHANGED <<message, sent, delivered, graves>>
      BY <1>2 DEF PrepareReplay
    <2>2. PICK t : t = worker[w]
      OBVIOUS
    <2>3. WorkerTruthful(t) /\ GravesTruthful' /\ t.pc # "idle"
      BY <2>1, <2>2 DEF QueueInv, WorkersTruthful, GravesTruthful
    <2>4. CASE GoTo(w, "bury", {}) \/ GoTo(w, "sink", {})
      <3>1. PICK pc \in {"sink", "bury"} : GoTo(w, pc, {})
        BY <2>4
      <3>2. PICK s : s = [t EXCEPT !.pc = pc, !.done = {}]
        OBVIOUS
      <3>3. WorkerTruthful(s)
        BY <2>3, <3>2, GoToTruthful
      <3>4. worker' = [worker EXCEPT ![w] = s]
        <4>1. worker' = [worker EXCEPT ![w] = [worker[w] EXCEPT !.pc = pc, !.done = {}]]
          BY <3>1, MovesOf, ZenonT(30)
        <4> QED BY <2>2, <3>2, <4>1, Zenon
      <3> QED BY <2>1, <2>3, <3>3, <3>4, WorkerStepKeeps
    <2>5. CASE Abandon(w)
      BY <2>1, <2>3, <2>5, MovesOf, IdleTruthful, WorkerStepKeeps
    <2> QED BY <1>2, <2>4, <2>5 DEF PrepareReplay
  <1>3. ASSUME NEW w \in Workers, FlushWrites(w) PROVE QueueInv'
    <2>1. worker[w].pc = "sink" /\ UNCHANGED <<message, sent, graves>> /\ delivered \subseteq delivered'
      BY <1>3 DEF FlushWrites
    <2>2. PICK t : t = worker[w]
      OBVIOUS
    <2>3. WorkerTruthful(t) /\ GravesTruthful' /\ t.pc # "idle" /\ CopiesAge
      BY <2>1, <2>2, QueueStill DEF QueueInv, WorkersTruthful, GravesTruthful
    <2>4. CASE /\ delivered' = delivered \cup OpsOf(Current(w).batch) /\ GoTo(w, "acknowledge", {})
      <3>1. PICK s : s = [t EXCEPT !.pc = "acknowledge", !.done = {}]
        OBVIOUS
      <3>2. /\ s.pc = "acknowledge" /\ s.list = t.list
            /\ s \in [pc : ReplayPhases, list : Seq(Entries), done : SUBSET delivered']
        BY <2>3, <3>1 DEF WorkerTruthful, ReplayPhases
      <3>3. WorkerTruthful(t)'
        BY <2>1, <2>3, StaysTruthful
      <3>4. OpsOf(t.list[1].batch) \subseteq delivered'
        BY <2>1, <2>2, <2>4, CurrentTraced
      <3>5. WorkerTruthful(s)'
        BY <2>3, <3>2, <3>3, <3>4 DEF WorkerTruthful
      <3>6. worker' = [worker EXCEPT ![w] = s]
        <4>1. worker' = [worker EXCEPT ![w] = [worker[w] EXCEPT !.pc = "acknowledge", !.done = {}]]
          BY <2>4, MovesOf, Zenon
        <4> QED BY <2>2, <3>1, <4>1, Zenon
      <3> QED BY <2>1, <2>3, <3>5, <3>6, WorkerStepKeeps
    <2>5. ASSUME NEW landed, NEW done \in {{}, landed}, delivered' = delivered \cup landed, GoTo(w, "bury", done)
          PROVE  QueueInv'
      <3>1. PICK s : s = [t EXCEPT !.pc = "bury", !.done = done]
        OBVIOUS
      <3>2. /\ s.pc = "bury" /\ s.list = t.list
            /\ s \in [pc : ReplayPhases, list : Seq(Entries), done : SUBSET delivered']
        BY <2>3, <2>5, <3>1 DEF WorkerTruthful, ReplayPhases
      <3>3. WorkerTruthful(t)'
        BY <2>1, <2>3, StaysTruthful
      <3>4. WorkerTruthful(s)'
        BY <2>3, <3>2, <3>3 DEF WorkerTruthful
      <3>5. worker' = [worker EXCEPT ![w] = s]
        <4>1. worker' = [worker EXCEPT ![w] = [worker[w] EXCEPT !.pc = "bury", !.done = done]]
          BY <2>5, MovesOf, Zenon
        <4> QED BY <2>2, <3>1, <4>1, Zenon
      <3> QED BY <2>1, <2>3, <3>4, <3>5, WorkerStepKeeps
    <2>6. CASE NextEnvelope(w)
      <3>1. PICK s : s = IF Len(t.list) = 1 THEN IdleWorker ELSE [pc |-> "prepare", list |-> Tail(t.list), done |-> {}]
        OBVIOUS
      <3>2. WorkerTruthful(s) /\ worker' = [worker EXCEPT ![w] = s]
        BY <2>2, <2>3, <2>6, <3>1, NextTruthful, MovesOf
      <3> QED BY <2>1, <2>3, <3>2, WorkerStepKeeps
    <2>7. \/ delivered' = delivered \cup OpsOf(Current(w).batch) /\ GoTo(w, "acknowledge", {})
          \/ \E landed : \E done \in {{}, landed} : delivered' = delivered \cup landed /\ GoTo(w, "bury", done)
          \/ NextEnvelope(w)
      <3>1. CASE delivered' = delivered \cup OpsOf(Current(w).batch) /\ SinkAnswer(w, OpsOf(Current(w).batch), {}, "none")
        BY <3>1 DEF SinkAnswer
      <3>2. ASSUME NEW landed, NEW failure \in {"retryable", "unknown", "permanent"}, NEW done \in {{}, landed},
                   delivered' = delivered \cup landed, SinkAnswer(w, landed, done, failure)
            PROVE  \/ \E land : \E d \in {{}, land} : delivered' = delivered \cup land /\ GoTo(w, "bury", d)
                   \/ NextEnvelope(w)
        <4>1. GoTo(w, "bury", done) \/ NextEnvelope(w)
          BY <3>2 DEF SinkAnswer
        <4> QED BY <3>2, <4>1
      <3> QED BY <1>3, <3>1, <3>2 DEF FlushWrites
    <2> QED BY <2>4, <2>5, <2>6, <2>7
  <1>4. ASSUME NEW w \in Workers, Acknowledge(w) PROVE QueueInv'
    <2>1. worker[w].pc = "acknowledge" /\ UNCHANGED <<sent, delivered, graves>>
      BY <1>4 DEF Acknowledge
    <2>2. PICK t : t = worker[w]
      OBVIOUS
    <2>3. WorkerTruthful(t) /\ GravesTruthful' /\ t.pc # "idle" /\ OpsOf(Current(w).batch) \subseteq delivered
      BY <2>1, <2>2, CurrentTraced DEF QueueInv, WorkersTruthful, GravesTruthful, WorkerTruthful
    <2>4. PICK s : s = IF Len(t.list) = 1 THEN IdleWorker ELSE [pc |-> "prepare", list |-> Tail(t.list), done |-> {}]
      OBVIOUS
    <2>5. WorkerTruthful(s) /\ WorkerTruthful(IdleWorker)
      BY <2>3, <2>4, NextTruthful, IdleTruthful
    <2>6. worker' = [worker EXCEPT ![w] = s] \/ worker' = [worker EXCEPT ![w] = IdleWorker]
      BY <1>4, <2>2, <2>4, MovesOf DEF Acknowledge
    <2>7. RemoveCopies(Current(w).copy) \/ UNCHANGED message
      BY <1>4 DEF Acknowledge
    <2> QED BY <2>1, <2>3, <2>5, <2>6, <2>7, WorkerStepKeeps
  <1>5. ASSUME NEW w \in Workers, Bury(w) PROVE QueueInv'
    <2>1. worker[w].pc = "bury" /\ UNCHANGED <<sent, delivered>> /\ graves \subseteq graves'
      BY <1>5 DEF Bury
    <2>2. PICK t : t = worker[w]
      OBVIOUS
    <2>3. WorkerTruthful(t) /\ t.pc # "idle" /\ t.done \subseteq delivered
      BY <2>1, <2>2 DEF QueueInv, WorkersTruthful, WorkerTruthful
    <2>4. graves' = graves \/ graves' = graves \cup {[batch |-> Current(w).batch, done |-> t.done]}
      BY <1>5, <2>2 DEF Bury
    <2>5. GravesTruthful'
      BY <2>1, <2>3, <2>4 DEF QueueInv, GravesTruthful
    <2>6. PICK s : s = IF Len(t.list) = 1 THEN IdleWorker ELSE [pc |-> "prepare", list |-> Tail(t.list), done |-> {}]
      OBVIOUS
    <2>7. WorkerTruthful(s) /\ WorkerTruthful(IdleWorker)
      BY <2>3, <2>6, NextTruthful, IdleTruthful
    <2>8. worker' = [worker EXCEPT ![w] = s] \/ worker' = [worker EXCEPT ![w] = IdleWorker]
      BY <1>5, <2>2, <2>6, MovesOf DEF Bury
    <2>9. \/ UNCHANGED message
          \/ RemoveCopies(Current(w).copy) /\ \E g \in graves' : g.batch = Current(w).batch
      <3>1. [batch |-> Current(w).batch, done |-> worker[w].done].batch = Current(w).batch
        OBVIOUS
      <3>2. \/ UNCHANGED message
            \/ RemoveCopies(Current(w).copy) /\ [batch |-> Current(w).batch, done |-> worker[w].done] \in graves'
        BY <1>5 DEF Bury
      <3> QED BY <3>1, <3>2, Zenon
    <2> QED BY <2>1, <2>3, <2>5, <2>7, <2>8, <2>9, WorkerStepKeeps
  <1>6. ASSUME NEW w \in Workers, WorkerStops(w) PROVE QueueInv'
    <2>1. worker[w].pc # "idle" /\ UNCHANGED <<message, sent, delivered, graves>> /\ Abandon(w)
      BY <1>6 DEF WorkerStops
    <2>2. GravesTruthful'
      BY <2>1 DEF QueueInv, GravesTruthful
    <2> QED BY <2>1, <2>2, MovesOf, IdleTruthful, WorkerStepKeeps
  <1>7. ASSUME NEW k \in Copies, Reappear(k) PROVE QueueInv'
    <2>1. message[k].state = "flight" /\ message' = [message EXCEPT ![k].state = "visible"]
          /\ UNCHANGED <<sent, worker, delivered, graves>>
      BY <1>7 DEF Reappear
    <2>2. /\ message' \in [Copies -> MessageStates] /\ CopiesAge
          /\ \A j \in Copies, b \in sent : Lives(j, b) => Lives(j, b)'
      BY <2>1 DEF QueueInv, QueueTyped, MessageStates, CopiesAge, Lives, Alive, Gone
    <2>3. ASSUME NEW v \in Workers PROVE WorkerTruthful(worker[v])'
      <3>1. PICK t : t = worker[v]
        OBVIOUS
      <3>2. WorkerTruthful(t)'
        BY <2>1, <2>2, <3>1, StaysTruthful DEF QueueInv, WorkersTruthful
      <3> QED BY <2>1, <3>1, <3>2 DEF WorkerTruthful
    <2>4. Handed'
      BY <2>1, <2>2, HandedOn
    <2> QED BY <2>1, <2>2, <2>3, <2>4 DEF QueueInv, QueueTyped, WorkersTruthful, GravesTruthful
  <1>8. CASE UNCHANGED queueVars
    BY <1>8 DEF queueVars, QueueInv, QueueTyped, WorkersTruthful, WorkerTruthful, Traced, Handed, Lives, Buried, GravesTruthful
  <1> QED BY <1>1, <1>2, <1>3, <1>4, <1>5, <1>6, <1>7, <1>8, ReceiveKeeps DEF QueueNext, WorkerStep

\* A batch the queue accepted is never dropped, and a quarantine record claims
\* only progress that was made, for any number of batches, copies and workers
\* (replay_once, quarantine).
THEOREM ReplayIsSafe == QueueSpec => []ReplaySafe
PROOF
  <1>1. QueueInv => ReplaySafe
    BY DEF QueueInv, Handed, Lives, ReplaySafe, HandoffKept, InQueue
  <1> QED BY <1>1, QueueInitial, QueueInductive, PTL DEF QueueSpec

-----------------------------------------------------------------------------
(* The remote pair                                                         *)

RemoteSpec == RemoteInit /\ [][RemoteNext]_remoteVars

Metadata == [revision : Nat, leased : BOOLEAN, until : Nat]
Pairs == [state : Seq(RemoteOps), revision : Nat, holder : Clients \cup {"none"}, until : Nat, metadata : Metadata]
Requests ==
  [pc : {"read", "check", "apply", "commit", "applied"}, op : RemoteOps, base : Pairs, next : Pairs, before : Nat, knew : BOOLEAN]

Captured(p) == p.metadata = Capture(p.revision, p.holder, p.until)

\* What an operation that got this far knows: the snapshot it read is consistent,
\* the commit adds its mutation at most, that of a settlement or a renewal carries
\* the end of the lease it was checked against, and none that began after its
\* client had observed the pair goes on from nothing.  An inspection only reads.
Prepared(q) ==
  /\ Captured(q.base) /\ Captured(q.next)
  /\ q.pc = "commit" => q.next.state = q.base.state \/ q.next.state = Append(q.base.state, q.op)
  /\ q.pc = "commit" /\ q.op[1] \in {"renew", "settle"} =>
       q.base.holder = q.op[2] /\ q.before > 0 /\ q.before <= q.base.until
  /\ q.pc \in {"apply", "commit"} /\ q.base = Missing => ~q.knew
  /\ q.op[1] = "inspect" => q.pc \in {"read", "check"}

RemoteInv ==
  /\ cell \in Pairs /\ running \subseteq Requests /\ observed \in [Clients -> BOOLEAN] /\ flight \subseteq Requests
  /\ serverTime \in Nat
  /\ Captured(cell) /\ (\A q \in running : Prepared(q)) /\ (\A q \in flight : Prepared(q) /\ q.pc = "commit")
  /\ \A q \in running : q.knew => observed[q.op[2]]
  /\ reported \subseteq ToSet(cell.state)

\* One more mutation in a state.
LEMMA ToSetAppend ==
  ASSUME NEW S, NEW s \in Seq(S), NEW e \in S
  PROVE  ToSet(Append(s, e)) = ToSet(s) \cup {e}
PROOF
  <1>1. Append(s, e) \in Seq(S) /\ Len(Append(s, e)) = Len(s) + 1 /\ Len(s) \in Nat
        /\ Append(s, e)[Len(s) + 1] = e /\ \A i \in 1 .. Len(s) : Append(s, e)[i] = s[i]
    BY AppendProperties, LenProperties
  <1>2. DOMAIN Append(s, e) = 1 .. Len(s) + 1 /\ DOMAIN s = 1 .. Len(s)
    BY <1>1, LenProperties
  <1>3. \A i : i \in 1 .. Len(s) + 1 <=> i \in 1 .. Len(s) \/ i = Len(s) + 1
    <2>1. \A n \in Nat : \A i : i \in 1 .. n + 1 <=> i \in 1 .. n \/ i = n + 1
      OBVIOUS
    <2> QED BY <1>1, <2>1, Zenon
  <1> QED BY <1>1, <1>2, <1>3, Zenon DEF ToSet

\* The pair that stands for nothing is consistent, and so is a request that has read nothing.
LEMMA MissingCaptured == Missing \in Pairs /\ Captured(Missing) /\ Missing.state = <<>>
PROOF
  <1>1. Capture(0, "none", 0) \in Metadata
    BY DEF Capture, Metadata
  <1> QED BY <1>1 DEF Missing, Pairs, Captured

LEMMA RequestPrepared ==
  ASSUME NEW op \in RemoteOps, NEW pc \in {"read", "applied"}, NEW knew \in BOOLEAN, pc = "read" \/ op[1] # "inspect"
  PROVE  /\ Request(op, pc, knew) \in Requests /\ Prepared(Request(op, pc, knew))
         /\ Request(op, pc, knew).op = op /\ Request(op, pc, knew).knew = knew /\ Request(op, pc, knew).pc = pc
PROOF
  <1>1. PICK q : q = Request(op, pc, knew)
    OBVIOUS
  <1>2. q \in Requests /\ q.op = op /\ q.pc = pc /\ q.knew = knew /\ q.base = Missing /\ q.next = Missing
    BY <1>1, MissingCaptured DEF Request, Requests
  <1> QED BY <1>1, <1>2, MissingCaptured DEF Prepared

\* The deadline of a commit is a time, and never after the lease that was active
\* before the mutation (commit_before).
LEMMA DeadlineTyped ==
  ASSUME NEW old \in Pairs, NEW new \in Pairs, NEW t \in Nat
  PROVE  /\ CommitBefore(old, new, t) \in Nat
         /\ LeaseActive(old, t) => CommitBefore(old, new, t) > 0 /\ CommitBefore(old, new, t) <= old.until
PROOF
  <1> DEFINE ends == {s.until : s \in {x \in {old, new} : LeaseActive(x, t)}}
  <1>1. \A e : e \in ends <=> (e = old.until /\ LeaseActive(old, t)) \/ (e = new.until /\ LeaseActive(new, t))
    OBVIOUS
  <1>2. old.until \in Nat /\ new.until \in Nat
    BY DEF Pairs
  <1>3. \A e \in ends : e \in Nat /\ e > t
    BY <1>1, <1>2 DEF LeaseActive
  <1>4. CASE ends = {}
    BY <1>1, <1>4 DEF CommitBefore
  <1>5. CASE ends # {}
    <2>1. \E e \in ends : \A f \in ends : e <= f
      <3>1. CASE LeaseActive(old, t) /\ LeaseActive(new, t)
        BY <1>1, <1>2, <3>1
      <3>2. CASE LeaseActive(old, t) /\ ~LeaseActive(new, t)
        BY <1>1, <1>2, <3>2
      <3>3. CASE ~LeaseActive(old, t) /\ LeaseActive(new, t)
        BY <1>1, <1>2, <3>3
      <3> QED BY <1>1, <1>5, <3>1, <3>2, <3>3
    <2>2. CommitBefore(old, new, t) = CHOOSE e \in ends : \A f \in ends : e <= f
      BY <1>5 DEF CommitBefore
    <2> HIDE DEF ends
    <2>3. CommitBefore(old, new, t) \in ends /\ \A f \in ends : CommitBefore(old, new, t) <= f
      BY <2>1, <2>2
    <2> QED BY <1>1, <1>3, <2>3
  <1> QED BY <1>4, <1>5

\* What a mutation makes of a snapshot: the same mutations, or one more.
LEMMA MutateAdds ==
  ASSUME NEW s \in Pairs, NEW op \in RemoteOps, op[1] # "inspect", NEW t \in Nat
  PROVE  /\ Mutate(s, op, t) \in Pairs
         /\ Mutate(s, op, t).state = s.state \/ Mutate(s, op, t).state = Append(s.state, op)
PROOF
  <1>1. op[1] \in OperationKinds /\ op[2] \in Clients
    BY RemoteAssumption
  <1>2. Append(s.state, op) \in Seq(RemoteOps) /\ t + LeaseMs \in Nat
    BY RemoteAssumption, AppendProperties DEF Pairs
  <1>set. \A l \in Seq(RemoteOps), h \in Clients \cup {"none"}, u \in Nat :
            /\ [s EXCEPT !.state = l, !.holder = h, !.until = u] \in Pairs
            /\ [s EXCEPT !.state = l, !.holder = h, !.until = u].state = l
    BY DEF Pairs
  <1>3. CASE op[1] = "append"
    <2>1. Mutate(s, op, t) = [s EXCEPT !.state = Append(s.state, op)]
      BY <1>3 DEF Mutate
    <2> QED BY <1>2, <2>1 DEF Pairs
  <1>4. CASE op[1] = "renew" \/ (op[1] = "claim" /\ ~LeaseActive(s, t))
    <2>1. Mutate(s, op, t) = [s EXCEPT !.state = Append(s.state, op), !.holder = op[2], !.until = t + LeaseMs]
      BY <1>4 DEF Mutate
    <2>2. op[2] \in Clients \cup {"none"}
      BY <1>1
    <2>3. /\ [s EXCEPT !.state = Append(s.state, op), !.holder = op[2], !.until = t + LeaseMs] \in Pairs
          /\ [s EXCEPT !.state = Append(s.state, op), !.holder = op[2], !.until = t + LeaseMs].state = Append(s.state, op)
      BY <1>2, <1>set, <2>2
    <2> QED BY <2>1, <2>3
  <1>5. CASE op[1] = "claim" /\ LeaseActive(s, t)
    <2>1. Mutate(s, op, t) = s
      BY <1>5 DEF Mutate
    <2> QED BY <2>1
  <1>6. CASE op[1] = "settle"
    <2>1. Mutate(s, op, t) = [s EXCEPT !.state = Append(s.state, op), !.holder = "none", !.until = 0]
      BY <1>6 DEF Mutate
    <2>2. 0 \in Nat /\ "none" \in Clients \cup {"none"}
      OBVIOUS
    <2>3. /\ [s EXCEPT !.state = Append(s.state, op), !.holder = "none", !.until = 0] \in Pairs
          /\ [s EXCEPT !.state = Append(s.state, op), !.holder = "none", !.until = 0].state = Append(s.state, op)
      BY <1>2, <1>set, <2>2
    <2> QED BY <2>1, <2>3
  <1> QED BY <1>1, <1>3, <1>4, <1>5, <1>6 DEF OperationKinds

\* The invariant holds before anything is stored.
LEMMA RemoteInitial == RemoteInit => RemoteInv
PROOF
  BY MissingCaptured DEF RemoteInit, RemoteInv

\* One operation goes on and the stored pair stays.
LEMMA OperationMoves ==
  ASSUME RemoteInv, NEW q, NEW more, running' = (running \ {q}) \cup more,
         \A r \in more : r \in Requests /\ Prepared(r) /\ (r.knew => observed'[r.op[2]]),
         observed' \in [Clients -> BOOLEAN], \A c \in Clients : observed[c] => observed'[c],
         flight' = flight \/ (flight' = flight \cup {q} /\ q \in running /\ q.pc = "commit"),
         UNCHANGED <<cell, serverTime, reported>>
  PROVE  RemoteInv'
PROOF
  <1>1. running' \subseteq Requests /\ \A r \in running' : Prepared(r)
    BY DEF RemoteInv
  <1>2. \A r \in running : r.op[2] \in Clients
    BY RemoteAssumption DEF RemoteInv, Requests
  <1>3. \A r \in running' : r.knew => observed'[r.op[2]]
    BY <1>2 DEF RemoteInv
  <1>4. flight' \subseteq Requests /\ \A p \in flight' : Prepared(p) /\ p.pc = "commit"
    BY DEF RemoteInv
  <1> QED BY <1>1, <1>3, <1>4 DEF RemoteInv, Prepared, Captured

\* One operation ends and the stored pair stays.
LEMMA OperationEnds ==
  ASSUME RemoteInv, NEW q \in running, Ends(q),
         observed' \in [Clients -> BOOLEAN], \A c \in Clients : observed[c] => observed'[c],
         flight' = flight \/ (q.pc = "commit" /\ flight' = flight \cup {q}),
         UNCHANGED <<cell, serverTime, reported>>
  PROVE  RemoteInv'
PROOF
  <1>1. running' \subseteq running /\ flight' \subseteq flight \cup {q} /\ (q \in flight' => q.pc = "commit" \/ q \in flight)
    BY DEF Ends
  <1>2. \A r \in running : r.op[2] \in Clients
    BY RemoteAssumption DEF RemoteInv, Requests
  <1>3. \A r \in running' : r \in Requests /\ Prepared(r) /\ (r.knew => observed'[r.op[2]])
    BY <1>1, <1>2 DEF RemoteInv
  <1>4. flight' \subseteq Requests /\ \A p \in flight' : Prepared(p) /\ p.pc = "commit"
    BY <1>1 DEF RemoteInv
  <1> QED BY <1>3, <1>4 DEF RemoteInv, Prepared, Captured

\* What a commit that applies does to the stored pair (the commit script).
LEMMA CommitApplies ==
  ASSUME RemoteInv, NEW q \in Requests, Prepared(q), q.pc = "commit", ScriptApplies(q), cell' = q.next
  PROVE  /\ cell' \in Pairs /\ Captured(cell)' /\ q.op \in RemoteOps
         /\ cell'.state = cell.state \/ cell'.state = Append(cell.state, q.op)
         /\ ToSet(cell.state) \subseteq ToSet(cell'.state)
         /\ cell'.state # cell.state => ToSet(cell'.state) = ToSet(cell.state) \cup {q.op}
         /\ q.op[1] \in {"renew", "settle"} => cell.holder = q.op[2] /\ serverTime < cell.until
PROOF
  <1>1. cell = q.base /\ (q.before > 0 => serverTime < q.before) /\ q.op \in RemoteOps /\ q.next \in Pairs
    BY DEF ScriptApplies, Requests
  <1>2. q.next.state = cell.state \/ q.next.state = Append(cell.state, q.op)
    BY <1>1 DEF Prepared
  <1>3. Captured(cell)'
    BY DEF Prepared, Captured
  <1>4. ToSet(Append(cell.state, q.op)) = ToSet(cell.state) \cup {q.op}
    BY <1>1, ToSetAppend DEF RemoteInv, Pairs
  <1>5. ASSUME q.op[1] \in {"renew", "settle"} PROVE cell.holder = q.op[2] /\ serverTime < cell.until
    <2>1. q.base.holder = q.op[2] /\ q.before > 0 /\ q.before <= q.base.until
      BY <1>5 DEF Prepared
    <2>2. q.before \in Nat /\ q.base.until \in Nat /\ serverTime \in Nat
      BY DEF Requests, Pairs, RemoteInv
    <2> QED BY <1>1, <2>1, <2>2
  <1> QED BY <1>1, <1>2, <1>3, <1>4, <1>5

\* Every step of the clients and the server keeps the invariant.
LEMMA RemoteInductive == RemoteInv /\ [RemoteNext]_remoteVars => RemoteInv'
PROOF
  <1> SUFFICES ASSUME RemoteInv, [RemoteNext]_remoteVars PROVE RemoteInv'
    OBVIOUS
  <1>run. \A q \in running : /\ q \in Requests /\ Prepared(q) /\ q.op \in RemoteOps /\ q.op[2] \in Clients /\ q.knew \in BOOLEAN
                             /\ q.base \in Pairs /\ q.next \in Pairs /\ (q.knew => observed[q.op[2]])
    BY RemoteAssumption DEF RemoteInv, Requests
  <1>1. ASSUME NEW op \in RemoteOps, BeginOperation(op) PROVE RemoteInv'
    <2>1. PICK r : r = Request(op, "read", observed[op[2]])
      OBVIOUS
    <2>2. op[2] \in Clients /\ observed[op[2]] \in BOOLEAN
      BY RemoteAssumption DEF RemoteInv
    <2>3. r \in Requests /\ Prepared(r) /\ r.op = op /\ r.knew = observed[op[2]]
      BY <2>1, <2>2, RequestPrepared
    <2>4. running' = running \cup {r} /\ UNCHANGED <<cell, observed, flight, serverTime, reported>>
      BY <1>1, <2>1 DEF BeginOperation
    <2>5. running' \subseteq Requests /\ (\A p \in running' : Prepared(p)) /\ \A p \in running' : p.knew => observed'[p.op[2]]
      BY <2>3, <2>4 DEF RemoteInv
    <2> QED BY <2>4, <2>5 DEF RemoteInv, Prepared, Captured
  <1>2. ASSUME NEW q \in running, ReadState(q) PROVE RemoteInv'
    <2>1. PICK r : r = [q EXCEPT !.pc = "check", !.base = cell]
      OBVIOUS
    <2>2. r \in Requests /\ r.pc = "check" /\ r.op = q.op /\ r.base = cell /\ r.next = q.next /\ r.knew = q.knew
      BY <1>run, <2>1 DEF Requests, RemoteInv
    <2>3. Prepared(r)
      BY <1>run, <2>2 DEF Prepared, RemoteInv
    <2>4. running' = (running \ {q}) \cup {r} /\ UNCHANGED <<cell, observed, flight, serverTime, reported>>
      BY <1>2, <2>1 DEF ReadState, GoesOn
    <2> QED BY <1>run, <2>2, <2>3, <2>4, OperationMoves DEF RemoteInv
  <1>3. ASSUME NEW q \in running, RecordPresence(q) PROVE RemoteInv'
    <2>1. /\ observed' \in [Clients -> BOOLEAN] /\ (\A c \in Clients : observed[c] => observed'[c])
          /\ UNCHANGED <<cell, flight, serverTime, reported>> /\ q.pc = "check"
      BY <1>3, <1>run DEF RecordPresence, RemoteInv
    <2>2. CASE q.op[1] = "inspect" \/ (q.base = Missing /\ observed[q.op[2]])
      <3>1. Ends(q)
        BY <1>3, <2>2 DEF RecordPresence
      <3> QED BY <2>1, <3>1, OperationEnds
    <2>3. CASE ~(q.op[1] = "inspect" \/ (q.base = Missing /\ observed[q.op[2]]))
      <3>1. PICK r : r = [q EXCEPT !.pc = "apply"]
        OBVIOUS
      <3>2. r \in Requests /\ r.pc = "apply" /\ r.op = q.op /\ r.base = q.base /\ r.next = q.next /\ r.knew = q.knew
        BY <1>run, <3>1 DEF Requests
      <3>3. Prepared(r)
        BY <1>run, <2>3, <3>2 DEF Prepared
      <3>4. running' = (running \ {q}) \cup {r}
        BY <1>3, <2>3, <3>1 DEF RecordPresence, GoesOn
      <3>5. r.knew => observed'[r.op[2]]
        BY <1>run, <2>1, <3>2
      <3>6. flight' = flight /\ \A p \in {r} : p \in Requests /\ Prepared(p) /\ (p.knew => observed'[p.op[2]])
        BY <2>1, <3>2, <3>3, <3>5
      <3> QED BY <2>1, <3>4, <3>6, OperationMoves, Zenon
    <2> QED BY <2>2, <2>3
  <1>4. ASSUME NEW q \in running, ApplyMutation(q) PROVE RemoteInv'
    <2>1. q.pc = "apply" /\ serverTime \in Nat /\ Captured(q.base) /\ q.op[1] # "inspect"
      BY <1>4, <1>run DEF ApplyMutation, RemoteInv, Prepared
    <2>2. UNCHANGED <<cell, observed, flight, serverTime, reported>>
      BY <1>4 DEF ApplyMutation
    <2>3. CASE ~Permitted(q.base, q.op, serverTime)
      <3>1. running' = (running \ {q}) \cup {}
        BY <1>4, <2>3 DEF ApplyMutation, Ends
      <3> QED BY <2>2, <3>1, OperationMoves DEF RemoteInv
    <2>4. CASE Permitted(q.base, q.op, serverTime)
      <3>1. PICK new : new = Mutate(q.base, q.op, serverTime)
        OBVIOUS
      <3>2. new \in Pairs /\ (new.state = q.base.state \/ new.state = Append(q.base.state, q.op))
        BY <1>run, <2>1, <3>1, MutateAdds
      <3>3. PICK next : next = Encoded(new)
        OBVIOUS
      <3>4. next \in Pairs /\ Captured(next) /\ next.state = new.state
        <4>1. new.revision + 1 \in Nat /\ Capture(new.revision + 1, new.holder, new.until) \in Metadata
          BY <3>2 DEF Capture, Metadata, Pairs
        <4> QED BY <3>2, <3>3, <4>1 DEF Pairs, Captured, Encoded
      <3>5. PICK before : before = CommitBefore(q.base, next, serverTime)
        OBVIOUS
      <3>6. before \in Nat /\ (LeaseActive(q.base, serverTime) => before > 0 /\ before <= q.base.until)
        BY <1>run, <2>1, <3>4, <3>5, DeadlineTyped
      <3>7. PICK r : r = [q EXCEPT !.pc = "commit", !.next = next, !.before = before]
        OBVIOUS
      <3>8. /\ r \in Requests /\ r.pc = "commit" /\ r.op = q.op /\ r.base = q.base /\ r.next = next /\ r.before = before
            /\ r.knew = q.knew
        BY <1>run, <3>4, <3>6, <3>7 DEF Requests
      <3>9. Prepared(r)
        BY <1>run, <2>1, <2>4, <3>2, <3>4, <3>6, <3>8 DEF Prepared, Permitted
      <3>10. running' = (running \ {q}) \cup {r}
        BY <1>4, <2>4, <3>1, <3>3, <3>5, <3>7 DEF ApplyMutation, GoesOn
      <3> QED BY <1>run, <2>2, <3>8, <3>9, <3>10, OperationMoves DEF RemoteInv
    <2> QED BY <2>3, <2>4
  <1>5. ASSUME NEW q \in running, CommitSnapshot(q) PROVE RemoteInv'
    <2>1. q.pc = "commit" /\ q.op[1] # "inspect" /\ UNCHANGED <<observed, flight, serverTime>>
      BY <1>5, <1>run DEF CommitSnapshot, Prepared
    <2>2. CASE ScriptApplies(q)
      <3>1. PICK r : r = Request(q.op, "applied", q.knew)
        OBVIOUS
      <3>2. r \in Requests /\ Prepared(r) /\ r.op = q.op /\ r.knew = q.knew
        BY <1>run, <2>1, <3>1, RequestPrepared
      <3>3. /\ cell' = q.next /\ running' = (running \ {q}) \cup {r}
            /\ reported' = IF q.next.state # q.base.state THEN reported \cup {q.op} ELSE reported
        BY <1>5, <2>2, <3>1 DEF CommitSnapshot, GoesOn
      <3>4. /\ cell' \in Pairs /\ Captured(cell)' /\ ToSet(cell.state) \subseteq ToSet(cell'.state)
            /\ cell'.state # cell.state => ToSet(cell'.state) = ToSet(cell.state) \cup {q.op}
        BY <1>run, <2>1, <2>2, <3>3, CommitApplies
      <3>5. reported' \subseteq ToSet(cell'.state)
        BY <2>2, <3>3, <3>4 DEF RemoteInv, ScriptApplies
      <3>6. running' \subseteq Requests /\ (\A p \in running' : Prepared(p)) /\ \A p \in running' : p.knew => observed'[p.op[2]]
        BY <1>run, <2>1, <3>2, <3>3
      <3> QED BY <2>1, <3>4, <3>5, <3>6 DEF RemoteInv, Prepared, Captured
    <2>3. CASE ~ScriptApplies(q)
      <3>1. PICK r : r = Request(q.op, "read", q.knew)
        OBVIOUS
      <3>2. r \in Requests /\ Prepared(r) /\ r.op = q.op /\ r.knew = q.knew
        BY <1>run, <3>1, RequestPrepared
      <3>3. running' = (running \ {q}) \cup {r} /\ UNCHANGED <<cell, reported>>
        BY <1>5, <2>3, <3>1 DEF CommitSnapshot, GoesOn
      <3> QED BY <1>run, <2>1, <3>2, <3>3, OperationMoves DEF RemoteInv
    <2> QED BY <2>2, <2>3
  <1>6. ASSUME NEW q \in running, RecordCommit(q) \/ RemoteDeadline(q) PROVE RemoteInv'
    <2>1. /\ observed' \in [Clients -> BOOLEAN] /\ (\A c \in Clients : observed[c] => observed'[c])
          /\ Ends(q) /\ UNCHANGED <<cell, serverTime, reported>>
          /\ (flight' = flight \/ (q.pc = "commit" /\ flight' = flight \cup {q}))
      BY <1>6, <1>run DEF RecordCommit, RemoteDeadline, RemoteInv
    <2> QED BY <2>1, OperationEnds
  <1>7. ASSUME NEW q \in flight, LateCommit(q) PROVE RemoteInv'
    <2>1. q \in Requests /\ Prepared(q) /\ q.pc = "commit" /\ flight' \subseteq flight
          /\ UNCHANGED <<running, observed, serverTime, reported>>
      BY <1>7 DEF RemoteInv, LateCommit
    <2>2. CASE ScriptApplies(q)
      <3>1. cell' = q.next
        BY <1>7, <2>2 DEF LateCommit
      <3>2. cell' \in Pairs /\ Captured(cell)' /\ ToSet(cell.state) \subseteq ToSet(cell'.state)
        BY <2>1, <2>2, <3>1, CommitApplies
      <3> QED BY <2>1, <3>2 DEF RemoteInv, Prepared, Captured
    <2>3. CASE ~ScriptApplies(q)
      BY <1>7, <2>1, <2>3 DEF LateCommit, RemoteInv, Prepared, Captured
    <2> QED BY <2>2, <2>3
  <1>8. CASE LoseState
    BY <1>8, MissingCaptured DEF LoseState, RemoteInv, Prepared, Captured
  <1>9. CASE ServerTick \/ UNCHANGED remoteVars
    BY <1>9 DEF ServerTick, remoteVars, RemoteInv, Prepared, Captured
  <1> QED BY <1>1, <1>2, <1>3, <1>4, <1>5, <1>6, <1>7, <1>8, <1>9 DEF RemoteNext

\* Which steps change the stored pair, and how.
LEMMA PairSteps ==
  ASSUME RemoteInv, RemoteNext
  PROVE  \/ UNCHANGED cell
         \/ cell' = Missing
         \/ \E q \in Requests : /\ Prepared(q) /\ q.pc = "commit" /\ ScriptApplies(q) /\ cell' = q.next
                                /\ (running \ running') \cup (flight \ flight') \subseteq {q}
PROOF
  <1>1. ASSUME NEW q \in running, CommitSnapshot(q), ScriptApplies(q)
        PROVE  /\ q \in Requests /\ Prepared(q) /\ q.pc = "commit" /\ cell' = q.next
               /\ (running \ running') \cup (flight \ flight') \subseteq {q}
    BY <1>1 DEF CommitSnapshot, RemoteInv, GoesOn
  <1>2. ASSUME NEW q \in running, CommitSnapshot(q), ~ScriptApplies(q) PROVE UNCHANGED cell
    BY <1>2 DEF CommitSnapshot
  <1>3. ASSUME NEW q \in flight, LateCommit(q), ScriptApplies(q)
        PROVE  /\ q \in Requests /\ Prepared(q) /\ q.pc = "commit" /\ cell' = q.next
               /\ (running \ running') \cup (flight \ flight') \subseteq {q}
    BY <1>3 DEF LateCommit, RemoteInv
  <1>4. ASSUME NEW q \in flight, LateCommit(q), ~ScriptApplies(q) PROVE UNCHANGED cell
    BY <1>4 DEF LateCommit
  <1>5. CASE \/ \E op \in RemoteOps : BeginOperation(op)
             \/ \E q \in running : ReadState(q) \/ RecordPresence(q) \/ ApplyMutation(q) \/ RecordCommit(q) \/ RemoteDeadline(q)
    BY <1>5 DEF BeginOperation, ReadState, RecordPresence, ApplyMutation, RecordCommit, RemoteDeadline
  <1>6. CASE LoseState \/ ServerTick
    BY <1>6 DEF LoseState, ServerTick
  <1>7. CASE \E q \in running : CommitSnapshot(q)
    BY <1>1, <1>2, <1>7
  <1>8. CASE \E q \in flight : LateCommit(q)
    BY <1>3, <1>4, <1>8
  <1> QED BY <1>5, <1>6, <1>7, <1>8 DEF RemoteNext

\* However the operations of one client or of several overlap and whenever a
\* commit lands, the pair changes by whole mutations and none is lost, a settlement
\* takes effect inside the lease it was checked against, the metadata follows, and
\* no operation begun after its client had observed the pair writes over its loss
\* (commit_mutation, the commit script, record_retention_presence).
THEOREM RemotePairIsSafe == RemoteSpec => RemotePairSafe
PROOF
  <1>1. RemoteInv => MetadataAgrees
    <2> SUFFICES ASSUME RemoteInv PROVE MetadataAgrees
      OBVIOUS
    <2>1. /\ cell.metadata.revision = cell.revision /\ cell.metadata.leased = (cell.holder # "none")
          /\ cell.metadata.until = cell.until
      BY DEF RemoteInv, Captured, Capture
    <2>2. InFlight(cell.metadata, serverTime) <=> LeaseActive(cell, serverTime)
      BY <2>1 DEF InFlight, LeaseActive
    <2>3. InFlight(cell.metadata, serverTime) \in BOOLEAN /\ LeaseActive(cell, serverTime) \in BOOLEAN
      BY DEF InFlight, LeaseActive
    <2> QED BY <2>1, <2>2, <2>3 DEF MetadataAgrees
  <1>2. RemoteInv /\ RemoteInv' /\ [RemoteNext]_remoteVars =>
          [/\ cell' = Missing \/ cell'.state = cell.state \/ \E op \in RemoteOps : cell'.state = Append(cell.state, op)
           /\ reported' \subseteq ToSet(cell'.state)]_remoteVars
    <2> SUFFICES ASSUME RemoteInv, RemoteInv', RemoteNext
                 PROVE  /\ cell' = Missing \/ cell'.state = cell.state \/ \E op \in RemoteOps : cell'.state = Append(cell.state, op)
                        /\ reported' \subseteq ToSet(cell'.state)
      OBVIOUS
    <2>1. cell' = Missing \/ cell'.state = cell.state \/ \E op \in RemoteOps : cell'.state = Append(cell.state, op)
      BY PairSteps, CommitApplies
    <2> QED BY <2>1 DEF RemoteInv
  <1>3. RemoteInv /\ [RemoteNext]_remoteVars =>
          [\A k \in {"renew", "settle"}, c \in Clients :
             (<<k, c>> \in ToSet(cell'.state) /\ <<k, c>> \notin ToSet(cell.state)) =>
               cell.holder = c /\ serverTime < cell.until]_remoteVars
    <2> SUFFICES ASSUME RemoteInv, RemoteNext, NEW k \in {"renew", "settle"}, NEW c \in Clients,
                        <<k, c>> \in ToSet(cell'.state), <<k, c>> \notin ToSet(cell.state)
                 PROVE  cell.holder = c /\ serverTime < cell.until
      OBVIOUS
    <2>1. ToSet(Missing.state) = {}
      BY MissingCaptured DEF ToSet
    <2>2. PICK q \in Requests : Prepared(q) /\ q.pc = "commit" /\ ScriptApplies(q) /\ cell' = q.next
      BY <2>1, PairSteps
    <2>3. q.op = <<k, c>>
      BY <2>2, CommitApplies
    <2>4. q.op[1] = k /\ q.op[2] = c
      BY <2>3
    <2> QED BY <2>2, <2>4, CommitApplies
  <1>4. RemoteInv /\ [RemoteNext]_remoteVars =>
          [\A q \in (running \ running') \cup (flight \ flight') :
             q.pc = "commit" /\ cell = Missing /\ cell' # Missing => ~q.knew]_remoteVars
    <2> SUFFICES ASSUME RemoteInv, RemoteNext, NEW q \in (running \ running') \cup (flight \ flight'),
                        cell = Missing, cell' # Missing
                 PROVE  ~q.knew
      OBVIOUS
    <2>1. Prepared(q) /\ q.pc = "commit" /\ ScriptApplies(q)
      BY PairSteps
    <2> QED BY <2>1 DEF Prepared, ScriptApplies
  <1> QED BY <1>1, <1>2, <1>3, <1>4, RemoteInitial, RemoteInductive, PTL
       DEF RemoteSpec, RemotePairSafe, NoLostUpdate, SettledInsideLease, LossIsReported

-----------------------------------------------------------------------------
(* The disk journal                                                        *)

DiskSpec == DiskInit /\ [][DiskNext]_diskVars

Frames == [state : Seq(Mutations), form : {"complete", "torn", "garbage"}]
Files == [header : {"none", "ok", "torn"}, settled : BOOLEAN, frames : Seq(Frames), synced : Nat]

\* a is the beginning of b.
Begins(a, b) == Len(a) <= Len(b) /\ \A i \in 1 .. Len(a) : a[i] = b[i]

\* The frames a recovery keeps, those it keeps whatever a power loss takes, and
\* the state of a frame.
Kept(f) ==
  IF Len(f.frames) > 0 /\ f.frames[Len(f.frames)].form # "complete" THEN Len(f.frames) - 1 ELSE Len(f.frames)
Durable(f) == IF ~f.settled THEN 0 ELSE IF f.synced <= Kept(f) THEN f.synced ELSE Kept(f)
StateAt(f, n) == IF n = 0 THEN <<>> ELSE f.frames[n].state

\* The register's history has this state behind it, or this state has one
\* mutation more, which nobody was told of.
Ahead(s, state) == \E m \in Mutations : m \notin ToSet(state) /\ s = Append(state, m)

\* A file the journal's name may stand for: only its last frame may be damaged,
\* every frame extends the one before, and the acknowledged mutations are in the
\* first state a power loss can bring back.
FileSound(f, state, told) ==
  /\ f \in Files /\ f.synced <= Len(f.frames)
  /\ \A i \in 1 .. Len(f.frames) : i < Len(f.frames) => f.frames[i].form = "complete"
  /\ \A i, j \in 1 .. Len(f.frames) : i <= j => Begins(f.frames[i].state, f.frames[j].state)
  /\ f.header = "none" => f = Absent
  /\ told \subseteq ToSet(StateAt(f, Durable(f)))
  /\ Begins(StateAt(f, Kept(f)), state) \/ Ahead(StateAt(f, Kept(f)), state)

ProviderTyped ==
  provider \in [pc : {"down", "header", "headersync", "ready", "frame", "payload", "sync", "compact", "dirsync"},
                state : Seq(Mutations), corrupt : BOOLEAN, failed : BOOLEAN, op : Mutations \cup {NoOp}]

\* The mutation a provider has begun is new.
OpIsNew == provider.op \in Mutations /\ provider.op \notin ToSet(provider.state)
\* All of the journal's frames are complete and its last state is the provider's.
Level == Kept(journal) = Len(journal.frames) /\ StateAt(journal, Len(journal.frames)) = provider.state

ProviderAgrees ==
  /\ journal.header = "none" => shadow = {}
  /\ provider.pc \notin {"down", "header"} => journal.header # "none"
  /\ provider.pc \in {"header", "headersync"} => journal.frames = <<>> /\ provider.state = <<>>
  /\ provider.pc \in {"header", "headersync"} => ~provider.corrupt /\ ~provider.failed
  /\ provider.pc = "header" => journal = Absent /\ shadow = {}
  /\ Usable => Level /\ shadow = {}
  /\ provider.pc \in {"frame", "compact"} => Level /\ shadow = {}
  /\ provider.pc = "dirsync" => Level
  /\ provider.pc \in {"frame", "payload", "sync"} => OpIsNew
  /\ provider.pc \in {"compact", "dirsync"} => provider.op = NoOp \/ OpIsNew
  /\ provider.pc \in {"header", "headersync", "ready"} => provider.op = NoOp
  /\ provider.pc \in {"payload", "sync"} =>
       /\ shadow = {} /\ Len(journal.frames) > 0 /\ StateAt(journal, Len(journal.frames) - 1) = provider.state
       /\ journal.frames[Len(journal.frames)].state = Append(provider.state, provider.op)
       /\ journal.frames[Len(journal.frames)].form = IF provider.pc = "payload" THEN "torn" ELSE "complete"

DiskInv ==
  /\ ProviderTyped /\ ProviderAgrees /\ FileSound(journal, provider.state, diskAcked)
  /\ \A f \in shadow : FileSound(f, provider.state, diskAcked) /\ Begins(StateAt(f, Kept(f)), provider.state)

\* Beginnings of sequences.
LEMMA BeginsOrder ==
  ASSUME NEW S, NEW a \in Seq(S), NEW b \in Seq(S), NEW c \in Seq(S)
  PROVE  /\ Begins(a, a) /\ Begins(<<>>, a)
         /\ Begins(a, b) /\ Begins(b, c) => Begins(a, c)
         /\ Begins(a, b) => ToSet(a) \subseteq ToSet(b)
         /\ Begins(a, b) => Len(a) \in 0 .. Len(b) /\ a = SubSeq(b, 1, Len(a))
PROOF
  <1>1. /\ Len(a) \in Nat /\ Len(b) \in Nat /\ Len(c) \in Nat /\ Len(<<>>) = 0
        /\ DOMAIN a = 1 .. Len(a) /\ DOMAIN b = 1 .. Len(b)
    BY LenProperties, EmptySeq
  <1>2. Begins(a, a) /\ Begins(<<>>, a)
    BY <1>1 DEF Begins
  <1>3. ASSUME Begins(a, b), Begins(b, c) PROVE Begins(a, c)
    BY <1>1, <1>3 DEF Begins
  <1>4. ASSUME Begins(a, b) PROVE \A i \in 1 .. Len(a) : i \in 1 .. Len(b) /\ a[i] = b[i]
    BY <1>1, <1>4 DEF Begins
  <1>5. ASSUME Begins(a, b) PROVE ToSet(a) \subseteq ToSet(b)
    BY <1>1, <1>4, <1>5 DEF ToSet
  <1>6. ASSUME Begins(a, b) PROVE Len(a) \in 0 .. Len(b) /\ a = SubSeq(b, 1, Len(a))
    <2>1. Len(a) \in 0 .. Len(b)
      BY <1>1, <1>6 DEF Begins
    <2>2. \A i \in 1 .. Len(a) : b[i] \in S
      BY <1>4, <1>6, ElementOfSeq
    <2>3. SubSeq(b, 1, Len(a)) \in Seq(S) /\ Len(SubSeq(b, 1, Len(a))) = Len(a)
          /\ \A i \in 1 .. Len(a) : SubSeq(b, 1, Len(a))[i] = b[i]
      BY <1>1, <2>2, SubSeqProperties
    <2>4. \A i \in 1 .. Len(a) : a[i] = SubSeq(b, 1, Len(a))[i]
      BY <1>4, <1>6, <2>3
    <2> QED BY <2>1, <2>3, <2>4, SeqEqual
  <1> QED BY <1>2, <1>3, <1>5, <1>6

\* A beginning of a beginning.
LEMMA BeginsThrough ==
  ASSUME NEW a \in Seq(Mutations), NEW b \in Seq(Mutations), NEW c \in Seq(Mutations), Begins(a, b), Begins(b, c)
  PROVE  Begins(a, c)
  BY BeginsOrder

\* A beginning of a sequence with one element more.
LEMMA BeginsOneMore ==
  ASSUME NEW S, NEW s \in Seq(S), NEW t \in Seq(S), NEW m \in S
  PROVE  /\ Begins(t, Append(t, m))
         /\ Begins(s, Append(t, m)) => Begins(s, t) \/ s = Append(t, m)
PROOF
  <1>1. /\ Append(t, m) \in Seq(S) /\ Len(Append(t, m)) = Len(t) + 1 /\ Len(t) \in Nat /\ Len(s) \in Nat
        /\ \A i \in 1 .. Len(t) : Append(t, m)[i] = t[i]
    BY AppendProperties, LenProperties
  <1>2. Begins(t, Append(t, m))
    BY <1>1 DEF Begins
  <1>3. ASSUME Begins(s, Append(t, m)), Len(s) <= Len(t) PROVE Begins(s, t)
    BY <1>1, <1>3 DEF Begins
  <1>4. ASSUME Begins(s, Append(t, m)), ~(Len(s) <= Len(t)) PROVE s = Append(t, m)
    <2>1. Len(s) = Len(Append(t, m)) /\ \A i \in 1 .. Len(s) : s[i] = Append(t, m)[i]
      BY <1>1, <1>4 DEF Begins
    <2> QED BY <1>1, <2>1, SeqEqual
  <1> QED BY <1>2, <1>3, <1>4

\* What is true of a sound file's frames.
LEMMA FileFacts ==
  ASSUME NEW f, NEW state \in Seq(Mutations), NEW told, FileSound(f, state, told)
  PROVE  /\ Len(f.frames) \in Nat /\ f.synced \in Nat /\ Kept(f) \in 0 .. Len(f.frames) /\ Durable(f) \in 0 .. Kept(f)
         /\ \A n \in 0 .. Len(f.frames) : StateAt(f, n) \in Seq(Mutations)
         /\ \A n, k \in 0 .. Len(f.frames) : n <= k => Begins(StateAt(f, n), StateAt(f, k))
PROOF
  <1>1. f.frames \in Seq(Frames) /\ f.synced \in Nat
    BY DEF FileSound, Files
  <1>2. Len(f.frames) \in Nat
    BY <1>1, LenProperties
  <1>3. Kept(f) \in 0 .. Len(f.frames)
    BY <1>2 DEF Kept
  <1>4. Durable(f) \in 0 .. Kept(f)
    BY <1>1, <1>3 DEF Durable
  <1>5. \A n \in 1 .. Len(f.frames) : f.frames[n].state \in Seq(Mutations)
    <2>1. \A n \in 1 .. Len(f.frames) : f.frames[n] \in Frames
      BY <1>1, ElementOfSeq
    <2> QED BY <2>1 DEF Frames
  <1>6. <<>> \in Seq(Mutations)
    BY EmptySeq
  <1>7. ASSUME NEW n \in 0 .. Len(f.frames) PROVE StateAt(f, n) \in Seq(Mutations)
    BY <1>2, <1>5, <1>6 DEF StateAt
  <1>8. ASSUME NEW n \in 0 .. Len(f.frames), NEW k \in 0 .. Len(f.frames), n <= k PROVE Begins(StateAt(f, n), StateAt(f, k))
    <2>1. CASE n = 0
      BY <1>7, <2>1, BeginsOrder DEF StateAt
    <2>2. CASE n # 0
      <3>1. n \in 1 .. Len(f.frames) /\ k \in 1 .. Len(f.frames) /\ k # 0
        BY <1>2, <1>8, <2>2
      <3> QED BY <1>8, <2>2, <3>1 DEF FileSound, StateAt
    <2> QED BY <2>1, <2>2
  <1> QED BY <1>1, <1>2, <1>3, <1>4, <1>7, <1>8

\* recover_journal keeps the frames before the first damaged one and restores the last of them.
LEMMA RecoverKeeps ==
  ASSUME NEW f, NEW state \in Seq(Mutations), NEW told, FileSound(f, state, told)
  PROVE  /\ Recover(f).kept = Kept(f) /\ Recover(f).state = StateAt(f, Kept(f)) /\ Recover(f).ok = (f.header # "torn")
         /\ Recover(f).corrupt => Kept(f) < Len(f.frames)
         /\ Recover(f).corrupt \in BOOLEAN
PROOF
  <1>1. Len(f.frames) \in Nat /\ Kept(f) \in 0 .. Len(f.frames)
    BY FileFacts
  <1>2. Kept(f) \in Intact(f.frames)
    <2>1. \A i \in 1 .. Kept(f) : f.frames[i].form = "complete"
      <3>1. ASSUME NEW i \in 1 .. Kept(f) PROVE f.frames[i].form = "complete"
        <4>1. CASE i < Len(f.frames)
          BY <1>1, <4>1 DEF FileSound
        <4>2. CASE ~(i < Len(f.frames))
          BY <1>1, <4>2 DEF Kept
        <4> QED BY <4>1, <4>2
      <3> QED BY <3>1
    <2> QED BY <1>1, <2>1 DEF Intact
  <1>3. \A n \in Intact(f.frames) : n \in Nat /\ n <= Kept(f)
    <2>1. ASSUME NEW n \in Intact(f.frames) PROVE n \in Nat /\ n <= Kept(f)
      <3>1. n \in 0 .. Len(f.frames) /\ \A i \in 1 .. n : f.frames[i].form = "complete"
        BY DEF Intact
      <3>2. CASE n = Len(f.frames)
        BY <1>1, <3>1, <3>2 DEF Kept
      <3>3. CASE n # Len(f.frames)
        BY <1>1, <3>1, <3>3 DEF Kept
      <3> QED BY <3>2, <3>3
    <2> QED BY <2>1
  <1> DEFINE best == CHOOSE x \in Intact(f.frames) : \A y \in Intact(f.frames) : y <= x
  <1>4. best \in Intact(f.frames) /\ \A y \in Intact(f.frames) : y <= best
    BY <1>1, <1>2, <1>3
  <1>5. best = Kept(f)
    <2>1. Kept(f) <= best /\ best <= Kept(f) /\ best \in Nat /\ Kept(f) \in Nat
      BY <1>1, <1>2, <1>3, <1>4
    <2> HIDE DEF best
    <2> QED BY <2>1
  <1>6. Recover(f) = [ok |-> f.header # "torn", state |-> IF best = 0 THEN <<>> ELSE f.frames[best].state,
                      corrupt |-> best < Len(f.frames) /\ f.frames[best + 1].form = "garbage", kept |-> best]
    BY DEF Recover
  <1> HIDE DEF best
  <1>7. /\ Recover(f).kept = Kept(f) /\ Recover(f).state = StateAt(f, Kept(f)) /\ Recover(f).ok = (f.header # "torn")
    BY <1>5, <1>6 DEF StateAt
  <1>8. Recover(f).corrupt = (best < Len(f.frames) /\ f.frames[best + 1].form = "garbage")
    BY <1>6
  <1>9. Recover(f).corrupt \in BOOLEAN /\ (Recover(f).corrupt => best < Len(f.frames))
    BY <1>8, Zenon
  <1> QED BY <1>5, <1>7, <1>9

\* What is left of a sound file is sound while it keeps the durable frames.
LEMMA CutSound ==
  ASSUME NEW f, NEW state \in Seq(Mutations), NEW told, FileSound(f, state, told), NEW g \in Files, g.synced <= Len(g.frames), Len(g.frames) <= Len(f.frames),
         \A i \in 1 .. Len(g.frames) : g.frames[i].state = f.frames[i].state,
         \A i \in 1 .. Len(g.frames) : i < Len(g.frames) => g.frames[i].form = "complete",
         g.header = "none" => g = Absent, Durable(f) <= Durable(g), Kept(g) <= Kept(f)
  PROVE  /\ FileSound(g, state, told)
         /\ Begins(StateAt(f, Kept(f)), state) => Begins(StateAt(g, Kept(g)), state)
PROOF
  <1>1. /\ Len(f.frames) \in Nat /\ Kept(f) \in 0 .. Len(f.frames) /\ Durable(f) \in 0 .. Kept(f)
        /\ \A n \in 0 .. Len(f.frames) : StateAt(f, n) \in Seq(Mutations)
        /\ \A n, k \in 0 .. Len(f.frames) : n <= k => Begins(StateAt(f, n), StateAt(f, k))
    BY FileFacts
  <1>2. Len(g.frames) \in Nat /\ g.synced \in Nat
    BY LenProperties DEF Files
  <1>3. Kept(g) \in 0 .. Len(g.frames)
    BY <1>2 DEF Kept
  <1>4. Durable(g) \in 0 .. Kept(g)
    BY <1>2, <1>3 DEF Durable
  <1>5. \A n \in 0 .. Len(g.frames) : StateAt(g, n) = StateAt(f, n)
    BY <1>2 DEF StateAt
  <1>6. \A i, j \in 1 .. Len(g.frames) : i <= j => Begins(g.frames[i].state, g.frames[j].state)
    <2>1. \A i \in 1 .. Len(g.frames) : i \in 1 .. Len(f.frames)
      BY <1>1, <1>2
    <2> QED BY <2>1 DEF FileSound
  <1>7. told \subseteq ToSet(StateAt(g, Durable(g)))
    <2>1. Durable(g) \in 0 .. Len(f.frames) /\ Durable(f) \in 0 .. Len(f.frames) /\ Durable(g) \in 0 .. Len(g.frames)
      BY <1>1, <1>2, <1>3, <1>4
    <2>2. ToSet(StateAt(f, Durable(f))) \subseteq ToSet(StateAt(f, Durable(g)))
      BY <1>1, <2>1, BeginsOrder
    <2> QED BY <1>5, <2>1, <2>2 DEF FileSound
  <1>8. StateAt(g, Kept(g)) \in Seq(Mutations) /\ Begins(StateAt(g, Kept(g)), StateAt(f, Kept(f)))
        /\ StateAt(f, Kept(f)) \in Seq(Mutations)
    <2>1. Kept(g) \in 0 .. Len(f.frames)
      BY <1>1, <1>2, <1>3
    <2> QED BY <1>1, <1>3, <1>5, <2>1
  <1>9. Begins(StateAt(f, Kept(f)), state) => Begins(StateAt(g, Kept(g)), state)
    BY <1>8, BeginsOrder
  <1>10. Ahead(StateAt(f, Kept(f)), state) => Begins(StateAt(g, Kept(g)), state) \/ Ahead(StateAt(g, Kept(g)), state)
    <2>1. ASSUME NEW m \in Mutations, m \notin ToSet(state), StateAt(f, Kept(f)) = Append(state, m)
          PROVE  Begins(StateAt(g, Kept(g)), state) \/ StateAt(g, Kept(g)) = Append(state, m)
      BY <1>8, <2>1, BeginsOneMore
    <2> QED BY <2>1 DEF Ahead
  <1>11. Begins(StateAt(g, Kept(g)), state) \/ Ahead(StateAt(g, Kept(g)), state)
    BY <1>9, <1>10 DEF FileSound
  <1> QED BY <1>6, <1>7, <1>9, <1>11 DEF FileSound

\* A file with other frames.
WithFrames(f, s, n) == [f EXCEPT !.frames = s, !.synced = n, !.settled = TRUE]

\* Only the fields named change.
LEMMA CutFields ==
  ASSUME NEW f \in Files, NEW s \in Seq(Frames), NEW n \in Nat
  PROVE  /\ WithFrames(f, s, n) \in Files /\ WithFrames(f, s, n).frames = s /\ WithFrames(f, s, n).synced = n
         /\ WithFrames(f, s, n).settled = TRUE /\ WithFrames(f, s, n).header = f.header
PROOF
  <1>1. f = [header |-> f.header, settled |-> f.settled, frames |-> f.frames, synced |-> f.synced]
        /\ f.header \in {"none", "ok", "torn"}
    BY DEF Files
  <1>2. WithFrames(f, s, n) = [header |-> f.header, settled |-> TRUE, frames |-> s, synced |-> n]
    <2>1. PICK g : g = WithFrames(f, s, n)
      OBVIOUS
    <2>2. g = [f EXCEPT !.frames = s, !.synced = n, !.settled = TRUE]
      BY <2>1 DEF WithFrames
    <2>3. g = [header |-> f.header, settled |-> TRUE, frames |-> s, synced |-> n]
      BY <1>1, <2>2
    <2> QED BY <2>1, <2>3
  <1>3. WithFrames(f, s, n) \in Files
    BY <1>1, <1>2 DEF Files
  <1> QED BY <1>2, <1>3

\* A power loss leaves a sound file of a sound file.
LEMMA ImagesSound ==
  ASSUME NEW f, NEW state \in Seq(Mutations), NEW told, FileSound(f, state, told), NEW g \in Images(f)
  PROVE  FileSound(g, state, told)
PROOF
  <1>1. /\ Len(f.frames) \in Nat /\ f.synced \in Nat /\ Kept(f) \in 0 .. Len(f.frames) /\ Durable(f) \in 0 .. Kept(f)
        /\ \A n \in 0 .. Len(f.frames) : StateAt(f, n) \in Seq(Mutations)
    BY FileFacts
  <1>2. f \in Files /\ f.frames \in Seq(Frames) /\ f.synced <= Len(f.frames)
    BY DEF FileSound, Files
  <1>3. CASE ~f.settled
    <2>1. g.frames = <<>> /\ g.synced = 0 /\ g \in Files /\ (g.header = "none" => g = Absent)
      <3>1. <<>> \in Seq(Frames)
        BY EmptySeq
      <3>2. \/ g = Absent
            \/ g = [Absent EXCEPT !.header = "torn", !.settled = TRUE]
            \/ g = [Absent EXCEPT !.header = "ok", !.settled = TRUE]
        BY <1>3 DEF Images
      <3>3. \/ g = Absent
            \/ g = [header |-> "torn", settled |-> TRUE, frames |-> <<>>, synced |-> 0]
            \/ g = [header |-> "ok", settled |-> TRUE, frames |-> <<>>, synced |-> 0]
        BY <3>2 DEF Absent
      <3>4. CASE g = Absent
        BY <3>1, <3>4 DEF Absent, Files
      <3>5. CASE g # Absent
        <4>1. g.frames = <<>> /\ g.synced = 0 /\ g.settled = TRUE /\ g.header # "none"
          BY <3>3, <3>5
        <4>2. g \in Files
          <5>1. g = [header |-> "torn", settled |-> TRUE, frames |-> <<>>, synced |-> 0] => g \in Files
            BY <3>1 DEF Files
          <5>2. g = [header |-> "ok", settled |-> TRUE, frames |-> <<>>, synced |-> 0] => g \in Files
            BY <3>1 DEF Files
          <5> QED BY <3>3, <3>5, <5>1, <5>2
        <4> QED BY <4>1, <4>2
      <3> QED BY <3>4, <3>5
    <2>2. Len(g.frames) = 0
      BY <2>1, EmptySeq
    <2>3. Kept(g) = 0 /\ Durable(g) = 0 /\ Durable(f) = 0
      BY <1>3, <2>1, <2>2 DEF Kept, Durable
    <2>4. g \in Files /\ g.synced <= Len(g.frames) /\ Len(g.frames) <= Len(f.frames)
          /\ (\A i \in 1 .. Len(g.frames) : g.frames[i].state = f.frames[i].state)
          /\ (\A i \in 1 .. Len(g.frames) : i < Len(g.frames) => g.frames[i].form = "complete")
          /\ (g.header = "none" => g = Absent) /\ Durable(f) <= Durable(g) /\ Kept(g) <= Kept(f)
      BY <1>1, <2>1, <2>2, <2>3
    <2> QED BY <2>4, CutSound
  <1>4. ASSUME NEW n \in f.synced .. Len(f.frames)
        PROVE  /\ SubSeq(f.frames, 1, n) \in Seq(Frames) /\ Len(SubSeq(f.frames, 1, n)) = n /\ n \in 0 .. Len(f.frames)
               /\ \A i \in 1 .. n : SubSeq(f.frames, 1, n)[i] = f.frames[i]
               /\ \A i \in 1 .. n : f.frames[i] \in Frames
    <2>1. n \in 0 .. Len(f.frames)
      BY <1>1
    <2>2. \A i \in 1 .. n : f.frames[i] \in Frames
      BY <1>1, <1>2, <2>1, ElementOfSeq
    <2>3. SubSeq(f.frames, 1, n) \in Seq(Frames) /\ Len(SubSeq(f.frames, 1, n)) = n
          /\ \A i \in 1 .. n : SubSeq(f.frames, 1, n)[i] = f.frames[i]
      BY <1>1, <1>2, <2>1, <2>2, SubSeqProperties
    <2> QED BY <2>1, <2>2, <2>3
  <1>5. ASSUME NEW n \in f.synced .. Len(f.frames), g = CutAt(f, n), f.settled PROVE FileSound(g, state, told)
    <2>1. g \in Files /\ g.frames = SubSeq(f.frames, 1, n) /\ g.synced = n /\ g.settled = TRUE /\ g.header = f.header
      <3> DEFINE s == SubSeq(f.frames, 1, n)
      <3>1. n \in Nat /\ s \in Seq(Frames)
        BY <1>1, <1>4
      <3>2. g = WithFrames(f, s, n)
        BY <1>5 DEF CutAt, WithFrames
      <3> HIDE DEF s
      <3>3. g \in Files /\ g.frames = s /\ g.synced = n /\ g.settled = TRUE /\ g.header = f.header
        BY <1>2, <3>1, <3>2, CutFields, ZenonT(60)
      <3> QED BY <3>3 DEF s
    <2>2. Len(g.frames) = n /\ n \in 0 .. Len(f.frames) /\ \A i \in 1 .. n : g.frames[i] = f.frames[i]
      BY <1>4, <2>1
    <2>3. \A i \in 1 .. Len(g.frames) : i < Len(g.frames) => g.frames[i].form = "complete"
      <3>1. \A i \in 1 .. n : i < n => i \in 1 .. Len(f.frames) /\ i < Len(f.frames)
        BY <1>1, <2>2
      <3>2. \A i \in 1 .. n : i < n => f.frames[i].form = "complete"
        BY <3>1 DEF FileSound
      <3> QED BY <2>2, <3>2
    <2>4. g.header = "none" => g = Absent
      BY <1>5, <2>1 DEF FileSound, Absent
    <2>5. Kept(g) <= Kept(f) /\ Kept(g) \in {n, n - 1}
      <3>1. CASE n = Len(f.frames)
        <4>1. Len(f.frames) > 0 => g.frames[n] = f.frames[n]
          <5>1. Len(f.frames) > 0 => n \in 1 .. n
            BY <1>1, <3>1
          <5> QED BY <2>2, <5>1
        <4>2. Kept(g) = Kept(f)
          BY <1>1, <2>2, <3>1, <4>1 DEF Kept
        <4> QED BY <1>1, <3>1, <4>2 DEF Kept
      <3>2. CASE n < Len(f.frames)
        BY <1>1, <2>2, <3>2 DEF Kept
      <3> QED BY <1>1, <2>2, <3>1, <3>2
    <2>6. Durable(f) <= Durable(g)
      <3>1. CASE n = Len(f.frames)
        <4>1. Len(f.frames) > 0 => g.frames[n] = f.frames[n]
          <5>1. Len(f.frames) > 0 => n \in 1 .. n
            BY <1>1, <3>1
          <5> QED BY <2>2, <5>1
        <4>2. Kept(g) = Kept(f)
          BY <1>1, <2>2, <3>1, <4>1 DEF Kept
        <4> QED BY <1>1, <1>2, <1>5, <2>1, <2>2, <3>1, <4>2 DEF Durable
      <3>2. CASE n < Len(f.frames)
        <4>1. n # 0 => f.frames[n].form = "complete"
          <5>1. n # 0 => n \in 1 .. Len(f.frames) /\ n < Len(f.frames)
            BY <1>1, <2>2, <3>2
          <5> QED BY <5>1 DEF FileSound
        <4>2. Kept(g) = n
          BY <2>2, <4>1 DEF Kept
        <4> QED BY <1>1, <1>2, <1>5, <2>1, <2>2, <3>2, <4>2 DEF Durable
      <3> QED BY <1>1, <2>2, <3>1, <3>2
    <2>7. g \in Files /\ g.synced <= Len(g.frames) /\ Len(g.frames) <= Len(f.frames)
          /\ (\A i \in 1 .. Len(g.frames) : g.frames[i].state = f.frames[i].state)
          /\ (\A i \in 1 .. Len(g.frames) : i < Len(g.frames) => g.frames[i].form = "complete")
          /\ (g.header = "none" => g = Absent) /\ Durable(f) <= Durable(g) /\ Kept(g) <= Kept(f)
      BY <1>1, <2>1, <2>2, <2>3, <2>4, <2>5, <2>6
    <2> QED BY <2>7, CutSound
  <1>6. ASSUME NEW n \in f.synced + 1 .. Len(f.frames), NEW form \in {"torn", "garbage"},
               g = Damaged(f, n, form), f.settled
        PROVE  FileSound(g, state, told)
    <2>1. n \in f.synced .. Len(f.frames) /\ n \in 1 .. Len(f.frames)
      BY <1>1
    <2> DEFINE s == SubSeq(f.frames, 1, n)
               t == [s EXCEPT ![n] = [s[n] EXCEPT !.form = form]]
    <2>2. s \in Seq(Frames) /\ Len(s) = n /\ (\A i \in 1 .. n : s[i] = f.frames[i]) /\ s[n] \in Frames
      BY <1>4, <2>1
    <2> DEFINE c == CutAt(f, n)
    <2>3. c \in Files /\ c.frames = s /\ c.synced = n /\ c.settled = TRUE /\ c.header = f.header
      <3>1. n \in Nat
        BY <1>1
      <3>2. c = WithFrames(f, s, n)
        BY DEF CutAt, WithFrames
      <3>3. s \in Seq(Frames)
        BY <2>2
      <3> HIDE DEF s, c
      <3> QED BY <1>2, <3>1, <3>2, <3>3, CutFields, ZenonT(60)
    <2>4. g = [c EXCEPT !.frames = t]
      <3>1. g = [c EXCEPT !.frames[n].form = form]
        BY <1>6 DEF Damaged
      <3> HIDE DEF c
      <3> QED BY <2>3, <3>1
    <2>5. [s[n] EXCEPT !.form = form] \in Frames /\ [s[n] EXCEPT !.form = form].state = f.frames[n].state
          /\ [s[n] EXCEPT !.form = form].form = form
      BY <2>1, <2>2 DEF Frames
    <2>6. t \in Seq(Frames) /\ Len(t) = n
      <3>1. n \in 1 .. Len(s)
        BY <2>1, <2>2
      <3> QED BY <2>2, <2>5, <3>1, ExceptSeq
    <2>7. \A i \in 1 .. n : i # n => t[i] = f.frames[i]
      <3>1. DOMAIN s = 1 .. n
        BY <2>2, LenProperties
      <3> QED BY <2>2, <3>1
    <2>8. t[n].state = f.frames[n].state /\ t[n].form = form
      BY <2>1, <2>2, <2>5, LenProperties
    <2> HIDE DEF s, t
    <2>9. g \in Files /\ g.frames = t /\ g.synced = n /\ g.settled = TRUE /\ g.header = f.header
      <3> HIDE DEF c
      <3> QED BY <2>3, <2>4, <2>6 DEF Files
    <2>10. Len(g.frames) = n /\ \A i \in 1 .. Len(g.frames) : g.frames[i].state = f.frames[i].state
      BY <2>6, <2>7, <2>8, <2>9
    <2>11. \A i \in 1 .. Len(g.frames) : i < Len(g.frames) => g.frames[i].form = "complete"
      BY <1>1, <2>1, <2>7, <2>9, <2>10, SMTT(30) DEF FileSound
    <2>12. f.header # "none"
      BY <1>6 DEF FileSound, Absent
    <2>13. Kept(g) = n - 1
      BY <2>1, <2>8, <2>9, <2>10 DEF Kept
    <2>14. Kept(g) <= Kept(f)
      BY <1>1, <2>1, <2>13, SMTT(30) DEF Kept
    <2>15. Durable(g) = n - 1 /\ Durable(f) <= n - 1
      <3>1. Durable(f) <= f.synced
        BY <1>1, <1>6 DEF Durable
      <3>2. Durable(g) = n - 1
        BY <2>1, <2>9, <2>13 DEF Durable
      <3> QED BY <1>1, <3>1, <3>2
    <2>16. g \in Files /\ g.synced <= Len(g.frames) /\ Len(g.frames) <= Len(f.frames)
          /\ (\A i \in 1 .. Len(g.frames) : g.frames[i].state = f.frames[i].state)
          /\ (\A i \in 1 .. Len(g.frames) : i < Len(g.frames) => g.frames[i].form = "complete")
          /\ (g.header = "none" => g = Absent) /\ Durable(f) <= Durable(g) /\ Kept(g) <= Kept(f)
      BY <1>1, <2>1, <2>9, <2>10, <2>11, <2>12, <2>14, <2>15
    <2> QED BY <2>16, CutSound
  <1>7. CASE f.settled
    <2>1. \/ \E n \in f.synced .. Len(f.frames) : g = CutAt(f, n)
          \/ \E n \in f.synced + 1 .. Len(f.frames), form \in {"torn", "garbage"} : g = Damaged(f, n, form)
      BY <1>7 DEF Images
    <2> QED BY <1>5, <1>6, <1>7, <2>1
  <1> QED BY <1>3, <1>7

\* What a recovery restores is a sound file of the state it restores.
LEMMA RestoredSound ==
  ASSUME NEW f, NEW state \in Seq(Mutations), NEW told, FileSound(f, state, told), f.header # "none",
         NEW g \in {f, CutAt(f, Kept(f))}
  PROVE  /\ FileSound(g, StateAt(f, Kept(f)), told) /\ g.header = f.header /\ StateAt(f, Kept(f)) \in Seq(Mutations)
         /\ StateAt(g, Kept(g)) = StateAt(f, Kept(f))
         /\ (g = f /\ Kept(f) = Len(f.frames)) \/ g = CutAt(f, Kept(f)) => Kept(g) = Len(g.frames)
PROOF
  <1> DEFINE k == Kept(f)
             s == SubSeq(f.frames, 1, k)
             c == CutAt(f, k)
  <1>1. /\ Len(f.frames) \in Nat /\ f.synced \in Nat /\ k \in 0 .. Len(f.frames) /\ Durable(f) \in 0 .. k
        /\ \A n \in 0 .. Len(f.frames) : StateAt(f, n) \in Seq(Mutations)
    BY FileFacts
  <1>2. f \in Files /\ f.frames \in Seq(Frames) /\ f.synced <= Len(f.frames)
    BY DEF FileSound, Files
  <1>3. k \in Nat /\ s \in Seq(Frames) /\ Len(s) = k /\ \A i \in 1 .. k : s[i] = f.frames[i]
    <2>1. \A i \in 1 .. k : f.frames[i] \in Frames
      BY <1>1, <1>2, ElementOfSeq
    <2> HIDE DEF k
    <2> QED BY <1>1, <1>2, <2>1, SubSeqProperties
  <1>4. \A i \in 1 .. k : f.frames[i].form = "complete"
    <2>1. ASSUME NEW i \in 1 .. k PROVE f.frames[i].form = "complete"
      <3>1. CASE i < Len(f.frames)
        BY <1>1, <3>1 DEF FileSound
      <3>2. CASE ~(i < Len(f.frames))
        BY <1>1, <3>2 DEF Kept
      <3> QED BY <3>1, <3>2
    <2> QED BY <2>1
  <1>5. c = WithFrames(f, s, k)
    BY DEF CutAt, WithFrames
  <1> HIDE DEF s, k, c
  <1>6. c \in Files /\ c.frames = s /\ c.synced = k /\ c.settled = TRUE /\ c.header = f.header
    <2>1. f \in Files /\ s \in Seq(Frames) /\ k \in Nat
      BY <1>2, <1>3
    <2> QED BY <1>5, <2>1, CutFields, ZenonT(60)
  <1>7. Kept(c) = k /\ Durable(c) = k /\ Len(c.frames) = k
    <2>1. k # 0 => k \in 1 .. k
      BY <1>3
    <2>2. Len(c.frames) = k /\ (k # 0 => c.frames[k].form = "complete")
      BY <1>3, <1>4, <1>6, <2>1
    <2>3. Kept(c) = k
      BY <1>3, <2>2 DEF Kept
    <2> QED BY <1>3, <1>6, <2>2, <2>3 DEF Durable
  <1>8. StateAt(c, k) = StateAt(f, k) /\ StateAt(f, k) \in Seq(Mutations)
    BY <1>1, <1>3, <1>6 DEF StateAt
  <1>9. FileSound(c, state, told)
    <2>1. c \in Files /\ c.synced <= Len(c.frames) /\ Len(c.frames) <= Len(f.frames)
          /\ (\A i \in 1 .. Len(c.frames) : c.frames[i].state = f.frames[i].state)
          /\ (\A i \in 1 .. Len(c.frames) : i < Len(c.frames) => c.frames[i].form = "complete")
          /\ (c.header = "none" => c = Absent) /\ Durable(f) <= Durable(c) /\ Kept(c) <= Kept(f)
      <3>1. \A i \in 1 .. k : c.frames[i].state = f.frames[i].state /\ c.frames[i].form = "complete"
        BY <1>3, <1>4, <1>6
      <3>2. c.synced <= k /\ k <= Len(f.frames) /\ Durable(f) <= k /\ k <= k
        BY <1>1, <1>3, <1>6
      <3>3. Kept(f) = k
        BY DEF k
      <3> QED BY <1>6, <1>7, <3>1, <3>2, <3>3
    <2> QED BY <2>1, CutSound
  <1>10. Begins(StateAt(f, k), StateAt(f, k))
    BY <1>8, BeginsOrder
  <1>11. FileSound(c, StateAt(f, k), told) /\ FileSound(f, StateAt(f, k), told)
    BY <1>7, <1>8, <1>9, <1>10 DEF FileSound, k
  <1> QED BY <1>6, <1>7, <1>8, <1>11 DEF k, c

\* write_frame adds a damaged frame behind the others.
LEMMA AppendSound ==
  ASSUME NEW f, NEW state \in Seq(Mutations), NEW told, FileSound(f, state, told), NEW m \in Mutations,
         Kept(f) = Len(f.frames), StateAt(f, Len(f.frames)) = state, f.header # "none",
         NEW g \in Files, g.frames = Append(f.frames, [state |-> Append(state, m), form |-> "torn"]),
         g.synced = f.synced, g.settled = f.settled, g.header = f.header
  PROVE  /\ FileSound(g, state, told) /\ Len(g.frames) > 0 /\ StateAt(g, Len(g.frames) - 1) = state
         /\ g.frames[Len(g.frames)] = [state |-> Append(state, m), form |-> "torn"]
PROOF
  <1> DEFINE new == [state |-> Append(state, m), form |-> "torn"]
             n == Len(f.frames)
  <1>1. /\ n \in Nat /\ f.synced \in Nat /\ Durable(f) \in 0 .. Kept(f)
        /\ \A i \in 0 .. n : StateAt(f, i) \in Seq(Mutations)
        /\ \A i, j \in 0 .. n : i <= j => Begins(StateAt(f, i), StateAt(f, j))
    BY FileFacts
  <1>2. f.frames \in Seq(Frames) /\ f.synced <= n /\ Append(state, m) \in Seq(Mutations)
    BY AppendProperties DEF FileSound, Files
  <1>3. new \in Frames /\ new.state = Append(state, m) /\ new.form = "torn"
    BY <1>2 DEF Frames
  <1> HIDE DEF new
  <1>4. Len(g.frames) = n + 1 /\ g.frames[n + 1] = new /\ \A i \in 1 .. n : g.frames[i] = f.frames[i]
    <2>1. g.frames = Append(f.frames, new)
      BY DEF new
    <2> QED BY <1>2, <1>3, <2>1, AppendProperties
  <1> HIDE DEF n
  <1>5. Kept(g) = n
    BY <1>1, <1>3, <1>4, SMTT(30) DEF Kept
  <1>6. Kept(f) = n /\ StateAt(f, n) = state
    BY DEF n
  <1>7. Durable(g) = Durable(f)
    BY <1>5, <1>6 DEF Durable
  <1>8. \A i \in 0 .. n : StateAt(g, i) = StateAt(f, i)
    BY <1>1, <1>4 DEF StateAt
  <1>9. \A i \in 1 .. n : i < n => f.frames[i].form = "complete"
    BY DEF FileSound, n
  <1>10. n > 0 => f.frames[n].form = "complete"
    BY <1>1, <1>6 DEF Kept, n
  <1>11. \A i \in 1 .. Len(g.frames) : i < Len(g.frames) => g.frames[i].form = "complete"
    BY <1>1, <1>4, <1>9, <1>10
  <1>12. ASSUME NEW i \in 1 .. Len(g.frames), NEW j \in 1 .. Len(g.frames), i <= j
         PROVE  Begins(g.frames[i].state, g.frames[j].state)
    <2>1. CASE j = n + 1 /\ i = n + 1
      BY <1>2, <1>3, <1>4, <2>1, BeginsOrder
    <2>2. CASE j = n + 1 /\ i # n + 1
      <3>1. i \in 0 .. n /\ n \in 0 .. n /\ i <= n /\ i \in 1 .. n /\ i # 0
        BY <1>1, <1>4, <2>2
      <3>2. StateAt(f, i) \in Seq(Mutations) /\ Begins(StateAt(f, i), state)
        BY <1>1, <1>6, <3>1
      <3>3. Begins(state, Append(state, m))
        BY BeginsOneMore
      <3>4. Begins(StateAt(f, i), Append(state, m))
        BY <1>2, <3>2, <3>3, BeginsThrough
      <3> QED BY <1>3, <1>4, <2>2, <3>1, <3>4 DEF StateAt
    <2>3. CASE j # n + 1
      <3>1. i \in 1 .. n /\ j \in 1 .. n
        BY <1>1, <1>4, <1>12, <2>3
      <3> QED BY <1>4, <1>12, <3>1 DEF FileSound, n
    <2> QED BY <2>1, <2>2, <2>3
  <1>13. told \subseteq ToSet(StateAt(g, Durable(g)))
    <2>1. Durable(f) \in 0 .. n
      BY <1>1, <1>6
    <2> QED BY <1>7, <1>8, <2>1 DEF FileSound
  <1>14. Begins(StateAt(g, Kept(g)), state)
    <2>1. n \in 0 .. n
      BY <1>1
    <2> QED BY <1>5, <1>6, <1>8, <2>1, BeginsOrder
  <1>15. g.synced <= Len(g.frames)
    BY <1>1, <1>2, <1>4
  <1>16. FileSound(g, state, told)
    BY <1>11, <1>12, <1>13, <1>14, <1>15 DEF FileSound
  <1>17. StateAt(g, Len(g.frames) - 1) = state /\ Len(g.frames) > 0 /\ g.frames[Len(g.frames)] = new
    BY <1>1, <1>4, <1>6, <1>8
  <1> QED BY <1>16, <1>17 DEF new

\* The payload makes the last frame complete: the file is one mutation ahead.
LEMMA PayloadSound ==
  ASSUME NEW f, NEW state \in Seq(Mutations), NEW told, FileSound(f, state, told), NEW m \in Mutations,
         Len(f.frames) > 0, m \notin ToSet(state), f.frames[Len(f.frames)].state = Append(state, m),
         f.frames[Len(f.frames)].form = "torn", f.header # "none",
         NEW g \in Files, Len(g.frames) = Len(f.frames), g.frames[Len(f.frames)].form = "complete",
         g.frames[Len(f.frames)].state = f.frames[Len(f.frames)].state,
         \A i \in 1 .. Len(f.frames) : i # Len(f.frames) => g.frames[i] = f.frames[i],
         g.synced = f.synced, g.settled = f.settled, g.header = f.header
  PROVE  FileSound(g, state, told) /\ StateAt(g, Len(g.frames) - 1) = StateAt(f, Len(f.frames) - 1)
PROOF
  <1> DEFINE n == Len(f.frames)
  <1>1. /\ n \in Nat /\ f.synced \in Nat /\ Durable(f) \in 0 .. Kept(f) /\ n > 0
        /\ \A i \in 0 .. n : StateAt(f, i) \in Seq(Mutations)
        /\ \A i, j \in 0 .. n : i <= j => Begins(StateAt(f, i), StateAt(f, j))
    BY FileFacts
  <1>2. f.synced <= n /\ Len(g.frames) = n /\ f.frames[n].state = Append(state, m) /\ f.frames[n].form = "torn"
        /\ g.frames[n].form = "complete" /\ g.frames[n].state = Append(state, m)
        /\ (\A i \in 1 .. n : i # n => g.frames[i] = f.frames[i])
    BY DEF FileSound
  <1>3. Kept(f) = n - 1 /\ Kept(g) = n
    BY <1>1, <1>2 DEF Kept
  <1>4. \A i \in 1 .. n : i < n => f.frames[i].form = "complete"
    BY DEF FileSound
  <1>5. \A i, j \in 1 .. n : i <= j => Begins(f.frames[i].state, f.frames[j].state)
    BY DEF FileSound
  <1> HIDE DEF n
  <1>6. \A i \in 1 .. n : g.frames[i].state = f.frames[i].state
    BY <1>2
  <1>7. \A i \in 0 .. n : StateAt(g, i) = StateAt(f, i)
    BY <1>1, <1>6 DEF StateAt
  <1>8. Durable(g) \in 0 .. n /\ Durable(f) \in 0 .. n /\ Durable(f) <= Durable(g)
    BY <1>1, <1>2, <1>3 DEF Durable
  <1>9. told \subseteq ToSet(StateAt(g, Durable(g)))
    <2>1. ToSet(StateAt(f, Durable(f))) \subseteq ToSet(StateAt(f, Durable(g)))
      BY <1>1, <1>8, BeginsOrder
    <2> QED BY <1>7, <1>8, <2>1 DEF FileSound
  <1>10. Ahead(StateAt(g, Kept(g)), state)
    BY <1>1, <1>2, <1>3 DEF Ahead, StateAt
  <1>11. \A i, j \in 1 .. Len(g.frames) : i <= j => Begins(g.frames[i].state, g.frames[j].state)
    BY <1>2, <1>5, <1>6
  <1>12. \A i \in 1 .. Len(g.frames) : i < Len(g.frames) => g.frames[i].form = "complete"
    BY <1>1, <1>2, <1>4
  <1>13. FileSound(g, state, told)
    BY <1>2, <1>9, <1>10, <1>11, <1>12 DEF FileSound
  <1>14. StateAt(g, Len(g.frames) - 1) = StateAt(f, n - 1)
    BY <1>1, <1>2, <1>7
  <1> QED BY <1>13, <1>14 DEF n

\* A synced frame is the state, and what its caller is told is in it.
LEMMA SyncSound ==
  ASSUME NEW f, NEW state \in Seq(Mutations), NEW told, FileSound(f, state, told), NEW m \in Mutations,
         Len(f.frames) > 0, f.frames[Len(f.frames)].state = Append(state, m),
         f.frames[Len(f.frames)].form = "complete", f.header # "none",
         NEW g \in Files, g.frames = f.frames, g.synced = Len(f.frames), g.settled = TRUE, g.header = f.header
  PROVE  /\ FileSound(g, Append(state, m), told \cup {m}) /\ FileSound(g, Append(state, m), told)
         /\ Kept(g) = Len(g.frames) /\ StateAt(g, Len(g.frames)) = Append(state, m)
PROOF
  <1> DEFINE n == Len(f.frames)
  <1>1. /\ n \in Nat /\ f.synced \in Nat /\ Durable(f) \in 0 .. Kept(f) /\ Kept(f) \in 0 .. n
        /\ \A i \in 0 .. n : StateAt(f, i) \in Seq(Mutations)
        /\ \A i, j \in 0 .. n : i <= j => Begins(StateAt(f, i), StateAt(f, j))
    BY FileFacts
  <1>2. Kept(g) = n /\ Durable(g) = n /\ n \in 0 .. n /\ Durable(f) \in 0 .. n /\ Durable(f) <= n
    BY <1>1 DEF Kept, Durable
  <1>3. StateAt(g, n) = Append(state, m) /\ StateAt(f, n) = Append(state, m)
    BY <1>1 DEF StateAt
  <1>4. Append(state, m) \in Seq(Mutations) /\ ToSet(Append(state, m)) = ToSet(state) \cup {m}
    BY AppendProperties, ToSetAppend
  <1>5. told \subseteq ToSet(Append(state, m))
    <2>1. ToSet(StateAt(f, Durable(f))) \subseteq ToSet(StateAt(f, n))
      BY <1>1, <1>2, BeginsOrder, SMTT(30)
    <2> QED BY <1>3, <2>1 DEF FileSound
  <1>6. told \cup {m} \subseteq ToSet(StateAt(g, Durable(g)))
    BY <1>2, <1>3, <1>4, <1>5
  <1>7. Begins(StateAt(g, Kept(g)), Append(state, m))
    <2>1. PICK t \in Seq(Mutations) : t = Append(state, m)
      BY <1>4
    <2>2. Begins(t, t)
      BY BeginsOrder
    <2> QED BY <1>2, <1>3, <2>1, <2>2
  <1>8. FileSound(g, Append(state, m), told \cup {m})
    BY <1>1, <1>6, <1>7 DEF FileSound
  <1>9. FileSound(g, Append(state, m), told)
    BY <1>8 DEF FileSound
  <1> QED BY <1>2, <1>3, <1>8, <1>9

\* The file a compaction puts in the journal's place.
Checkpoint(state) ==
  [header |-> "ok", settled |-> TRUE, synced |-> 1, frames |-> <<[state |-> state, form |-> "complete"]>>]

\* A checkpoint of the state is a sound file of it.
LEMMA CheckpointSound ==
  ASSUME NEW f, NEW state \in Seq(Mutations), NEW told, FileSound(f, state, told), Kept(f) = Len(f.frames),
         StateAt(f, Len(f.frames)) = state, NEW g, g = Checkpoint(state)
  PROVE  FileSound(g, state, told) /\ Kept(g) = Len(g.frames) /\ StateAt(g, Len(g.frames)) = state
         /\ Begins(StateAt(f, Kept(f)), state)
PROOF
  <1>1. /\ Len(f.frames) \in Nat /\ Durable(f) \in 0 .. Kept(f)
        /\ \A i, j \in 0 .. Len(f.frames) : i <= j => Begins(StateAt(f, i), StateAt(f, j))
        /\ \A i \in 0 .. Len(f.frames) : StateAt(f, i) \in Seq(Mutations)
    BY FileFacts
  <1> DEFINE new == [state |-> state, form |-> "complete"]
  <1>2. new \in Frames /\ new.state = state /\ new.form = "complete"
    BY DEF Frames
  <1>3. g.frames = <<new>> /\ g.synced = 1 /\ g.settled = TRUE /\ g.header = "ok"
    BY DEF Checkpoint
  <1> HIDE DEF new
  <1>4. Len(g.frames) = 1 /\ g.frames[1] = new /\ g.frames \in Seq(Frames)
    BY <1>2, <1>3
  <1>5. g \in Files
    BY <1>3, <1>4 DEF Files, Checkpoint
  <1>6. Kept(g) = 1 /\ Durable(g) = 1 /\ StateAt(g, 1) = state
    BY <1>2, <1>3, <1>4 DEF Kept, Durable, StateAt
  <1>7. Begins(state, state)
    BY BeginsOrder
  <1>8. told \subseteq ToSet(state)
    <2>1. ToSet(StateAt(f, Durable(f))) \subseteq ToSet(StateAt(f, Len(f.frames)))
      BY <1>1, BeginsOrder
    <2> QED BY <2>1 DEF FileSound
  <1>9. \A i, j \in 1 .. Len(g.frames) : i <= j => Begins(g.frames[i].state, g.frames[j].state)
    BY <1>2, <1>4, <1>7
  <1>10. FileSound(g, state, told)
    <2>1. \A i \in 1 .. Len(g.frames) : i < Len(g.frames) => g.frames[i].form = "complete"
      BY <1>4
    <2>2. told \subseteq ToSet(StateAt(g, Durable(g))) /\ Begins(StateAt(g, Kept(g)), state)
      BY <1>6, <1>7, <1>8
    <2>3. g.synced <= Len(g.frames) /\ g.header # "none"
      BY <1>3, <1>4
    <2> QED BY <1>5, <1>9, <2>1, <2>2, <2>3 DEF FileSound
  <1> QED BY <1>4, <1>6, <1>7, <1>10

\* A file without frames is sound when nothing was acknowledged.
LEMMA EmptySound ==
  ASSUME NEW g, g \in Files, g.frames = <<>>, g.synced = 0, g.header = "none" => g = Absent
  PROVE  FileSound(g, <<>>, {}) /\ Kept(g) = Len(g.frames) /\ StateAt(g, Len(g.frames)) = <<>>
PROOF
  <1>1. Len(g.frames) = 0 /\ <<>> \in Seq(Mutations)
    BY EmptySeq
  <1>2. Kept(g) = 0 /\ Durable(g) = 0 /\ StateAt(g, 0) = <<>>
    BY <1>1 DEF Kept, Durable, StateAt
  <1>3. Begins(<<>>, <<>>)
    BY <1>1, BeginsOrder
  <1> QED BY <1>1, <1>2, <1>3 DEF FileSound

\* A provider that has not been opened yet.
LEMMA DiskInitial == DiskInit => DiskInv
PROOF
  <1> SUFFICES ASSUME DiskInit PROVE DiskInv
    OBVIOUS
  <1>1. journal = Absent /\ shadow = {} /\ provider = Closed(<<>>) /\ diskAcked = {}
    BY DEF DiskInit
  <1>2. <<>> \in Seq(Frames) /\ <<>> \in Seq(Mutations)
    BY EmptySeq
  <1>3. Absent \in Files /\ Absent.frames = <<>> /\ Absent.synced = 0
    BY <1>2 DEF Absent, Files
  <1>4. FileSound(Absent, <<>>, {})
    BY <1>3, EmptySound
  <1>5. ProviderTyped /\ provider.state = <<>> /\ provider.pc = "down" /\ provider.op = NoOp
    BY <1>1, <1>2 DEF ProviderTyped, Closed, NoOp
  <1>6. ProviderAgrees
    BY <1>1, <1>5 DEF ProviderAgrees, Usable
  <1> QED BY <1>1, <1>4, <1>5, <1>6 DEF DiskInv

\* A step that leaves the journal and the state alone.
LEMMA DiskStill ==
  ASSUME DiskInv, journal' = journal, shadow' \subseteq shadow, provider'.state = provider.state,
         diskAcked' = diskAcked, ProviderTyped', ProviderAgrees'
  PROVE  DiskInv'
  BY DEF DiskInv

\* Every step of the provider, a crash or a power loss keeps the files sound.
LEMMA DiskInductive == DiskInv /\ [DiskNext]_diskVars => DiskInv'
PROOF
  <1> SUFFICES ASSUME DiskInv, [DiskNext]_diskVars PROVE DiskInv'
    OBVIOUS
  <1>1. ProviderTyped /\ ProviderAgrees /\ FileSound(journal, provider.state, diskAcked)
        /\ (\A f \in shadow : FileSound(f, provider.state, diskAcked) /\ Begins(StateAt(f, Kept(f)), provider.state))
    BY DEF DiskInv
  <1>2. provider.state \in Seq(Mutations)
    BY <1>1 DEF ProviderTyped
  <1>3. journal \in Files /\ (journal.header = "none" => journal = Absent)
    BY <1>1 DEF FileSound
  <1>4. CASE OpenJournal
    <2> DEFINE r == Recover(journal)
    <2>1. r.kept = Kept(journal) /\ r.state = StateAt(journal, Kept(journal))
          /\ (r.corrupt => Kept(journal) < Len(journal.frames)) /\ r.corrupt \in BOOLEAN
      BY <1>1, <1>2, RecoverKeeps
    <2>2. Kept(journal) \in 0 .. Len(journal.frames) /\ Len(journal.frames) \in Nat
      BY <1>1, <1>2, FileFacts
    <2>3. CASE journal.header = "none"
      <3>1. provider' = [Closed(<<>>) EXCEPT !.pc = "header"] /\ journal' = journal /\ shadow' = shadow
            /\ diskAcked' = diskAcked
        BY <1>4, <2>3 DEF OpenJournal
      <3>2. <<>> \in Seq(Mutations) /\ <<>> \in Seq(Frames)
        BY EmptySeq
      <3>3. /\ provider'.pc = "header" /\ provider'.state = <<>> /\ provider'.corrupt = FALSE /\ provider'.failed = FALSE
            /\ provider'.op = NoOp
        BY <3>1 DEF Closed
      <3>4. ProviderTyped'
        BY <3>1, <3>2 DEF ProviderTyped, Closed, NoOp
      <3>5. journal = Absent /\ shadow = {} /\ Absent.frames = <<>> /\ Absent.settled = FALSE /\ Absent.synced = 0
        BY <1>1, <1>3, <2>3 DEF ProviderAgrees, Absent
      <3>6. ProviderAgrees'
        BY <3>1, <3>3, <3>5 DEF ProviderAgrees, Usable
      <3>7. diskAcked = {}
        <4>1. diskAcked \subseteq ToSet(<<>>)
          BY <1>1, <3>5 DEF FileSound, Durable, StateAt
        <4> QED BY <4>1 DEF ToSet
      <3>8. FileSound(Absent, <<>>, {})
        BY <1>3, <3>5, EmptySound
      <3> QED BY <3>1, <3>3, <3>4, <3>5, <3>6, <3>7, <3>8 DEF DiskInv
    <2>4. CASE journal.header # "none"
      <3>1. provider' = [Closed(r.state) EXCEPT !.pc = "ready", !.corrupt = r.corrupt] /\ shadow' = {} /\ diskAcked' = diskAcked
            /\ journal' = IF r.kept < Len(journal.frames) /\ ~r.corrupt THEN CutAt(journal, r.kept) ELSE journal
        BY <1>4, <2>4 DEF OpenJournal
      <3> HIDE DEF r
      <3>2. /\ provider'.pc = "ready" /\ provider'.state = r.state /\ provider'.corrupt = r.corrupt /\ provider'.op = NoOp
        BY <3>1 DEF Closed
      <3>3. PICK g \in {journal, CutAt(journal, Kept(journal))} :
              /\ g = journal'
              /\ ~r.corrupt => (g = journal /\ Kept(journal) = Len(journal.frames)) \/ g = CutAt(journal, Kept(journal))
        BY <2>1, <2>2, <3>1
      <3>4. /\ FileSound(g, r.state, diskAcked) /\ g.header = journal.header /\ r.state \in Seq(Mutations)
            /\ StateAt(g, Kept(g)) = r.state /\ (~r.corrupt => Kept(g) = Len(g.frames))
        BY <1>1, <1>2, <2>1, <2>4, <3>3, RestoredSound
      <3>5. ProviderTyped'
        BY <2>1, <3>1, <3>4 DEF ProviderTyped, Closed, NoOp
      <3>6. ProviderAgrees'
        BY <2>4, <3>1, <3>2, <3>3, <3>4 DEF ProviderAgrees, Usable, Level
      <3>7. FileSound(journal', provider'.state, diskAcked')
        BY <3>1, <3>2, <3>3, <3>4
      <3> QED BY <3>1, <3>5, <3>6, <3>7 DEF DiskInv
    <2> QED BY <2>3, <2>4
  <1>5. CASE WriteHeader
    <2>1. provider.pc = "header" /\ journal' = [journal EXCEPT !.header = "ok"] /\ shadow' = {Absent}
          /\ provider' = [provider EXCEPT !.pc = "headersync"] /\ diskAcked' = diskAcked
      BY <1>5 DEF WriteHeader
    <2>2. journal = Absent /\ provider.state = <<>> /\ ~provider.corrupt /\ ~provider.failed
      BY <1>1, <2>1 DEF ProviderAgrees
    <2>3. /\ provider'.pc = "headersync" /\ provider'.state = <<>> /\ provider'.op = provider.op
          /\ provider'.corrupt = provider.corrupt /\ provider'.failed = provider.failed /\ ProviderTyped'
      BY <1>1, <2>1, <2>2 DEF ProviderTyped
    <2>4. <<>> \in Seq(Frames)
      BY EmptySeq
    <2>5. PICK g : g = journal'
      OBVIOUS
    <2>6. g = [header |-> "ok", settled |-> FALSE, frames |-> <<>>, synced |-> 0]
      BY <2>1, <2>2, <2>5 DEF Absent
    <2>7. g \in Files /\ g.frames = <<>> /\ g.synced = 0 /\ g.header = "ok"
      BY <2>4, <2>6 DEF Files
    <2>8. diskAcked = {}
      <3>1. diskAcked \subseteq ToSet(<<>>)
        BY <1>1, <2>2 DEF FileSound, Durable, StateAt, Absent
      <3> QED BY <3>1 DEF ToSet
    <2>9. FileSound(g, <<>>, {})
      BY <2>7, EmptySound
    <2>10. FileSound(Absent, <<>>, {}) /\ Begins(StateAt(Absent, Kept(Absent)), <<>>)
      <3>1. Absent \in Files /\ Absent.frames = <<>> /\ Absent.synced = 0
        BY <1>3, <2>2 DEF Absent
      <3>2. FileSound(Absent, <<>>, {}) /\ Kept(Absent) = Len(Absent.frames) /\ StateAt(Absent, Len(Absent.frames)) = <<>>
        BY <3>1, EmptySound
      <3>3. <<>> \in Seq(Mutations)
        BY EmptySeq
      <3>4. Begins(<<>>, <<>>)
        BY <3>3, BeginsOrder
      <3> QED BY <3>2, <3>4
    <2>11. ProviderAgrees'
      <3>1. ~provider'.corrupt /\ ~provider'.failed
        BY <2>2, <2>3, Zenon
      <3>2. provider.op = NoOp
        BY <1>1, <2>1 DEF ProviderAgrees
      <3> QED BY <2>1, <2>3, <2>5, <2>7, <3>1, <3>2 DEF ProviderAgrees, Usable
    <2>12. FileSound(journal', provider'.state, diskAcked')
      BY <2>1, <2>3, <2>5, <2>8, <2>9
    <2> QED BY <2>1, <2>3, <2>8, <2>10, <2>11, <2>12 DEF DiskInv
  <1>6. CASE SyncHeader
    <2>1. provider.pc = "headersync" /\ journal' = [journal EXCEPT !.settled = TRUE] /\ shadow' = {}
          /\ provider' = [provider EXCEPT !.pc = "ready"] /\ diskAcked' = diskAcked
      BY <1>6 DEF SyncHeader
    <2>2. journal.frames = <<>> /\ provider.state = <<>> /\ provider.op = NoOp /\ journal.header # "none"
      BY <1>1, <2>1 DEF ProviderAgrees
    <2>3. /\ provider'.pc = "ready" /\ provider'.state = <<>> /\ provider'.op = NoOp /\ ProviderTyped'
      BY <1>1, <2>1, <2>2 DEF ProviderTyped
    <2>4. Len(journal.frames) = 0 /\ journal.synced = 0
      <3>1. Len(journal.frames) = 0
        BY <2>2, EmptySeq
      <3> QED BY <1>1, <3>1 DEF FileSound, Files
    <2>5. diskAcked = {}
      <3>1. Kept(journal) = 0 /\ Durable(journal) = 0
        BY <2>4 DEF Kept, Durable
      <3>2. diskAcked \subseteq ToSet(<<>>)
        BY <1>1, <3>1 DEF FileSound, StateAt
      <3> QED BY <3>2 DEF ToSet
    <2>6. PICK g : g = journal'
      OBVIOUS
    <2>7. g \in Files /\ g.frames = <<>> /\ g.synced = 0 /\ g.header = journal.header
      <3>1. g = [journal EXCEPT !.settled = TRUE]
        BY <2>1, <2>6
      <3>2. g.frames = journal.frames /\ g.synced = journal.synced /\ g.header = journal.header
        BY <1>3, <3>1 DEF Files
      <3>3. g \in Files
        BY <1>3, <3>1 DEF Files
      <3> QED BY <2>2, <2>4, <3>2, <3>3
    <2>8. FileSound(g, <<>>, {}) /\ Kept(g) = Len(g.frames) /\ StateAt(g, Len(g.frames)) = <<>>
      BY <2>2, <2>7, EmptySound
    <2>9. ProviderAgrees'
      BY <2>1, <2>2, <2>3, <2>6, <2>7, <2>8 DEF ProviderAgrees, Usable, Level
    <2>10. FileSound(journal', provider'.state, diskAcked')
      BY <2>1, <2>3, <2>5, <2>6, <2>8
    <2> QED BY <2>1, <2>3, <2>9, <2>10 DEF DiskInv
  <1>7. ASSUME NEW m \in Mutations, UpdateState(m) PROVE DiskInv'
    <2>1. provider' = [provider EXCEPT !.op = m, !.pc = IF HasRoom THEN "frame" ELSE "compact"] /\ Usable
          /\ m \notin ToSet(provider.state) /\ journal' = journal /\ shadow' = shadow /\ diskAcked' = diskAcked
      BY <1>7 DEF UpdateState
    <2>2. /\ provider'.pc \in {"frame", "compact"} /\ provider'.state = provider.state /\ provider'.op = m /\ ProviderTyped'
      BY <1>1, <2>1 DEF ProviderTyped
    <2>3. ProviderAgrees'
      BY <1>1, <2>1, <2>2 DEF ProviderAgrees, Usable, Level, OpIsNew
    <2> QED BY <2>1, <2>2, <2>3, DiskStill
  <1>8. CASE WriteFrame
    <2>1. provider.pc = "frame" /\ shadow' = shadow /\ diskAcked' = diskAcked /\ provider' = [provider EXCEPT !.pc = "payload"]
          /\ journal' = [journal EXCEPT !.frames =
               Append(journal.frames, [state |-> Append(provider.state, provider.op), form |-> "torn"])]
      BY <1>8 DEF WriteFrame
    <2>2. Level /\ shadow = {} /\ OpIsNew /\ journal.header # "none"
      BY <1>1, <2>1 DEF ProviderAgrees
    <2>3. /\ provider'.pc = "payload" /\ provider'.state = provider.state /\ provider'.op = provider.op /\ ProviderTyped'
      BY <1>1, <2>1 DEF ProviderTyped
    <2>4. PICK m \in Mutations : m = provider.op /\ m \notin ToSet(provider.state)
      BY <2>2 DEF OpIsNew
    <2>5. Append(provider.state, m) \in Seq(Mutations)
      BY <1>2, AppendProperties
    <2>6. PICK new \in Frames : new = [state |-> Append(provider.state, m), form |-> "torn"]
      BY <2>5 DEF Frames
    <2>7. journal.frames \in Seq(Frames)
      BY <1>3 DEF Files
    <2>8. PICK longer \in Seq(Frames) : longer = Append(journal.frames, new)
      BY <2>7, AppendProperties
    <2>9. PICK g : g = journal'
      OBVIOUS
    <2>10. g = [journal EXCEPT !.frames = longer]
      BY <2>1, <2>4, <2>6, <2>8, <2>9
    <2>11. g.frames = longer /\ g.synced = journal.synced /\ g.settled = journal.settled /\ g.header = journal.header
      BY <1>3, <2>10 DEF Files
    <2>12. g \in Files
      BY <1>3, <2>8, <2>10 DEF Files
    <2>13. g.frames = Append(journal.frames, [state |-> Append(provider.state, m), form |-> "torn"])
      BY <2>6, <2>8, <2>11
    <2>14. /\ FileSound(g, provider.state, diskAcked) /\ Len(g.frames) > 0 /\ StateAt(g, Len(g.frames) - 1) = provider.state
           /\ g.frames[Len(g.frames)] = [state |-> Append(provider.state, m), form |-> "torn"]
      BY <1>1, <1>2, <2>2, <2>11, <2>12, <2>13, AppendSound DEF Level
    <2>15. g.frames[Len(g.frames)].state = Append(provider.state, m) /\ g.frames[Len(g.frames)].form = "torn"
      BY <2>14
    <2>16. OpIsNew'
      BY <2>2, <2>3 DEF OpIsNew
    <2>17. ProviderAgrees'
      BY <2>1, <2>2, <2>3, <2>4, <2>9, <2>11, <2>14, <2>15, <2>16 DEF ProviderAgrees, Usable
    <2>18. FileSound(journal', provider'.state, diskAcked')
      BY <2>1, <2>3, <2>9, <2>14
    <2> QED BY <2>1, <2>2, <2>3, <2>17, <2>18 DEF DiskInv
  <1>9. CASE WritePayload
    <2> DEFINE n == Len(journal.frames)
               last == [journal.frames[n] EXCEPT !.form = "complete"]
               whole == [journal.frames EXCEPT ![n] = last]
    <2>1. provider.pc = "payload" /\ shadow' = shadow /\ diskAcked' = diskAcked /\ provider' = [provider EXCEPT !.pc = "sync"]
          /\ journal' = [journal EXCEPT !.frames[n].form = "complete"]
      BY <1>9 DEF WritePayload
    <2>2. /\ shadow = {} /\ n > 0 /\ StateAt(journal, n - 1) = provider.state /\ OpIsNew /\ journal.header # "none"
          /\ journal.frames[n].state = Append(provider.state, provider.op) /\ journal.frames[n].form = "torn"
      BY <1>1, <2>1 DEF ProviderAgrees
    <2>3. /\ provider'.pc = "sync" /\ provider'.state = provider.state /\ provider'.op = provider.op /\ ProviderTyped'
      BY <1>1, <2>1 DEF ProviderTyped
    <2>4. journal.frames \in Seq(Frames) /\ n \in Nat /\ n \in 1 .. n /\ DOMAIN journal.frames = 1 .. n
      BY <1>3, <2>2, LenProperties DEF Files
    <2>5. journal.frames[n] \in Frames
      BY <2>4, ElementOfSeq
    <2>6. last \in Frames /\ last.form = "complete" /\ last.state = journal.frames[n].state
      BY <2>5 DEF Frames
    <2>7. whole[n] = last /\ \A i \in 1 .. n : i # n => whole[i] = journal.frames[i]
      <3> HIDE DEF last, n
      <3> QED BY <2>4
    <2>8. whole \in Seq(Frames) /\ Len(whole) = n
      <3> HIDE DEF last
      <3> QED BY <2>4, <2>6, ExceptSeq
    <2>9. PICK g : g = journal'
      OBVIOUS
    <2>10. g = [journal EXCEPT !.frames = whole]
      BY <1>3, <2>1, <2>9 DEF Files
    <2> HIDE DEF whole, last
    <2>11. g.frames = whole /\ g.synced = journal.synced /\ g.settled = journal.settled /\ g.header = journal.header
      BY <1>3, <2>10 DEF Files
    <2>12. g \in Files
      BY <1>3, <2>8, <2>10 DEF Files
    <2>13. PICK m \in Mutations : m = provider.op /\ m \notin ToSet(provider.state)
      BY <2>2 DEF OpIsNew
    <2>14. /\ Len(g.frames) = Len(journal.frames) /\ g.frames[Len(journal.frames)].form = "complete"
           /\ g.frames[Len(journal.frames)].state = journal.frames[Len(journal.frames)].state
           /\ \A i \in 1 .. Len(journal.frames) : i # Len(journal.frames) => g.frames[i] = journal.frames[i]
      BY <2>6, <2>7, <2>8, <2>11
    <2>15. journal.frames[Len(journal.frames)].state = Append(provider.state, m)
      BY <2>2, <2>13
    <2>16. FileSound(g, provider.state, diskAcked) /\ StateAt(g, Len(g.frames) - 1) = StateAt(journal, Len(journal.frames) - 1)
      BY <1>1, <1>2, <2>2, <2>11, <2>12, <2>13, <2>14, <2>15, PayloadSound
    <2>17. OpIsNew'
      BY <2>2, <2>3 DEF OpIsNew
    <2>18. ProviderAgrees'
      BY <2>1, <2>2, <2>3, <2>9, <2>11, <2>14, <2>16, <2>17 DEF ProviderAgrees, Usable
    <2>19. FileSound(journal', provider'.state, diskAcked')
      BY <2>1, <2>3, <2>9, <2>16
    <2> QED BY <2>1, <2>2, <2>3, <2>18, <2>19 DEF DiskInv
  <1>10. CASE SyncFrame
    <2>1. /\ provider.pc = "sync" /\ journal' = [journal EXCEPT !.synced = Len(journal.frames), !.settled = TRUE]
          /\ provider' = [provider EXCEPT !.pc = "ready", !.state = Append(provider.state, provider.op), !.op = NoOp]
          /\ diskAcked' \in {diskAcked, diskAcked \cup {provider.op}} /\ shadow' = shadow
      BY <1>10 DEF SyncFrame
    <2>2. /\ shadow = {} /\ Len(journal.frames) > 0 /\ OpIsNew /\ journal.header # "none"
          /\ journal.frames[Len(journal.frames)].state = Append(provider.state, provider.op)
          /\ journal.frames[Len(journal.frames)].form = "complete"
      BY <1>1, <2>1 DEF ProviderAgrees
    <2>3. PICK m \in Mutations : m = provider.op
      BY <2>2 DEF OpIsNew
    <2>4. Append(provider.state, m) \in Seq(Mutations)
      BY <1>2, AppendProperties
    <2>5. /\ provider'.pc = "ready" /\ provider'.state = Append(provider.state, m) /\ provider'.op = NoOp
      BY <1>1, <2>1, <2>3 DEF ProviderTyped
    <2>6. ProviderTyped'
      BY <1>1, <2>1, <2>3, <2>4 DEF ProviderTyped
    <2>7. Len(journal.frames) \in Nat
      BY <1>3, LenProperties DEF Files
    <2>8. PICK g : g = journal'
      OBVIOUS
    <2>9. g = [journal EXCEPT !.synced = Len(journal.frames), !.settled = TRUE]
      BY <2>1, <2>8
    <2>10. g.frames = journal.frames /\ g.synced = Len(journal.frames) /\ g.settled = TRUE /\ g.header = journal.header
      BY <1>3, <2>9 DEF Files
    <2>11. g \in Files
      BY <1>3, <2>7, <2>9 DEF Files
    <2>12. journal.frames[Len(journal.frames)].state = Append(provider.state, m)
      BY <2>2, <2>3
    <2>13. /\ FileSound(g, Append(provider.state, m), diskAcked \cup {m}) /\ FileSound(g, Append(provider.state, m), diskAcked)
           /\ Kept(g) = Len(g.frames) /\ StateAt(g, Len(g.frames)) = Append(provider.state, m)
      BY <1>1, <1>2, <2>2, <2>10, <2>11, <2>12, SyncSound
    <2>14. ProviderAgrees'
      BY <2>1, <2>2, <2>5, <2>8, <2>10, <2>13 DEF ProviderAgrees, Usable, Level
    <2>15. FileSound(journal', provider'.state, diskAcked')
      BY <2>1, <2>3, <2>5, <2>8, <2>13
    <2> QED BY <2>1, <2>2, <2>6, <2>14, <2>15 DEF DiskInv
  <1>11. CASE WriteFails
    <2>1. provider' = [provider EXCEPT !.pc = "ready", !.op = NoOp, !.failed = TRUE]
          /\ provider.pc \notin {"down", "header"} /\ journal' = journal /\ shadow' = shadow /\ diskAcked' = diskAcked
      BY <1>11 DEF WriteFails
    <2>2. /\ provider'.pc = "ready" /\ provider'.state = provider.state /\ provider'.op = NoOp
          /\ provider'.failed = TRUE /\ ProviderTyped'
      BY <1>1, <2>1 DEF ProviderTyped
    <2>3. ProviderAgrees'
      BY <1>1, <2>1, <2>2 DEF ProviderAgrees, Usable
    <2> QED BY <2>1, <2>2, <2>3, DiskStill
  <1>12. CASE CompactNow
    <2>1. provider' = [provider EXCEPT !.pc = "compact"] /\ Usable
          /\ journal' = journal /\ shadow' = shadow /\ diskAcked' = diskAcked
      BY <1>12 DEF CompactNow
    <2>2. /\ provider'.pc = "compact" /\ provider'.state = provider.state /\ provider'.op = provider.op /\ ProviderTyped'
      BY <1>1, <2>1 DEF ProviderTyped
    <2>3. ProviderAgrees'
      BY <1>1, <2>1, <2>2 DEF ProviderAgrees, Usable, Level
    <2> QED BY <2>1, <2>2, <2>3, DiskStill
  <1>13. CASE ReplaceCheckpoint
    <2>1. /\ provider.pc = "compact" /\ shadow' = {journal} /\ provider' = [provider EXCEPT !.pc = "dirsync"] /\ diskAcked' = diskAcked
          /\ journal' = [header |-> "ok", settled |-> TRUE, synced |-> 1,
                         frames |-> <<[state |-> provider.state, form |-> "complete"]>>]
      BY <1>13 DEF ReplaceCheckpoint
    <2>2. Level /\ (provider.op = NoOp \/ OpIsNew)
      BY <1>1, <2>1 DEF ProviderAgrees
    <2>3. /\ provider'.pc = "dirsync" /\ provider'.state = provider.state /\ provider'.op = provider.op /\ ProviderTyped'
      BY <1>1, <2>1 DEF ProviderTyped
    <2>4. PICK g : g = journal'
      OBVIOUS
    <2>5. /\ FileSound(g, provider.state, diskAcked) /\ Kept(g) = Len(g.frames) /\ StateAt(g, Len(g.frames)) = provider.state
          /\ Begins(StateAt(journal, Kept(journal)), provider.state)
      <3>1. g = Checkpoint(provider.state)
        BY <2>1, <2>4 DEF Checkpoint
      <3> QED BY <1>1, <1>2, <2>2, <3>1, CheckpointSound DEF Level
    <2>6. g.header = "ok"
      BY <2>1, <2>4
    <2>7. OpIsNew => OpIsNew'
      BY <2>3 DEF OpIsNew
    <2>8. ProviderAgrees'
      BY <2>2, <2>3, <2>4, <2>5, <2>6, <2>7 DEF ProviderAgrees, Usable, Level
    <2>9. FileSound(journal', provider'.state, diskAcked')
      BY <2>1, <2>3, <2>4, <2>5
    <2>10. \A f \in shadow' : FileSound(f, provider'.state, diskAcked') /\ Begins(StateAt(f, Kept(f)), provider'.state)
      BY <1>1, <2>1, <2>3, <2>5
    <2> QED BY <2>3, <2>8, <2>9, <2>10 DEF DiskInv
  <1>14. CASE SyncDirectory
    <2>1. /\ provider.pc = "dirsync" /\ shadow' = {} /\ journal' = journal /\ diskAcked' = diskAcked
          /\ provider' = IF provider.op # NoOp /\ HasRoom THEN [provider EXCEPT !.pc = "frame"]
                         ELSE [provider EXCEPT !.pc = "ready", !.op = NoOp]
      BY <1>14 DEF SyncDirectory
    <2>2. Level /\ (provider.op = NoOp \/ OpIsNew) /\ journal.header # "none"
      BY <1>1, <2>1 DEF ProviderAgrees
    <2>3. /\ provider'.state = provider.state /\ ProviderTyped'
          /\ \/ provider'.pc = "frame" /\ provider'.op = provider.op /\ provider.op # NoOp
             \/ provider'.pc = "ready" /\ provider'.op = NoOp
      BY <1>1, <2>1 DEF ProviderTyped
    <2>4. provider'.op = provider.op /\ provider.op # NoOp => OpIsNew'
      BY <2>2, <2>3 DEF OpIsNew
    <2>5. ProviderAgrees'
      BY <2>1, <2>2, <2>3, <2>4 DEF ProviderAgrees, Usable, Level
    <2> QED BY <2>1, <2>3, <2>5, DiskStill
  <1>15. CASE StopProvider
    <2>1. provider' = Closed(provider.state) /\ journal' = journal /\ shadow' = shadow /\ diskAcked' = diskAcked
      BY <1>15 DEF StopProvider
    <2>2. provider'.pc = "down" /\ provider'.state = provider.state /\ ProviderTyped'
      BY <1>2, <2>1 DEF ProviderTyped, Closed, NoOp
    <2>3. ProviderAgrees'
      BY <1>1, <2>1, <2>2 DEF ProviderAgrees, Usable
    <2> QED BY <2>1, <2>2, <2>3, DiskStill
  <1>16. CASE PowerLoss
    <2>1. provider' = Closed(provider.state) /\ journal' \in AfterPowerLoss /\ shadow' = {} /\ diskAcked' = diskAcked
      BY <1>16 DEF PowerLoss
    <2>2. provider'.pc = "down" /\ provider'.state = provider.state /\ ProviderTyped'
      BY <1>2, <2>1 DEF ProviderTyped, Closed, NoOp
    <2>3. ProviderAgrees'
      BY <2>1, <2>2 DEF ProviderAgrees, Usable
    <2>4. PICK g : g = journal'
      OBVIOUS
    <2>5. PICK f \in {journal} \cup shadow : g \in Images(f)
      BY <2>1, <2>4 DEF AfterPowerLoss
    <2>6. FileSound(f, provider.state, diskAcked)
      BY <1>1
    <2>7. FileSound(g, provider.state, diskAcked)
      BY <1>2, <2>5, <2>6, ImagesSound
    <2>8. FileSound(journal', provider'.state, diskAcked')
      BY <2>1, <2>2, <2>4, <2>7
    <2> QED BY <2>1, <2>2, <2>3, <2>8 DEF DiskInv
  <1>17. CASE UNCHANGED diskVars
    <2>1. journal' = journal /\ shadow' = shadow /\ provider' = provider /\ diskAcked' = diskAcked
      BY <1>17 DEF diskVars
    <2>2. ProviderTyped' /\ ProviderAgrees'
      BY <1>1, <2>1 DEF ProviderTyped, ProviderAgrees, Usable, Level, OpIsNew
    <2> QED BY <2>1, <2>2, DiskStill
  <1> QED
    BY <1>4, <1>5, <1>6, <1>7, <1>8, <1>9, <1>10, <1>11, <1>12, <1>13, <1>14, <1>15, <1>16, <1>17 DEF DiskNext

\* Opening the journal forgets a suffix nobody was told of or lets the mutation
\* of the last frame take effect, and a synced frame takes effect; every other
\* step leaves the register alone.
LEMMA RegisterSteps == DiskInv /\ [DiskNext]_diskVars => [Register!RegisterNext]_(Register!RegisterVars)
PROOF
  <1> SUFFICES ASSUME DiskInv, [DiskNext]_diskVars PROVE [Register!RegisterNext]_(Register!RegisterVars)
    OBVIOUS
  <1>1. ProviderTyped /\ ProviderAgrees /\ FileSound(journal, provider.state, diskAcked)
    BY DEF DiskInv
  <1>2. provider.state \in Seq(Mutations)
    BY <1>1 DEF ProviderTyped
  <1>3. ASSUME provider'.state = provider.state, diskAcked' = diskAcked
        PROVE  [Register!RegisterNext]_(Register!RegisterVars)
    BY <1>3 DEF Register!RegisterVars
  <1>4. ASSUME NEW s \in Seq(Mutations), Begins(s, provider.state), provider'.state = s, diskAcked \subseteq ToSet(s),
               diskAcked' = diskAcked
        PROVE  [Register!RegisterNext]_(Register!RegisterVars)
    <2>1. Len(s) \in 0 .. Len(provider.state) /\ s = SubSeq(provider.state, 1, Len(s))
      BY <1>2, <1>4, BeginsOrder
    <2>2. Register!Forget
      <3>1. PICK n \in 0 .. Len(provider.state) : s = SubSeq(provider.state, 1, n)
        BY <2>1
      <3>2. provider'.state = SubSeq(provider.state, 1, n) /\ diskAcked \subseteq ToSet(SubSeq(provider.state, 1, n))
            /\ diskAcked' = diskAcked
        BY <1>4, <3>1
      <3> QED BY <3>2, Zenon DEF Register!Forget, Register!ToSet, ToSet
    <2> QED BY <2>2 DEF Register!RegisterNext
  <1>5. ASSUME NEW m \in Mutations, m \notin ToSet(provider.state), provider'.state = Append(provider.state, m),
               diskAcked' \in {diskAcked, diskAcked \cup {m}}
        PROVE  [Register!RegisterNext]_(Register!RegisterVars)
    <2>1. Register!TakeEffect(m)
      BY <1>5 DEF Register!TakeEffect, Register!ToSet, ToSet
    <2> QED BY <2>1 DEF Register!RegisterNext
  <1>6. CASE OpenJournal
    <2> DEFINE r == Recover(journal)
    <2>1. r.state = StateAt(journal, Kept(journal))
      BY <1>1, <1>2, RecoverKeeps
    <2>2. /\ Kept(journal) \in 0 .. Len(journal.frames) /\ Len(journal.frames) \in Nat /\ Durable(journal) \in 0 .. Kept(journal)
          /\ (\A n \in 0 .. Len(journal.frames) : StateAt(journal, n) \in Seq(Mutations))
          /\ (\A n, k \in 0 .. Len(journal.frames) : n <= k => Begins(StateAt(journal, n), StateAt(journal, k)))
      BY <1>1, <1>2, FileFacts
    <2>3. CASE journal.header = "none"
      <3>1. provider'.state = <<>> /\ diskAcked' = diskAcked
        BY <1>6, <2>3 DEF OpenJournal, Closed
      <3>2. diskAcked \subseteq ToSet(<<>>)
        <4>1. journal = Absent
          BY <1>1, <2>3 DEF FileSound
        <4> QED BY <1>1, <4>1 DEF FileSound, Durable, StateAt, Absent
      <3>3. <<>> \in Seq(Mutations)
        BY EmptySeq
      <3>4. Begins(<<>>, provider.state)
        BY <1>2, BeginsOrder
      <3> QED BY <1>4, <3>1, <3>2, <3>3, <3>4
    <2>4. CASE journal.header # "none"
      <3>1. PICK s \in Seq(Mutations) : s = StateAt(journal, Kept(journal))
        BY <2>2
      <3>2. provider'.state = s /\ diskAcked' = diskAcked
        BY <1>6, <2>1, <2>4, <3>1 DEF OpenJournal, Closed
      <3>3. diskAcked \subseteq ToSet(s)
        <4>1. Durable(journal) \in 0 .. Len(journal.frames) /\ Durable(journal) <= Kept(journal)
          BY <2>2
        <4>2. ToSet(StateAt(journal, Durable(journal))) \subseteq ToSet(StateAt(journal, Kept(journal)))
          BY <2>2, <4>1, BeginsOrder
        <4> QED BY <1>1, <3>1, <4>2 DEF FileSound
      <3>4. Begins(s, provider.state) \/ Ahead(s, provider.state)
        BY <1>1, <3>1 DEF FileSound
      <3>5. CASE Begins(s, provider.state)
        BY <1>4, <3>2, <3>3, <3>5
      <3>6. CASE Ahead(s, provider.state)
        BY <1>5, <3>2, <3>6 DEF Ahead
      <3> QED BY <3>4, <3>5, <3>6
    <2> QED BY <2>3, <2>4
  <1>7. CASE SyncFrame
    <2>1. OpIsNew
      BY <1>1, <1>7 DEF ProviderAgrees, SyncFrame
    <2>2. PICK m \in Mutations : m = provider.op /\ m \notin ToSet(provider.state)
      BY <2>1 DEF OpIsNew
    <2>3. provider'.state = Append(provider.state, m) /\ diskAcked' \in {diskAcked, diskAcked \cup {m}}
      BY <1>1, <1>7, <2>2 DEF SyncFrame, ProviderTyped
    <2> QED BY <1>5, <2>2, <2>3
  <1>8. CASE \/ WriteHeader \/ SyncHeader \/ (\E m \in Mutations : UpdateState(m)) \/ WriteFrame \/ WritePayload
            \/ WriteFails \/ CompactNow \/ ReplaceCheckpoint \/ SyncDirectory
    <2>1. provider'.state = provider.state /\ diskAcked' = diskAcked
      BY <1>1, <1>8 DEF ProviderTyped, WriteHeader, SyncHeader, UpdateState, WriteFrame, WritePayload, WriteFails,
         CompactNow, ReplaceCheckpoint, SyncDirectory
    <2> QED BY <1>3, <2>1
  <1>9. CASE StopProvider \/ PowerLoss
    <2>1. provider'.state = provider.state /\ diskAcked' = diskAcked
      BY <1>9 DEF StopProvider, PowerLoss, Closed
    <2> QED BY <1>3, <2>1
  <1>10. CASE UNCHANGED diskVars
    BY <1>3, <1>10 DEF diskVars
  <1> QED BY <1>6, <1>7, <1>8, <1>9, <1>10 DEF DiskNext

\* The disk buffer (update_state, restore_frames, replace_checkpoint) is a
\* durable register for any mutations and any size of journal, through I/O
\* errors, crashes and power losses at every step: mutations take effect in one
\* order and none twice, and what a recovery restores has every acknowledged one.
THEOREM JournalIsRegister == DiskSpec => DiskIsRegister
PROOF
  <1>1. DiskInit => DiskInv /\ Register!RegisterInit
    BY DiskInitial DEF DiskInit, Closed, Register!RegisterInit
  <1> QED BY <1>1, DiskInductive, RegisterSteps, PTL DEF DiskSpec, DiskIsRegister, Register!RegisterSpec
=============================================================================
