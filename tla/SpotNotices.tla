----------------------------- MODULE SpotNotices -----------------------------
(***************************************************************************)
(* Spot interruption notices in buffered-writes: callers of next_event     *)
(* wait for host events and share one poll of the notice source at a time. *)
(* A poll is aborted by a host shutdown, by close and by the last waiter   *)
(* that is cancelled.  The source asks IMDS with a cached session token.   *)
(***************************************************************************)
EXTENDS Integers, FiniteSets

CONSTANTS
  Notices,         \* notices the source hands out, each once
  SpotWaiters,     \* concurrent next_event calls
  PollInterval, TokenAge, MaxSpotTime, MaxSpotEvents

ASSUME SpotAssumption ==
  /\ PollInterval \in Nat \ {0} /\ TokenAge \in Nat \ {0} /\ MaxSpotTime \in Nat /\ MaxSpotEvents \in Nat
  /\ Notices \cap {"none", "nothing", "error"} = {}

VARIABLES
  polling,    \* PollState; polls are numbered
  poll,       \* the polls' futures: their phase and result
  token,      \* the cached IMDS token: when to refresh it, or 0
  unseen,     \* notices the source has not handed out
  host,       \* pending host events of the channel
  spot,       \* next_event calls
  seen,       \* notices a waiter returned as a shutdown
  released,   \* whether a poll was given up on purpose
  spotTime, spotEvents

spotVars == <<polling, poll, token, unseen, host, spot, seen, released, spotTime, spotEvents>>

NoPoll == 0
Polls == 1 .. MaxSpotTime + 1
NoPollYet == [phase |-> "none", result |-> "none"]
IdleSpot == [pc |-> "idle", poll |-> NoPoll, event |-> "none"]

SpotInit ==
  /\ polling = [next |-> 0, active |-> NoPoll, closed |-> FALSE, waiters |-> 0, count |-> 0]
  /\ poll = [p \in Polls |-> NoPollYet] /\ token = 0 /\ unseen = Notices
  /\ host = [pending |-> "none", closed |-> FALSE]
  /\ spot = [w \in SpotWaiters |-> IdleSpot] /\ seen = {} /\ released = FALSE /\ spotTime = 0 /\ spotEvents = 0

SpotEvent == spotEvents < MaxSpotEvents /\ spotEvents' = spotEvents + 1
SetSpot(w, fields) == spot' = [spot EXCEPT ![w] = fields]

\* ActivePoll::cancel of the poll in flight; a poll that is done keeps its output.
Abort(polls, p) == IF p = NoPoll \/ polls[p].phase = "done" THEN polls ELSE [polls EXCEPT ![p] = [phase |-> "aborted", result |-> "none"]]
Released == [polling EXCEPT !.active = NoPoll]

-----------------------------------------------------------------------------
(* Waiters                                                                 *)

\* next_event: begin_waiter.
BeginWaiter(w) ==
  /\ spot[w].pc = "idle" /\ SpotEvent
  /\ polling' = [polling EXCEPT !.waiters = @ + 1] /\ SetSpot(w, [IdleSpot EXCEPT !.pc = "turn"])
  /\ UNCHANGED <<poll, token, unseen, host, seen, released, spotTime>>

\* next_turn: wait for the host only, join the poll in flight, sleep, or start one.
NextTurn(w) ==
  /\ spot[w].pc = "turn"
  /\ \/ /\ polling.closed /\ SetSpot(w, [spot[w] EXCEPT !.pc = "host"]) /\ UNCHANGED <<polling, poll>>
     \/ /\ ~polling.closed /\ polling.active # NoPoll
        /\ SetSpot(w, [spot[w] EXCEPT !.pc = "poll", !.poll = polling.active]) /\ UNCHANGED <<polling, poll>>
     \/ /\ ~polling.closed /\ polling.active = NoPoll /\ polling.next > spotTime
        /\ SetSpot(w, [spot[w] EXCEPT !.pc = "sleep"]) /\ UNCHANGED <<polling, poll>>
     \/ /\ ~polling.closed /\ polling.active = NoPoll /\ polling.next <= spotTime
        /\ LET p == polling.count + 1
           IN /\ polling' = [polling EXCEPT !.next = spotTime + PollInterval, !.active = p, !.count = p]
              /\ poll' = [poll EXCEPT ![p].phase = "token"]
              /\ SetSpot(w, [spot[w] EXCEPT !.pc = "poll", !.poll = p])
  /\ UNCHANGED <<token, unseen, host, seen, released, spotTime, spotEvents>>

\* await_output of a delay.
SleepOver(w) ==
  /\ spot[w].pc = "sleep" /\ polling.next <= spotTime /\ SetSpot(w, [spot[w] EXCEPT !.pc = "turn"])
  /\ UNCHANGED <<polling, poll, token, unseen, host, seen, released, spotTime, spotEvents>>

\* PollWaitGuard::drop after finish: the event is returned.
ReturnEvent(w, event) == SetSpot(w, [IdleSpot EXCEPT !.event = event])

\* complete_host_event: a shutdown or the end aborts the poll, other events
\* leave it to the next waiter.
HostEvent(w) ==
  LET ends == host.pending \in {"shutdown", "none"}
  IN /\ spot[w].pc \in {"host", "sleep", "poll"} /\ (host.pending # "none" \/ host.closed)
     /\ host' = [host EXCEPT !.pending = "none"]
     /\ poll' = IF ends THEN Abort(poll, polling.active) ELSE poll
     /\ polling' = [(IF ends THEN Released ELSE polling) EXCEPT !.waiters = @ - 1]
     /\ ReturnEvent(w, host.pending)
     /\ released' = (released \/ ends)
     /\ UNCHANGED <<token, unseen, seen, spotTime, spotEvents>>

\* complete_poll.
CompletePoll(p) == IF polling.active = p THEN Released ELSE polling

\* The shared poll is done: observe_notice, or Aborted ends the events.
PollOutput(w) ==
  LET p == spot[w].poll
      r == poll[p].result
  IN /\ spot[w].pc = "poll" /\ poll[p].phase \in {"done", "aborted"}
     /\ IF poll[p].phase = "aborted" \/ r \in Notices
        THEN /\ ReturnEvent(w, IF r \in Notices THEN "notice" ELSE "none")
             /\ polling' = [CompletePoll(p) EXCEPT !.waiters = @ - 1]
             /\ seen' = seen \cup ({r} \cap Notices)
        ELSE /\ SetSpot(w, [spot[w] EXCEPT !.pc = "turn", !.poll = NoPoll]) /\ polling' = CompletePoll(p)
             /\ UNCHANGED seen
     /\ UNCHANGED <<poll, token, unseen, host, released, spotTime, spotEvents>>

\* Mutant: a cancelled waiter aborts the poll others still wait for.
CancelWaiter_Abrupt(w) ==
  /\ spot[w].pc # "idle" /\ SpotEvent
  /\ poll' = Abort(poll, polling.active) /\ polling' = [Released EXCEPT !.waiters = @ - 1]
  /\ SetSpot(w, IdleSpot) /\ released' = (released \/ polling.waiters = 1)
  /\ UNCHANGED <<token, unseen, host, seen, spotTime>>

\* finish_waiter of a cancelled next_event: the last one aborts the poll.
CancelWaiter(w) ==
  /\ spot[w].pc # "idle" /\ SpotEvent
  /\ poll' = IF polling.waiters = 1 THEN Abort(poll, polling.active) ELSE poll
  /\ polling' = [(IF polling.waiters = 1 THEN Released ELSE polling) EXCEPT !.waiters = @ - 1]
  /\ SetSpot(w, IdleSpot) /\ released' = (released \/ polling.waiters = 1)
  /\ UNCHANGED <<token, unseen, host, seen, spotTime>>

-----------------------------------------------------------------------------
(* The source                                                              *)

Ended(p, result) == poll' = [poll EXCEPT ![p] = [phase |-> "done", result |-> result]]

\* fetch_notice: a token that is due is fetched again.
FetchToken(p) ==
  /\ poll[p].phase = "token"
  /\ \/ token > spotTime /\ poll' = [poll EXCEPT ![p].phase = "action"] /\ UNCHANGED token
     \/ token <= spotTime /\ poll' = [poll EXCEPT ![p].phase = "action"] /\ token' = spotTime + TokenAge
     \/ token <= spotTime /\ Ended(p, "error") /\ token' = 0
  /\ UNCHANGED <<polling, unseen, host, spot, seen, released, spotTime, spotEvents>>

\* Notices are only told apart: which one comes first does not matter.
NextNotice == {n \in unseen : n = CHOOSE m \in unseen : TRUE}

\* fetch_action: no notice, a notice, a rejected token or another failure.
FetchAction(p) ==
  /\ poll[p].phase = "action"
  /\ \/ Ended(p, "nothing") /\ UNCHANGED <<token, unseen>>
     \/ \E n \in NextNotice : Ended(p, n) /\ unseen' = unseen \ {n} /\ UNCHANGED token
     \/ Ended(p, "error") /\ token' \in {0, token} /\ UNCHANGED unseen
  /\ UNCHANGED <<polling, host, spot, seen, released, spotTime, spotEvents>>

-----------------------------------------------------------------------------
(* The host                                                                *)

\* notify_response_completed, notify_shutdown, forward_spot_notice: the mailbox
\* keeps a shutdown.
Notify(event) ==
  /\ SpotEvent /\ host' = [host EXCEPT !.pending = IF host.closed \/ @ = "shutdown" THEN @ ELSE event]
  /\ UNCHANGED <<polling, poll, token, unseen, spot, seen, released, spotTime>>

CloseSpot ==
  /\ ~polling.closed /\ polling' = [Released EXCEPT !.closed = TRUE]
  /\ poll' = Abort(poll, polling.active) /\ host' = [host EXCEPT !.closed = TRUE]
  /\ released' = TRUE
  /\ UNCHANGED <<token, unseen, spot, seen, spotTime, spotEvents>>

SpotTick ==
  /\ spotTime < MaxSpotTime /\ spotTime' = spotTime + 1
  /\ UNCHANGED <<polling, poll, token, unseen, host, spot, seen, released, spotEvents>>

\* Calls that have not begun are alike: one of them is the next.
NextWaiter == {w \in SpotWaiters : spot[w].pc = "idle" /\ w = CHOOSE v \in SpotWaiters : spot[v].pc = "idle"}

SpotNext ==
  \/ \E w \in NextWaiter : BeginWaiter(w)
  \/ \E w \in SpotWaiters : NextTurn(w) \/ SleepOver(w) \/ HostEvent(w) \/ PollOutput(w) \/ CancelWaiter(w)
  \/ \E p \in Polls : FetchToken(p) \/ FetchAction(p)
  \/ \E e \in {"response", "shutdown"} : Notify(e)
  \/ CloseSpot \/ SpotTick

-----------------------------------------------------------------------------
(* Properties                                                              *)

Wanted(p) == polling.active = p \/ \E w \in SpotWaiters : spot[w].pc = "poll" /\ spot[w].poll = p

\* A notice the source handed out reaches a caller: a poll that holds one is
\* still the poll in flight or has a waiter, unless its notice was returned, or
\* the host ended or no caller is left.  A response event, a late waiter or a
\* cancelled one among several never loses it (complete_host_event,
\* finish_waiter, complete_poll).
NoticeKept == \A p \in Polls : poll[p].result \in Notices => poll[p].result \in seen \/ Wanted(p) \/ released
=============================================================================
