--------------------------- MODULE RefreshTickets ---------------------------
(***************************************************************************)
(* The refresh queue of lru-ttl-cache: cold and background tickets wait    *)
(* within byte and key budgets, are taken in batches and keep their charge *)
(* until the batch is dropped.  Consumers wait for a change or a deadline. *)
(***************************************************************************)
EXTENDS Integers, Sequences, FiniteSets, FiniteSetsExt, SequencesExt

CONSTANTS
  TicketKeys, Generations, Work,        \* what callers submit: RefreshWork, [bytes, demand, deadline]
  TotalKeys, TotalBytes, BackgroundKeys, BackgroundBytes, BatchKeys, BatchCharge, ActiveBatches,
  Collection,                           \* how long background work is collected
  Consumers, MaxTicketTime, MaxTicketOps

\* RefreshQueueLimits::try_new.
LimitsAccepted ==
  /\ BackgroundKeys \in 1 .. TotalKeys - 1 /\ BackgroundBytes \in 1 .. TotalBytes - 1
  /\ BatchKeys \in 1 .. TotalKeys /\ BatchCharge \in 1 .. TotalBytes /\ ActiveBatches \in Nat \ {0, 1}
  /\ Work \subseteq [bytes : Nat \ {0}, demand : {"cold", "background"}, deadline : Nat] /\ Collection \in Nat
ASSUME TicketAssumption == LimitsAccepted

VARIABLES tickets,   \* QueueState
          consumer,  \* next_batch calls: where they are, what they wait for
          ticketTime, ticketOps

ticketVars == <<tickets, consumer, ticketTime, ticketOps>>

\* A queued or active ticket of a key.
NoBatchId == 0
Ticket(g, w, since) == [generation |-> g, bytes |-> w.bytes, demand |-> w.demand, deadline |-> w.deadline,
                        since |-> since, batch |-> NoBatchId, cancelled |-> FALSE]

IdleConsumer == [pc |-> "idle", until |-> 0, batch |-> NoBatchId]

TicketsInit ==
  /\ tickets = [cold |-> <<>>, background |-> <<>>, active |-> {}, held |-> <<>>, batches |-> <<>>,
                bytes |-> 0, bgKeys |-> 0, bgBytes |-> 0, closed |-> FALSE]
  /\ consumer = [c \in Consumers |-> IdleConsumer]
  /\ ticketTime = 0 /\ ticketOps = 0

-----------------------------------------------------------------------------
(* QueueState.  held: key -> ticket, for keys in cold, background, active. *)

Resident(q) == DOMAIN q.held
Queued(q) == ToSet(q.cold) \cup ToSet(q.background)
Without(f, ks) == [k \in DOMAIN f \ ks |-> f[k]]
With(f, k, v) == [x \in DOMAIN f \cup {k} |-> IF x = k THEN v ELSE f[x]]
Strike(s, k) == SelectSeq(s, LAMBDA x : x # k)

\* refund of a queued ticket that leaves.
Refund(q, k) ==
  LET t == q.held[k]
      bg == t.demand = "background"
  IN [q EXCEPT !.cold = Strike(@, k), !.background = Strike(@, k), !.held = Without(@, {k}),
               !.bytes = @ - t.bytes, !.bgKeys = IF bg THEN @ - 1 ELSE @,
               !.bgBytes = IF bg THEN @ - t.bytes ELSE @]

\* cancel_key on a ticket: queued work leaves at once, active work keeps its
\* charge; the last cancellation of a batch cancels the batch.
CancelTicket(q, k) ==
  LET b == q.held[k].batch
      n == q.batches[b].cancelled + 1
  IN IF k \in Queued(q) THEN Refund(q, k)
     ELSE IF q.held[k].cancelled THEN q
     ELSE [q EXCEPT !.held[k].cancelled = TRUE, !.batches[b].cancelled = n,
                    !.batches[b].stop = @ \/ n = q.batches[b].keys]

\* expire_tickets.
ExpireTickets(q) ==
  FoldFunction(LAMBDA k, r : CancelTicket(r, k), q,
               SetToSeq({k \in Resident(q) : q.held[k].deadline <= ticketTime}))

\* can_reserve.
CanReserve(q, demand, keys, bytes) ==
  /\ Cardinality(Resident(q)) + keys <= TotalKeys /\ q.bytes + bytes <= TotalBytes
  /\ demand = "background" => q.bgKeys + keys <= BackgroundKeys /\ q.bgBytes + bytes <= BackgroundBytes

\* promote_cold: queued background work joins the cold queue.
PromoteCold(q, k) ==
  IF k \notin ToSet(q.background) THEN q
  ELSE [q EXCEPT !.background = Strike(@, k), !.cold = Append(@, k), !.held[k].demand = "cold",
                 !.bgKeys = @ - 1, !.bgBytes = @ - q.held[k].bytes]

\* merge_queued: the earliest deadline and the largest charge.
MergeQueued(q, k, w) ==
  LET old == q.held[k]
      bytes == IF w.bytes > old.bytes THEN w.bytes ELSE old.bytes
      background == old.demand = "background" /\ w.demand = "background"
      p == IF w.demand = "cold" THEN PromoteCold(q, k) ELSE q
  IN IF old.demand = "cold" /\ w.demand = "background" /\ w.bytes > old.bytes THEN q
     ELSE IF ~CanReserve(q, IF background THEN "background" ELSE "cold", 0, bytes - old.bytes) THEN q
     ELSE [p EXCEPT !.held[k].deadline = IF w.deadline < @ THEN w.deadline ELSE @, !.held[k].bytes = bytes,
                    !.bytes = @ + bytes - old.bytes,
                    !.bgBytes = IF background THEN @ + bytes - old.bytes ELSE @]

\* admit_ticket and join_ticket; a ticket that is refused changes nothing.
AdmitTicket(q, k, g, w) ==
  LET bg == w.demand = "background"
      added == [q EXCEPT !.held = With(@, k, Ticket(g, w, ticketTime)), !.bytes = @ + w.bytes,
                         !.bgKeys = IF bg THEN @ + 1 ELSE @, !.bgBytes = IF bg THEN @ + w.bytes ELSE @]
  IN IF q.closed \/ w.deadline <= ticketTime \/ w.bytes > BatchCharge THEN q
     ELSE IF k \in Queued(q) THEN IF q.held[k].generation = g THEN MergeQueued(q, k, w) ELSE q
     ELSE IF k \in Resident(q) \/ ~CanReserve(q, w.demand, 1, w.bytes) THEN q
     ELSE IF bg THEN [added EXCEPT !.background = Append(@, k)] ELSE [added EXCEPT !.cold = Append(@, k)]

\* select_demand: cold first, and the last slot is not for background work.
SelectDemand(q) ==
  LET bg == {b \in DOMAIN q.batches : q.batches[b].demand = "background"}
  IN IF Cardinality(DOMAIN q.batches) >= ActiveBatches THEN "none"
     ELSE IF q.cold # <<>> THEN "cold"
     ELSE IF Cardinality(bg) >= ActiveBatches - 1 \/ q.background = <<>> THEN "none" ELSE "background"

ReadyAt(q, demand) ==
  IF demand = "cold" THEN q.held[Head(q.cold)].since ELSE q.held[Head(q.background)].since + Collection

\* activate_tickets: the longest front of the queue within the batch budget.
Fitting(q, demand) ==
  LET s == IF demand = "cold" THEN q.cold ELSE q.background
      total(n) == FoldFunction(LAMBDA i, r : r + q.held[s[i]].bytes, 0, [i \in 1 .. n |-> i])
      fits == {n \in 0 .. Len(s) : n <= BatchKeys /\ total(n) <= BatchCharge}
  IN SubSeq(s, 1, Max(fits))

TakeBatch(q, demand, b) ==
  LET ks == ToSet(Fitting(q, demand))
      n == Len(Fitting(q, demand))
  IN [q EXCEPT !.cold = IF demand = "cold" THEN SubSeq(@, n + 1, Len(@)) ELSE @,
               !.background = IF demand = "background" THEN SubSeq(@, n + 1, Len(@)) ELSE @,
               !.active = @ \cup ks, !.held = [k \in DOMAIN @ |-> IF k \in ks THEN [@[k] EXCEPT !.batch = b] ELSE @[k]],
               !.batches = With(@, b, [keys |-> n, cancelled |-> 0, demand |-> demand, stop |-> FALSE])]

\* release_batch.
ReleaseBatch(q, b) ==
  LET ks == {k \in q.active : q.held[k].batch = b}
      bg == {k \in ks : q.held[k].demand = "background"}
      charge(s) == MapThenSumSet(LAMBDA k : q.held[k].bytes, s)
  IN [q EXCEPT !.active = @ \ ks, !.held = Without(@, ks), !.batches = Without(@, {b}),
               !.bytes = @ - charge(ks), !.bgKeys = @ - Cardinality(bg), !.bgBytes = @ - charge(bg)]

\* close: queued work is refunded, active work cancelled.
CloseQueue(q) ==
  LET r == FoldFunction(LAMBDA k, s : Refund(s, k), q, SetToSeq(Queued(q)))
  IN [r EXCEPT !.closed = TRUE, !.held = [k \in DOMAIN @ |-> [@[k] EXCEPT !.cancelled = TRUE]],
               !.batches = [b \in DOMAIN @ |-> [@[b] EXCEPT !.stop = TRUE]]]

-----------------------------------------------------------------------------
(* RefreshQueue                                                            *)

\* A bound on the calls that change the queue; those it refuses are free.
TicketOp == IF tickets' = tickets THEN UNCHANGED ticketOps ELSE ticketOps < MaxTicketOps /\ ticketOps' = ticketOps + 1

\* Mutant: a call that has looked but does not sleep yet misses the notice.
Notified_SleepersOnly ==
  [c \in Consumers |-> IF consumer[c].pc = "wait" THEN [consumer[c] EXCEPT !.pc = "woken"] ELSE consumer[c]]

\* notify_waiters reaches every call that has registered, which next_batch does
\* before it polls.
Notified == [c \in Consumers |-> IF consumer[c].pc \in {"parked", "wait"} THEN [consumer[c] EXCEPT !.pc = "woken"]
                                 ELSE consumer[c]]

TrySchedule(k, g, w) ==
  /\ tickets' = AdmitTicket(ExpireTickets(tickets), k, g, w) /\ TicketOp
  /\ consumer' = Notified /\ UNCHANGED ticketTime

CancelKey(k, g) ==
  /\ k \in Resident(tickets) /\ tickets.held[k].generation = g
  /\ tickets' = CancelTicket(tickets, k) /\ TicketOp /\ consumer' = Notified /\ UNCHANGED ticketTime

Promote(k) ==
  /\ k \in ToSet(tickets.background)
  /\ tickets' = PromoteCold(tickets, k) /\ TicketOp /\ consumer' = Notified /\ UNCHANGED ticketTime

Close ==
  /\ ~tickets.closed
  /\ tickets' = CloseQueue(tickets) /\ TicketOp /\ consumer' = Notified /\ UNCHANGED ticketTime

FreshBatch == CHOOSE b \in 1 .. ActiveBatches + 1 : b \notin DOMAIN tickets.batches

\* poll_batch: a batch, the end, or the next instant that matters (0: none).
PollBatch(c) ==
  LET q == ExpireTickets(tickets)
      demand == SelectDemand(q)
      ready == IF demand = "none" THEN {} ELSE {ReadyAt(q, demand)}
      wakes == {q.held[k].deadline : k \in Queued(q)} \cup {t \in ready : t > ticketTime}
  IN /\ consumer[c].pc \in {"idle", "woken"} /\ (consumer[c].pc = "idle" => ~tickets.closed)
     /\ IF q.closed THEN tickets' = q /\ consumer' = [consumer EXCEPT ![c] = IdleConsumer]
        ELSE IF \E t \in ready : t <= ticketTime
        THEN /\ tickets' = TakeBatch(q, demand, FreshBatch)
             /\ consumer' = [consumer EXCEPT ![c] = [pc |-> "run", until |-> 0, batch |-> FreshBatch]]
        ELSE /\ tickets' = q
             /\ consumer' = [consumer EXCEPT ![c] = [pc |-> "parked", batch |-> NoBatchId,
                               until |-> IF wakes = {} THEN 0 ELSE Min(wakes)]]
     /\ UNCHANGED <<ticketTime, ticketOps>>

Sleep(c) ==
  /\ consumer[c].pc = "parked" /\ consumer' = [consumer EXCEPT ![c].pc = "wait"]
  /\ UNCHANGED <<tickets, ticketTime, ticketOps>>

DeadlineWake(c) ==
  /\ consumer[c].pc = "wait" /\ consumer[c].until \in 1 .. ticketTime
  /\ consumer' = [consumer EXCEPT ![c].pc = "woken"] /\ UNCHANGED <<tickets, ticketTime, ticketOps>>

\* The executor drops the batch, finished or cancelled.
DropBatch(c) ==
  /\ consumer[c].pc = "run" /\ tickets' = ReleaseBatch(tickets, consumer[c].batch)
  /\ consumer' = [Notified EXCEPT ![c] = IdleConsumer] /\ UNCHANGED <<ticketTime, ticketOps>>

TicketTick ==
  /\ ticketTime < MaxTicketTime /\ ticketTime' = ticketTime + 1
  /\ UNCHANGED <<tickets, consumer, ticketOps>>

\* Nothing remembers a key or a generation that is not resident: of those that
\* are not, the first stands for all.
Unheld == {k \in TicketKeys \ Resident(tickets) : \A j \in TicketKeys \ Resident(tickets) : k <= j}
Asked == (Resident(tickets) \X Generations) \cup (Unheld \X {1})

TicketsNext ==
  \/ \E a \in Asked : CancelKey(a[1], a[2]) \/ \E w \in Work : TrySchedule(a[1], a[2], w)
  \/ \E k \in TicketKeys : Promote(k)
  \/ Close \/ TicketTick
  \/ \E c \in Consumers : PollBatch(c) \/ Sleep(c) \/ DeadlineWake(c) \/ DropBatch(c)

-----------------------------------------------------------------------------
(* Properties                                                              *)

ChargeOf(ks) == MapThenSumSet(LAMBDA k : tickets.held[k].bytes, ks)
Background == {k \in Resident(tickets) : tickets.held[k].demand = "background"}

\* After any sequence of joins, promotions, expiries and drops the counters are
\* what the tickets still here were charged, so no subtraction can underflow,
\* and the batch counts its cancelled jobs exactly: it is told to stop when the
\* last of them is cancelled and never before (merge_queued, promote_cold,
\* release_batch, cancel_key).
ChargesExact ==
  /\ tickets.bytes = ChargeOf(Resident(tickets))
  /\ tickets.bgKeys = Cardinality(Background) /\ tickets.bgBytes = ChargeOf(Background)
  /\ \A b \in DOMAIN tickets.batches :
       LET mine == {k \in tickets.active : tickets.held[k].batch = b}
       IN tickets.batches[b].stop <=> \A k \in mine : tickets.held[k].cancelled

\* Background work never spends what is reserved for cold demand: keys, bytes
\* and the final batch slot stay free of it, whatever was promoted or merged
\* before (refresh_queue.rs: "background work cannot spend the reserved cold
\* key/byte capacity or the final active batch slot").
ColdReserved ==
  /\ tickets.bgKeys <= BackgroundKeys /\ tickets.bgBytes <= BackgroundBytes
  /\ tickets.bytes <= TotalBytes /\ Cardinality(Resident(tickets)) <= TotalKeys
  /\ Cardinality({b \in DOMAIN tickets.batches : tickets.batches[b].demand = "background"}) < ActiveBatches

\* A consumer sleeps only while there is nothing for it: no batch could be
\* formed now, and its timer covers the next one that could (next_batch
\* registers before it polls, so no notification is lost).
NoLostNotice ==
  \A c \in Consumers :
    (consumer[c].pc \in {"parked", "wait"} /\ ~tickets.closed /\ SelectDemand(tickets) # "none") =>
      /\ consumer[c].until # 0
      /\ consumer[c].until <= ReadyAt(tickets, SelectDemand(tickets)) \/ consumer[c].until <= ticketTime

\* Demand is charged exactly, keeps the reserve of cold demand free, and reaches a sleeping consumer
\* (RefreshQueue).
TicketsSound == ChargesExact /\ ColdReserved /\ NoLostNotice
=============================================================================
