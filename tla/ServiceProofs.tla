---------------------------- MODULE ServiceProofs ----------------------------
(***************************************************************************)
(* Proofs about the parts that stand beside the job engine and the buffer: *)
(* the Lambda extension, request costs, the credentials provider, the HTTP *)
(* exchange, the gauges, the verification of tokens and the decisions of   *)
(* the authorization.  As in PartProofs, each part has a specification of  *)
(* its own, an inductive invariant and a theorem for the property the runs *)
(* check; the parts share no state.                                        *)
(***************************************************************************)
EXTENDS LambdaInvocations, RequestCosts, CredentialChain, HttpExchange, MetricGauges, TokenVerification,
        Authorization, SequenceTheorems, FiniteSetTheorems, TLAPS

-----------------------------------------------------------------------------
(* The Lambda extension                                                    *)

LambdaSpec == LambdaInit /\ [][LambdaNext]_lambdaVars

Summaries == [failed : BOOLEAN, items : SUBSET Calls]
Underway == {"sent", "served", "submit", "complete", "report"}
CallRecords ==
  [pc : Underway \cup {"unused", "gone"}, cmd : {Nothing, "bind", "submit", "complete"},
   request : {RequestOf[i] : i \in DOMAIN RequestOf} \cup {Nothing}, attempt : {Attempts[n] : n \in DOMAIN Attempts} \cup {Nothing},
   session : Nat, outcome : {Nothing, "ambiguous", "refused", "bound", "admitted", "completed"}, summary : Summaries]
Phases ==
  [kind : {"idle", "phase", "stopped"}, event : Nat,
   request : {RequestOf[i] : i \in DOMAIN RequestOf} \cup {Nothing}, deadline : Nat, attempt : {Attempts[n] : n \in DOMAIN Attempts} \cup {Nothing},
   report : BOOLEAN, summary : Summaries, expired : BOOLEAN]

LambdaTyped ==
  /\ phase \in Phases /\ runner \in [pc : {"next", "await", "expire", "drained"}, event : Nat]
  /\ call \in [Calls -> CallRecords] /\ serving \in Calls \cup {NoCall}
  /\ marked \subseteq written /\ written \subseteq Calls /\ lambdaTime \in Nat

\* The runner only leaves a phase that is finished, and waits for its own.
RunnerInStep ==
  /\ runner.pc = "next" => phase.kind = "idle" \/ (phase.kind = "phase" /\ phase.event = runner.event /\ IsTerminal(phase))
  /\ runner.pc \in {"await", "expire"} => phase.kind = "phase" /\ phase.event = runner.event
  /\ runner.pc = "await" => ~phase.expired
  /\ runner.pc = "drained" => phase.kind = "stopped"
  /\ phase.report => phase.attempt # Nothing
  /\ phase.event <= runner.event /\ \A c \in Calls : call[c].session <= runner.event

\* The connection the server works on: nothing is admitted between the watermark
\* of a flush turn and its report, and no command is under way once the phase
\* is reported.
ConnectionInStep ==
  /\ phase.kind = "stopped" => serving = NoCall
  /\ serving \in Calls =>
       /\ call[serving].pc \in Underway \ {"sent"}
       /\ call[serving].pc = "report" /\ ~call[serving].summary.failed => marked = written
       /\ call[serving].pc # "served" => ~phase.report

\* What a client has been told of a call, against the writer.
ToldInStep ==
  \A c \in Calls :
    /\ call[c].pc \in Underway => call[c].outcome \in {Nothing, "ambiguous"} /\ call[c].cmd # Nothing
    /\ c \in written => \/ call[c].pc = "gone" /\ call[c].outcome \in {"admitted", "ambiguous"}
                        \/ call[c].pc = "submit" /\ phase.kind = "stopped"
    /\ call[c].outcome = "admitted" => c \in written

LambdaInv ==
  LambdaTyped /\ RunnerInStep /\ ConnectionInStep /\ ToldInStep /\ ReportCoversWrites /\ CompletedOnce

\* A call that is updated alone leaves the others as they are.
LEMMA PutIs ==
  ASSUME LambdaTyped, NEW c \in Calls, NEW r \in CallRecords, Put(c, r)
  PROVE  call' \in [Calls -> CallRecords] /\ call'[c] = r /\ \A x \in Calls \ {c} : call'[x] = call[x]
PROOF BY DEF LambdaTyped, Put

\* The calls start unused and the runner waits for its first event.
LEMMA LambdaStarts == LambdaInit => LambdaInv
PROOF
  <1> SUFFICES ASSUME LambdaInit PROVE LambdaInv
    OBVIOUS
  <1>1. UnusedCall \in CallRecords /\ IdlePhase \in Phases
    BY DEF UnusedCall, CallRecords, IdlePhase, Phases, Underway, Nothing, NoSummary, Summaries
  <1>2. LambdaTyped
    BY <1>1 DEF LambdaInit, LambdaTyped
  <1>3. RunnerInStep
    BY DEF LambdaInit, RunnerInStep, IdlePhase, UnusedCall
  <1>4. ConnectionInStep
    BY LambdaAssumption DEF LambdaInit, ConnectionInStep, NoCall, IdlePhase
  <1>5. ToldInStep /\ ReportCoversWrites /\ CompletedOnce
    BY DEF LambdaInit, ToldInStep, ReportCoversWrites, CompletedOnce, IdlePhase, UnusedCall, Underway, Nothing
  <1> QED BY <1>2, <1>3, <1>4, <1>5 DEF LambdaInv

\* begin is never refused: the runner comes back to it with a finished phase.
LEMMA InvokeKeeps == LambdaInv /\ InvokeEvent => LambdaInv'
PROOF
  <1> SUFFICES ASSUME LambdaInv, InvokeEvent PROVE LambdaInv'
    OBVIOUS
  <1> DEFINE e == NextEvent
  <1>1. /\ LambdaTyped /\ RunnerInStep /\ ConnectionInStep /\ ToldInStep
        /\ runner.pc = "next" /\ e \in DOMAIN RequestOf /\ e \in Nat /\ e > runner.event
        /\ UNCHANGED <<call, serving, written, marked, landed, lambdaTime>>
    BY DEF LambdaInv, InvokeEvent, NextEvent, LambdaTyped
  <1>2. Begins(e)
    BY <1>1 DEF Begins, RunnerInStep, LambdaTyped, Phases
  <1>3. /\ phase' = [IdlePhase EXCEPT !.kind = "phase", !.event = e, !.request = RequestOf[e],
                                      !.deadline = lambdaTime + PhaseTicks]
        /\ runner' = [pc |-> "await", event |-> e]
    BY <1>2 DEF InvokeEvent
  <1>4. /\ phase' \in Phases /\ phase'.kind = "phase" /\ phase'.event = e /\ ~phase'.report /\ ~phase'.expired
    <2>1. RequestOf[e] \in {RequestOf[i] : i \in DOMAIN RequestOf} \cup {Nothing}
      BY <1>1
    <2>2. lambdaTime + PhaseTicks \in Nat
      BY <1>1, LambdaAssumption DEF LambdaTyped
    <2> HIDE DEF e
    <2> QED BY <1>1, <1>3, <2>1, <2>2 DEF IdlePhase, Phases, NoSummary, Summaries
  <1> HIDE DEF e
  <1>5. LambdaTyped'
    BY <1>1, <1>3, <1>4 DEF LambdaTyped
  <1>6. \A c \in Calls : call[c].session \in Nat /\ call[c].session < e
    BY <1>1 DEF RunnerInStep, LambdaTyped, CallRecords
  <1>7. RunnerInStep'
    BY <1>1, <1>3, <1>4, <1>6 DEF RunnerInStep
  <1>8. phase.kind # "stopped"
    BY <1>1 DEF RunnerInStep
  <1>9. ConnectionInStep' /\ ToldInStep' /\ ReportCoversWrites' /\ CompletedOnce'
    BY <1>1, <1>4, <1>6, <1>8 DEF ConnectionInStep, ToldInStep, ReportCoversWrites, CompletedOnce
  <1> QED BY <1>5, <1>7, <1>9 DEF LambdaInv

\* completed finds the runner's own event (AwaitCompletion).
LEMMA AwaitKeeps == LambdaInv /\ AwaitCompletion => LambdaInv'
PROOF
  <1> SUFFICES ASSUME LambdaInv, AwaitCompletion PROVE LambdaInv'
    OBVIOUS
  <1>1. /\ LambdaTyped /\ RunnerInStep /\ ConnectionInStep /\ ToldInStep /\ ReportCoversWrites /\ CompletedOnce
        /\ runner.pc = "await"
        /\ UNCHANGED <<phase, previous, call, serving, written, marked, landed, lambdaTime>>
    BY DEF LambdaInv, AwaitCompletion
  <1>2. phase.kind = "phase" /\ phase.event = runner.event /\ ~phase.expired
    BY <1>1 DEF RunnerInStep
  <1>3. \/ phase.report /\ runner' = [runner EXCEPT !.pc = "next"]
        \/ runner' = [runner EXCEPT !.pc = "expire"]
    BY <1>2 DEF AwaitCompletion
  <1>4. LambdaTyped'
    BY <1>1, <1>3 DEF LambdaTyped
  <1>5. RunnerInStep'
    BY <1>1, <1>2, <1>3 DEF RunnerInStep, IsTerminal, LambdaTyped
  <1>6. ConnectionInStep' /\ ToldInStep' /\ ReportCoversWrites' /\ CompletedOnce'
    BY <1>1 DEF ConnectionInStep, ToldInStep, ReportCoversWrites, CompletedOnce
  <1> QED BY <1>4, <1>5, <1>6 DEF LambdaInv

\* expire leaves a phase that is finished (Expire).
LEMMA ExpireKeeps == LambdaInv /\ Expire => LambdaInv'
PROOF
  <1> SUFFICES ASSUME LambdaInv, Expire PROVE LambdaInv'
    OBVIOUS
  <1>1. /\ LambdaTyped /\ RunnerInStep /\ ConnectionInStep /\ ToldInStep /\ ReportCoversWrites /\ CompletedOnce
        /\ runner.pc = "expire"
        /\ runner' = [runner EXCEPT !.pc = "next"] /\ UNCHANGED <<call, serving, written, marked, landed, lambdaTime>>
        /\ phase.kind = "phase" /\ phase.event = runner.event
    BY DEF LambdaInv, Expire, RunnerInStep
  <1>2. phase' = IF IsTerminal(phase) THEN phase ELSE [phase EXCEPT !.expired = TRUE]
    BY <1>1 DEF Expire
  <1>3. /\ phase' \in Phases /\ phase'.kind = "phase" /\ phase'.event = phase.event /\ phase'.report = phase.report
        /\ phase'.attempt = phase.attempt /\ phase'.summary = phase.summary
    BY <1>1, <1>2 DEF Phases, LambdaTyped
  <1>4. IsTerminal(phase')
    BY <1>1, <1>2 DEF Phases, LambdaTyped, IsTerminal
  <1>5. LambdaTyped'
    BY <1>1, <1>3 DEF LambdaTyped
  <1>6. RunnerInStep'
    <2>1. runner'.pc = "next" /\ runner'.event = runner.event
      BY <1>1 DEF LambdaTyped
    <2> QED BY <1>1, <1>3, <1>4, <2>1 DEF RunnerInStep
  <1>7. ConnectionInStep' /\ ToldInStep' /\ ReportCoversWrites' /\ CompletedOnce'
    BY <1>1, <1>3 DEF ConnectionInStep, ToldInStep, ReportCoversWrites, CompletedOnce
  <1> QED BY <1>5, <1>6, <1>7 DEF LambdaInv

\* A shutdown drops the connection and opens no phase again (ShutdownEvent).
LEMMA ShutdownKeeps == LambdaInv /\ ShutdownEvent => LambdaInv'
PROOF
  <1> SUFFICES ASSUME LambdaInv, ShutdownEvent PROVE LambdaInv'
    OBVIOUS
  <1>1. /\ LambdaTyped /\ RunnerInStep /\ ToldInStep /\ runner' = [runner EXCEPT !.pc = "drained"]
        /\ phase' = [phase EXCEPT !.kind = "stopped"] /\ serving' = NoCall
        /\ written' \in CutShort /\ UNCHANGED <<call, marked, lambdaTime>>
    BY DEF LambdaInv, ShutdownEvent
  <1>2. /\ phase' \in Phases /\ phase'.kind = "stopped" /\ phase'.report = phase.report /\ phase'.attempt = phase.attempt
        /\ phase'.event = phase.event
    BY <1>1 DEF Phases, LambdaTyped
  <1>3. runner' \in [pc : {"next", "await", "expire", "drained"}, event : Nat] /\ runner'.pc = "drained" /\ runner'.event = runner.event
    BY <1>1 DEF LambdaTyped
  <1>4. /\ written \subseteq written' /\ written' \subseteq Calls
        /\ \A c \in written' : c \in written \/ call[c].pc = "submit"
    BY <1>1 DEF CutShort, LambdaTyped
  <1>5. LambdaTyped'
    BY <1>1, <1>2, <1>3, <1>4 DEF LambdaTyped
  <1>6. RunnerInStep'
    BY <1>1, <1>2, <1>3 DEF RunnerInStep
  <1>7. ToldInStep'
    BY <1>1, <1>2, <1>4 DEF ToldInStep
  <1>8. ConnectionInStep' /\ ReportCoversWrites' /\ CompletedOnce'
    BY <1>1, <1>2, LambdaAssumption DEF ConnectionInStep, ReportCoversWrites, CompletedOnce, NoCall
  <1> QED BY <1>5, <1>6, <1>7, <1>8 DEF LambdaInv

\* Time changes nothing that was told (LambdaTick).
LEMMA LambdaTickKeeps == LambdaInv /\ LambdaTick => LambdaInv'
PROOF BY DEF LambdaInv, LambdaTick, LambdaTyped, RunnerInStep, ConnectionInStep, ToldInStep, ReportCoversWrites, CompletedOnce

\* A step of one call that leaves the runner and its phase alone keeps what
\* they are about.
LEMMA QuietCallKeeps ==
  ASSUME LambdaInv, NEW c \in Calls, NEW r \in CallRecords, Put(c, r), UNCHANGED <<phase, runner, lambdaTime>>,
         serving' \in Calls \cup {NoCall}, marked' \subseteq written', written' \subseteq Calls,
         marked \subseteq marked', written' \ {c} = written \ {c},
         ConnectionInStep', r.session <= runner.event,
         r.pc \in Underway => r.outcome \in {Nothing, "ambiguous"} /\ r.cmd # Nothing,
         c \in written' => \/ r.pc = "gone" /\ r.outcome \in {"admitted", "ambiguous"}
                           \/ r.pc = "submit" /\ phase.kind = "stopped",
         r.outcome = "admitted" => c \in written',
         r.outcome = "completed" => phase.report /\ r.summary = phase.summary,
         r.outcome = "admitted" => phase.report = FALSE \/ r = call[c]
  PROVE  LambdaInv'
PROOF
  <1>1. LambdaTyped /\ RunnerInStep /\ ToldInStep /\ ReportCoversWrites /\ CompletedOnce
    BY DEF LambdaInv
  <1>2. call' \in [Calls -> CallRecords] /\ call'[c] = r /\ \A x \in Calls \ {c} : call'[x] = call[x]
    BY <1>1, PutIs
  <1>3. LambdaTyped'
    BY <1>1, <1>2 DEF LambdaTyped
  <1>4. RunnerInStep'
    BY <1>1, <1>2 DEF RunnerInStep
  <1>5. ToldInStep'
    BY <1>1, <1>2 DEF ToldInStep
  <1>6. ReportCoversWrites'
    BY <1>1, <1>2 DEF ReportCoversWrites
  <1>7. CompletedOnce'
    BY <1>1, <1>2 DEF CompletedOnce
  <1> QED BY <1>3, <1>4, <1>5, <1>6, <1>7 DEF LambdaInv

\* A request that is sent, or that could not be, is not yet at the writer (Connect).
LEMMA ConnectKeeps == ASSUME NEW c \in Calls PROVE LambdaInv /\ Connect(c) => LambdaInv'
PROOF
  <1> SUFFICES ASSUME LambdaInv, Connect(c) PROVE LambdaInv'
    OBVIOUS
  <1>1. /\ LambdaTyped /\ ConnectionInStep /\ ToldInStep /\ RunnerInStep /\ call[c].pc = "unused"
        /\ UNCHANGED <<phase, previous, runner, serving, written, marked, landed, lambdaTime>>
    BY DEF LambdaInv, Connect, Fresh
  <1>2. Sessions \subseteq Nat /\ (\A s \in Sessions : s <= runner.event) /\ runner.event \in Nat
    BY <1>1 DEF Sessions, LambdaTyped, CallRecords, RunnerInStep
  <1>3. PICK r \in CallRecords : /\ Put(c, r) /\ r.session <= runner.event
                                 /\ \/ r.pc = "sent" /\ r.outcome = Nothing /\ r.cmd # Nothing
                                    \/ r.pc = "gone" /\ r.outcome = "refused"
    <2>1. PICK pc \in {"sent", "gone"} :
            LET out == [UnusedCall EXCEPT !.pc = pc, !.outcome = IF pc = "sent" THEN Nothing ELSE IntoWriteError(FALSE)]
            IN \/ \E i \in DOMAIN RequestOf, n \in DOMAIN Attempts :
                    Put(c, [out EXCEPT !.cmd = "bind", !.request = RequestOf[i], !.attempt = Attempts[n]])
               \/ \E s \in Sessions, cmd \in {"submit", "complete"} : Put(c, [out EXCEPT !.cmd = cmd, !.session = s])
      BY DEF Connect
    <2> DEFINE out == [UnusedCall EXCEPT !.pc = pc, !.outcome = IF pc = "sent" THEN Nothing ELSE IntoWriteError(FALSE)]
    <2>2. /\ out \in CallRecords /\ out.pc = pc /\ out.session = 0
          /\ \/ out.pc = "sent" /\ out.outcome = Nothing
             \/ out.pc = "gone" /\ out.outcome = "refused"
      BY DEF UnusedCall, CallRecords, Underway, IntoWriteError, NoSummary, Summaries
    <2>3. CASE \E i \in DOMAIN RequestOf, n \in DOMAIN Attempts :
                 Put(c, [out EXCEPT !.cmd = "bind", !.request = RequestOf[i], !.attempt = Attempts[n]])
      <3>1. PICK i \in DOMAIN RequestOf, n \in DOMAIN Attempts :
              Put(c, [out EXCEPT !.cmd = "bind", !.request = RequestOf[i], !.attempt = Attempts[n]])
        BY <2>3
      <3>2. RequestOf[i] \in {RequestOf[j] : j \in DOMAIN RequestOf} /\ Attempts[n] \in {Attempts[k] : k \in DOMAIN Attempts}
        OBVIOUS
      <3> DEFINE r == [out EXCEPT !.cmd = "bind", !.request = RequestOf[i], !.attempt = Attempts[n]]
      <3> HIDE DEF out
      <3>3. r \in CallRecords /\ r.pc = out.pc /\ r.outcome = out.outcome /\ r.cmd # Nothing
        BY <2>2, <3>2 DEF CallRecords, Nothing
      <3>4. r.session = out.session
        BY <2>2 DEF CallRecords
      <3>5. Put(c, r)
        BY <3>1
      <3> HIDE DEF r
      <3>6. r.session <= runner.event
        BY <1>2, <2>2, <3>4
      <3> QED BY <2>2, <3>3, <3>5, <3>6
    <2>4. CASE \E s \in Sessions, cmd \in {"submit", "complete"} : Put(c, [out EXCEPT !.cmd = cmd, !.session = s])
      <3>1. PICK s \in Sessions, cmd \in {"submit", "complete"} : Put(c, [out EXCEPT !.cmd = cmd, !.session = s])
        BY <2>4
      <3> DEFINE r == [out EXCEPT !.cmd = cmd, !.session = s]
      <3>2. s \in Nat
        BY <1>2
      <3> HIDE DEF out
      <3>3. r \in CallRecords /\ r.pc = out.pc /\ r.outcome = out.outcome /\ r.cmd # Nothing /\ r.session <= runner.event
        BY <1>2, <2>2, <3>2 DEF CallRecords, Nothing
      <3>4. Put(c, r)
        BY <3>1
      <3> HIDE DEF r
      <3> QED BY <2>2, <3>3, <3>4
    <2> QED BY <2>1, <2>3, <2>4
  <1>4. call' \in [Calls -> CallRecords] /\ call'[c] = r /\ \A x \in Calls \ {c} : call'[x] = call[x]
    BY <1>1, <1>3, PutIs
  <1>5. c # serving /\ c \notin written
    BY <1>1 DEF ConnectionInStep, ToldInStep, Underway
  <1>6. ConnectionInStep'
    BY <1>1, <1>4, <1>5 DEF ConnectionInStep
  <1> QED BY <1>1, <1>3, <1>5, <1>6, QuietCallKeeps DEF LambdaTyped, Underway, Nothing

\* A caller that gives up is told that it cannot know (GiveUpCall).
LEMMA GiveUpKeeps == ASSUME NEW c \in Calls PROVE LambdaInv /\ GiveUpCall(c) => LambdaInv'
PROOF
  <1> SUFFICES ASSUME LambdaInv, GiveUpCall(c) PROVE LambdaInv'
    OBVIOUS
  <1> DEFINE r == [call[c] EXCEPT !.outcome = "ambiguous"]
  <1>1. /\ LambdaTyped /\ RunnerInStep /\ ConnectionInStep /\ ToldInStep /\ call[c].pc \in Underway /\ Put(c, r)
        /\ UNCHANGED <<phase, previous, runner, serving, written, marked, landed, lambdaTime>>
    BY DEF LambdaInv, GiveUpCall, IntoWriteError, Underway
  <1>2. /\ r \in CallRecords /\ r.pc = call[c].pc /\ r.outcome = "ambiguous" /\ r.cmd = call[c].cmd
        /\ r.session = call[c].session /\ r.summary = call[c].summary
    BY <1>1 DEF LambdaTyped, CallRecords
  <1> HIDE DEF r
  <1>4. call' \in [Calls -> CallRecords] /\ call'[c] = r /\ \A x \in Calls \ {c} : call'[x] = call[x]
    BY <1>1, <1>2, PutIs
  <1>5. /\ (c \in written => call[c].pc = "submit" /\ phase.kind = "stopped") /\ call[c].cmd # Nothing
        /\ call[c].session <= runner.event
    BY <1>1 DEF ToldInStep, Underway, RunnerInStep
  <1>6. ConnectionInStep'
    BY <1>1, <1>2, <1>4 DEF ConnectionInStep
  <1> QED BY <1>1, <1>2, <1>5, <1>6, QuietCallKeeps DEF LambdaTyped

\* The next connection is taken when the last is done (Accept).
LEMMA AcceptKeeps == ASSUME NEW c \in Calls PROVE LambdaInv /\ Accept(c) => LambdaInv'
PROOF
  <1> SUFFICES ASSUME LambdaInv, Accept(c) PROVE LambdaInv'
    OBVIOUS
  <1> DEFINE r == [call[c] EXCEPT !.pc = "served"]
  <1>1. /\ LambdaTyped /\ RunnerInStep /\ ConnectionInStep /\ ToldInStep /\ call[c].pc = "sent" /\ Put(c, r)
        /\ serving' = c /\ phase.kind # "stopped"
        /\ UNCHANGED <<phase, previous, runner, written, marked, landed, lambdaTime>>
    BY DEF LambdaInv, Accept, Serving
  <1>2. /\ r \in CallRecords /\ r.pc = "served" /\ r.outcome = call[c].outcome /\ r.cmd = call[c].cmd
        /\ r.session = call[c].session
    BY <1>1 DEF LambdaTyped, CallRecords, Underway
  <1> HIDE DEF r
  <1>4. call' \in [Calls -> CallRecords] /\ call'[c] = r /\ \A x \in Calls \ {c} : call'[x] = call[x]
    BY <1>1, <1>2, PutIs
  <1>5. /\ c \notin written /\ call[c].outcome \in {Nothing, "ambiguous"} /\ call[c].cmd # Nothing
        /\ call[c].session <= runner.event
    BY <1>1 DEF ToldInStep, Underway, RunnerInStep
  <1>6. ConnectionInStep'
    BY <1>1, <1>2, <1>4 DEF ConnectionInStep, Underway
  <1> QED BY <1>1, <1>2, <1>5, <1>6, QuietCallKeeps DEF LambdaTyped, Nothing

\* An answer frees the server, and tells a caller that still listens.
LEMMA AnswerIs ==
  ASSUME LambdaTyped, NEW c \in Calls, NEW o \in {"ambiguous", "refused", "bound", "admitted"}, Answer(c, o)
  PROVE  /\ serving' = NoCall /\ ConnectionInStep'
         /\ \E r \in CallRecords :
              /\ Put(c, r) /\ r.pc = "gone" /\ r.outcome = (IF call[c].outcome = Nothing THEN o ELSE call[c].outcome)
              /\ r.session = call[c].session
PROOF
  <1> DEFINE r == [call[c] EXCEPT !.pc = "gone", !.outcome = IF @ = Nothing THEN o ELSE @]
  <1>1. serving' = NoCall /\ Put(c, r)
    BY DEF Answer
  <1>2. /\ r \in CallRecords /\ r.pc = "gone" /\ r.outcome = (IF call[c].outcome = Nothing THEN o ELSE call[c].outcome)
        /\ r.session = call[c].session
    BY DEF LambdaTyped, CallRecords
  <1>3. ConnectionInStep'
    BY <1>1, LambdaAssumption DEF ConnectionInStep, NoCall
  <1> HIDE DEF r
  <1> QED BY <1>1, <1>2, <1>3

\* So does the answer of a completion, which carries a summary.
LEMMA CompleteIs ==
  ASSUME LambdaTyped, NEW c \in Calls, NEW m \in Summaries, Complete(c, m)
  PROVE  /\ serving' = NoCall /\ ConnectionInStep'
         /\ \E r \in CallRecords :
              /\ Put(c, r) /\ r.pc = "gone" /\ r.outcome = (IF call[c].outcome = Nothing THEN "completed" ELSE call[c].outcome)
              /\ r.session = call[c].session /\ r.summary = m
PROOF
  <1> DEFINE r == [call[c] EXCEPT !.pc = "gone", !.summary = m, !.outcome = IF @ = Nothing THEN "completed" ELSE @]
  <1>1. serving' = NoCall /\ Put(c, r)
    BY DEF Complete
  <1>2. /\ r \in CallRecords /\ r.pc = "gone" /\ r.session = call[c].session /\ r.summary = m
        /\ r.outcome = (IF call[c].outcome = Nothing THEN "completed" ELSE call[c].outcome)
    BY DEF LambdaTyped, CallRecords
  <1>3. ConnectionInStep'
    BY <1>1, LambdaAssumption DEF ConnectionInStep, NoCall
  <1> HIDE DEF r
  <1> QED BY <1>1, <1>2, <1>3

\* The call the server works on is not at the writer, and nobody was told its end.
LEMMA ServedIs ==
  ASSUME LambdaInv, NEW c \in Calls, serving = c
  PROVE  /\ LambdaTyped /\ c \notin written /\ call[c].outcome \in {Nothing, "ambiguous"} /\ call[c].cmd # Nothing
         /\ call[c].pc \in Underway \ {"sent"} /\ (call[c].pc # "served" => ~phase.report)
         /\ (call[c].pc = "report" /\ ~call[c].summary.failed => marked = written)
         /\ call[c].session <= runner.event /\ phase.kind # "stopped"
PROOF
  <1>1. LambdaTyped /\ RunnerInStep /\ ConnectionInStep /\ ToldInStep
    BY DEF LambdaInv
  <1>2. /\ call[c].pc \in Underway \ {"sent"} /\ (call[c].pc # "served" => ~phase.report)
        /\ (call[c].pc = "report" /\ ~call[c].summary.failed => marked = written) /\ phase.kind # "stopped"
    BY <1>1, LambdaAssumption DEF ConnectionInStep, NoCall
  <1>3. /\ c \notin written /\ call[c].outcome \in {Nothing, "ambiguous"} /\ call[c].cmd # Nothing
        /\ call[c].session <= runner.event
    BY <1>1, <1>2 DEF ToldInStep, Underway, RunnerInStep
  <1> QED BY <1>1, <1>2, <1>3

\* An answer that leaves the phase and the flushes alone, with what the writer
\* made of the call.
LEMMA AnswerKeeps ==
  ASSUME LambdaInv, NEW c \in Calls, serving = c,
         NEW o \in {"ambiguous", "refused", "admitted"}, Answer(c, o),
         UNCHANGED <<phase, runner, marked, lambdaTime>>,
         \/ written' = written /\ o # "admitted"
         \/ written' = written \cup {c} /\ o \in {"admitted", "ambiguous"} /\ call[c].pc = "submit"
  PROVE  LambdaInv'
PROOF
  <1>1. /\ LambdaTyped /\ c \notin written /\ call[c].outcome \in {Nothing, "ambiguous"}
        /\ (call[c].pc # "served" => ~phase.report) /\ call[c].session <= runner.event
    BY ServedIs
  <1>2. serving' = NoCall /\ ConnectionInStep'
    BY <1>1, AnswerIs
  <1>3. PICK r \in CallRecords :
          /\ Put(c, r) /\ r.pc = "gone" /\ r.outcome = (IF call[c].outcome = Nothing THEN o ELSE call[c].outcome)
          /\ r.session = call[c].session
    BY <1>1, AnswerIs
  <1>4. r.outcome \in {o, "ambiguous"}
    BY <1>1, <1>3
  <1>5. marked' \subseteq written' /\ written' \subseteq Calls /\ marked \subseteq marked' /\ written' \ {c} = written \ {c}
    BY <1>1 DEF LambdaTyped
  <1>6. c \in written' => r.outcome \in {"admitted", "ambiguous"}
    BY <1>1, <1>4
  <1>7. r.outcome = "admitted" => c \in written' /\ phase.report = FALSE
    BY <1>1, <1>4 DEF LambdaTyped, Phases
  <1>8. "gone" \notin Underway /\ r.outcome # "completed"
    BY <1>4 DEF Underway
  <1> QED BY <1>1, <1>2, <1>3, <1>5, <1>6, <1>7, <1>8, QuietCallKeeps

\* A session that is not the phase's does nothing; one that is waits at its
\* command (ApplyCommand).
LEMMA ApplyKeeps == ASSUME NEW c \in Calls PROVE LambdaInv /\ ApplyCommand(c) => LambdaInv'
PROOF
  <1> SUFFICES ASSUME LambdaInv, ApplyCommand(c) PROVE LambdaInv'
    OBVIOUS
  <1> DEFINE p == Permission(call[c].session)
  <1>1. /\ serving = c /\ call[c].pc = "served" /\ call[c].cmd # "bind"
        /\ UNCHANGED <<phase, previous, runner, written, marked, landed, lambdaTime>>
    BY DEF ApplyCommand
  <1>2. /\ LambdaTyped /\ c \notin written /\ call[c].outcome \in {Nothing, "ambiguous"} /\ call[c].cmd # Nothing
        /\ call[c].session <= runner.event /\ phase.kind # "stopped"
    BY <1>1, ServedIs
  <1>3. CASE p # "active" /\ ~(p = "completed" /\ call[c].cmd = "complete")
    <2>1. Answer(c, "refused")
      BY <1>3 DEF ApplyCommand
    <2> QED BY <1>1, <2>1, AnswerKeeps
  <1>4. CASE p = "completed" /\ call[c].cmd = "complete"
    <2>1. Complete(c, phase.summary) /\ phase.report /\ phase.summary \in Summaries
      BY <1>2, <1>4 DEF ApplyCommand, Permission, LambdaTyped, Phases
    <2>2. serving' = NoCall /\ ConnectionInStep'
      BY <1>2, <2>1, CompleteIs
    <2>3. PICK r \in CallRecords :
            /\ Put(c, r) /\ r.pc = "gone" /\ r.outcome = (IF call[c].outcome = Nothing THEN "completed" ELSE call[c].outcome)
            /\ r.session = call[c].session /\ r.summary = phase.summary
      BY <1>2, <2>1, CompleteIs
    <2>4. r.outcome \in {"completed", "ambiguous"} /\ "gone" \notin Underway
      BY <1>2, <2>3 DEF Underway
    <2> QED BY <1>1, <1>2, <2>1, <2>2, <2>3, <2>4, QuietCallKeeps DEF LambdaTyped
  <1>5. CASE p = "active"
    <2> DEFINE r == [call[c] EXCEPT !.pc = call[c].cmd]
    <2>1. Put(c, r) /\ serving' = serving
      BY <1>5 DEF ApplyCommand
    <2>2. ~phase.report
      BY <1>5 DEF Permission
    <2>3. call[c].cmd \in {"submit", "complete"}
      BY <1>1, <1>2 DEF LambdaTyped, CallRecords
    <2>4. /\ r \in CallRecords /\ r.pc = call[c].cmd /\ r.outcome = call[c].outcome /\ r.cmd = call[c].cmd
          /\ r.session = call[c].session
      BY <1>2, <2>3 DEF LambdaTyped, CallRecords, Underway
    <2> HIDE DEF r
    <2>5. call'[c] = r
      BY <1>2, <2>1, <2>4, PutIs
    <2>6. ConnectionInStep'
      BY <1>1, <1>2, <2>1, <2>2, <2>3, <2>4, <2>5 DEF ConnectionInStep, Underway
    <2> QED BY <1>1, <1>2, <2>1, <2>4, <2>6, QuietCallKeeps DEF LambdaTyped, Nothing
  <1> QED BY <1>3, <1>4, <1>5

\* A write's answer says what the writer made of it, or that it is not known
\* (AdmitCurrent).
LEMMA AdmitKeeps == ASSUME NEW c \in Calls PROVE LambdaInv /\ AdmitCurrent(c) => LambdaInv'
PROOF
  <1> SUFFICES ASSUME LambdaInv, AdmitCurrent(c) PROVE LambdaInv'
    OBVIOUS
  <1>1. serving = c /\ call[c].pc = "submit" /\ UNCHANGED <<phase, previous, runner, marked, lambdaTime>>
    BY DEF AdmitCurrent
  <1>2. PICK o \in WriterOutcomes(c) : written' = o[1] /\ Answer(c, o[2])
    BY DEF AdmitCurrent
  <1>3. /\ o[2] \in {"admitted", "refused", "ambiguous"}
        /\ \/ o[1] = written /\ o[2] # "admitted"
           \/ o[1] = written \cup {c} /\ o[2] \in {"admitted", "ambiguous"}
    BY DEF WriterOutcomes
  <1> QED BY <1>1, <1>2, <1>3, AnswerKeeps

\* A broken exchange is told as one that is not known (ExchangeEnds).
LEMMA ExchangeEndsKeeps == ASSUME NEW c \in Calls PROVE LambdaInv /\ ExchangeEnds(c) => LambdaInv'
PROOF
  <1> SUFFICES ASSUME LambdaInv, ExchangeEnds(c) PROVE LambdaInv'
    OBVIOUS
  <1>1. /\ serving = c /\ Answer(c, "ambiguous") /\ UNCHANGED <<phase, previous, runner, marked, lambdaTime>>
        /\ \/ written' = written
           \/ written' = written \cup {c} /\ call[c].pc = "submit"
    BY DEF ExchangeEnds, CutShort
  <1> QED BY <1>1, AnswerKeeps

\* A turn that does not fail has every write admitted so far below its
\* watermark (FlushCurrent).
LEMMA FlushKeeps == ASSUME NEW c \in Calls PROVE LambdaInv /\ FlushCurrent(c) => LambdaInv'
PROOF
  <1> SUFFICES ASSUME LambdaInv, FlushCurrent(c) PROVE LambdaInv'
    OBVIOUS
  <1>1. /\ serving = c /\ call[c].pc = "complete"
        /\ UNCHANGED <<phase, previous, runner, serving, written, lambdaTime>>
    BY DEF FlushCurrent
  <1>2. /\ LambdaTyped /\ c \notin written /\ call[c].outcome \in {Nothing, "ambiguous"} /\ call[c].cmd # Nothing
        /\ ~phase.report /\ call[c].session <= runner.event /\ phase.kind # "stopped"
    BY <1>1, ServedIs
  <1>3. PICK failed \in BOOLEAN, items \in SUBSET (written \ landed) :
          /\ marked' = (IF failed THEN marked ELSE written)
          /\ Put(c, [call[c] EXCEPT !.pc = "report", !.summary = [failed |-> failed, items |-> items]])
    BY DEF FlushCurrent
  <1> DEFINE m == [failed |-> failed, items |-> items]
  <1> DEFINE r == [call[c] EXCEPT !.pc = "report", !.summary = m]
  <1>4. m \in Summaries /\ m.failed = failed
    BY <1>2 DEF Summaries, LambdaTyped
  <1>5. Put(c, r)
    BY <1>3
  <1> HIDE DEF m
  <1>6. /\ r \in CallRecords /\ r.pc = "report" /\ r.outcome = call[c].outcome /\ r.cmd = call[c].cmd
        /\ r.session = call[c].session /\ r.summary.failed = failed
    BY <1>2, <1>4 DEF LambdaTyped, CallRecords, Underway
  <1> HIDE DEF r
  <1>7. call'[c] = r
    BY <1>2, <1>5, <1>6, PutIs
  <1>8. ConnectionInStep'
    BY <1>1, <1>2, <1>3, <1>6, <1>7 DEF ConnectionInStep, Underway
  <1>9. marked' \subseteq written' /\ marked \subseteq marked' /\ written' \subseteq Calls
    BY <1>1, <1>2, <1>3 DEF LambdaTyped
  <1>10. serving' \in Calls \cup {NoCall} /\ r.outcome \notin {"admitted", "completed"}
    BY <1>1, <1>2, <1>6 DEF Nothing
  <1> QED BY <1>1, <1>2, <1>5, <1>6, <1>8, <1>9, <1>10, QuietCallKeeps

\* A report finds every acknowledged write below the watermark of its turn:
\* nothing was admitted since (ReportCurrent).
LEMMA ReportKeeps == ASSUME NEW c \in Calls PROVE LambdaInv /\ ReportCurrent(c) => LambdaInv'
PROOF
  <1> SUFFICES ASSUME LambdaInv, ReportCurrent(c) PROVE LambdaInv'
    OBVIOUS
  <1>1. /\ serving = c /\ call[c].pc = "report" /\ UNCHANGED <<previous, runner, written, marked, landed, lambdaTime>>
    BY DEF ReportCurrent
  <1>2. CASE Permission(call[c].session) = "refused"
    <2>1. Answer(c, "ambiguous") /\ UNCHANGED phase
      BY <1>2 DEF ReportCurrent
    <2> QED BY <1>1, <2>1, AnswerKeeps
  <1>3. CASE Permission(call[c].session) # "refused"
    <2> DEFINE m == call[c].summary
    <2>1. /\ LambdaTyped /\ c \notin written /\ call[c].outcome \in {Nothing, "ambiguous"} /\ ~phase.report
          /\ (~m.failed => marked = written) /\ RunnerInStep /\ ToldInStep /\ CompletedOnce
      BY <1>1, ServedIs DEF LambdaInv
    <2>2. phase.kind = "phase" /\ phase.attempt # Nothing /\ m \in Summaries
      BY <1>3, <2>1 DEF Permission, LambdaTyped, CallRecords
    <2>3. phase' = [phase EXCEPT !.report = TRUE, !.summary = m] /\ Complete(c, m)
      BY <1>3 DEF ReportCurrent
    <2> HIDE DEF m
    <2>4. /\ phase' \in Phases /\ phase'.kind = "phase" /\ phase'.event = phase.event /\ phase'.report
          /\ phase'.attempt = phase.attempt /\ phase'.expired = phase.expired /\ phase'.summary = m
      BY <2>1, <2>2, <2>3 DEF LambdaTyped, Phases
    <2>5. serving' = NoCall /\ ConnectionInStep'
      BY <2>1, <2>2, <2>3, CompleteIs
    <2>6. PICK r \in CallRecords :
            /\ Put(c, r) /\ r.pc = "gone" /\ r.outcome = (IF call[c].outcome = Nothing THEN "completed" ELSE call[c].outcome)
            /\ r.session = call[c].session /\ r.summary = m
      BY <2>1, <2>2, <2>3, CompleteIs
    <2>7. call' \in [Calls -> CallRecords] /\ call'[c] = r /\ \A x \in Calls \ {c} : call'[x] = call[x]
      BY <2>1, <2>6, PutIs
    <2>8. r.outcome \in {"completed", "ambiguous"}
      BY <2>1, <2>6
    <2>9. LambdaTyped'
      BY <1>1, <2>1, <2>4, <2>5, <2>7 DEF LambdaTyped
    <2>10. RunnerInStep'
      BY <1>1, <2>1, <2>2, <2>4, <2>6, <2>7 DEF RunnerInStep, IsTerminal
    <2>11. ToldInStep'
      BY <1>1, <2>1, <2>2, <2>4, <2>6, <2>7, <2>8 DEF ToldInStep, Underway
    <2>12. ReportCoversWrites'
      <3> SUFFICES ASSUME NEW x \in Calls, call'[x].outcome = "admitted", ~m.failed PROVE x \in marked'
        BY <2>4 DEF ReportCoversWrites
      <3> QED BY <1>1, <2>1, <2>11 DEF ToldInStep
    <2>13. CompletedOnce'
      BY <2>1, <2>2, <2>4, <2>6, <2>7 DEF CompletedOnce
    <2> QED BY <2>5, <2>9, <2>10, <2>11, <2>12, <2>13 DEF LambdaInv
  <1> QED BY <1>2, <1>3

\* A bind names the attempt of a phase that is open, and changes no finished
\* one (ServeBind).
LEMMA BindKeeps == ASSUME NEW c \in Calls PROVE LambdaInv /\ ServeBind(c) => LambdaInv'
PROOF
  <1> SUFFICES ASSUME LambdaInv, ServeBind(c) PROVE LambdaInv'
    OBVIOUS
  <1> DEFINE b == TryBind(call[c].request, call[c].attempt)
  <1>1. /\ serving = c /\ call[c].pc = "served" /\ b # "wait" /\ serving' = NoCall
        /\ UNCHANGED <<previous, runner, written, marked, landed, lambdaTime>>
    BY DEF ServeBind
  <1>2. CASE b = "refused"
    <2>1. Answer(c, "refused") /\ UNCHANGED phase
      BY <1>2 DEF ServeBind
    <2> QED BY <1>1, <2>1, AnswerKeeps
  <1>3. CASE b # "refused"
    <2>1. /\ LambdaTyped /\ c \notin written /\ call[c].outcome \in {Nothing, "ambiguous"}
          /\ RunnerInStep /\ ToldInStep /\ ReportCoversWrites /\ CompletedOnce
      BY <1>1, ServedIs DEF LambdaInv
    <2> DEFINE r == [call[c] EXCEPT !.pc = "gone", !.session = phase.event,
                                    !.outcome = IF @ = Nothing THEN "bound" ELSE @]
    <2>2. phase' = [phase EXCEPT !.attempt = call[c].attempt] /\ Put(c, r)
      BY <1>3 DEF ServeBind
    <2>3. /\ phase' \in Phases /\ phase'.kind = phase.kind /\ phase'.event = phase.event
          /\ phase'.report = phase.report /\ phase'.expired = phase.expired /\ phase'.attempt = call[c].attempt
          /\ phase'.summary = phase.summary
      BY <2>1, <2>2 DEF LambdaTyped, Phases, CallRecords
    <2>4. phase.attempt = call[c].attempt \/ (~IsTerminal(phase) /\ phase.attempt = Nothing /\ call[c].attempt # Nothing)
      <3>1. phase.kind \in {"idle", "phase", "stopped"}
        BY <2>1 DEF LambdaTyped, Phases
      <3> QED BY <1>1, <1>3, <3>1 DEF TryBind
    <2>5. r \in CallRecords /\ r.pc = "gone" /\ r.outcome \in {"bound", "ambiguous"} /\ r.session = phase.event
      BY <2>1, ZenonT(60) DEF LambdaTyped, CallRecords, Phases
    <2> HIDE DEF r, b
    <2>6. call' \in [Calls -> CallRecords] /\ call'[c] = r /\ \A x \in Calls \ {c} : call'[x] = call[x]
      BY <2>1, <2>2, <2>5, PutIs
    <2>7. ConnectionInStep'
      BY <1>1, LambdaAssumption DEF ConnectionInStep, NoCall
    <2>8. LambdaTyped'
      BY <1>1, <2>1, <2>3, <2>6 DEF LambdaTyped
    <2>9. RunnerInStep'
      BY <1>1, <2>1, <2>3, <2>4, <2>5, <2>6 DEF RunnerInStep, IsTerminal
    <2>10. ToldInStep'
      BY <1>1, <2>1, <2>3, <2>5, <2>6 DEF ToldInStep, Underway
    <2>11. ReportCoversWrites'
      BY <1>1, <2>1, <2>3, <2>5, <2>6 DEF ReportCoversWrites
    <2>12. CompletedOnce'
      BY <1>1, <2>1, <2>3, <2>5, <2>6 DEF CompletedOnce
    <2> QED BY <2>7, <2>8, <2>9, <2>10, <2>11, <2>12 DEF LambdaInv
  <1> QED BY <1>2, <1>3

\* Every step of the runner, the handlers and the server keeps the invariant.
LEMMA LambdaStep == LambdaInv /\ [LambdaNext]_lambdaVars => LambdaInv'
PROOF
  <1> SUFFICES ASSUME LambdaInv, [LambdaNext]_lambdaVars PROVE LambdaInv'
    OBVIOUS
  <1>1. CASE UNCHANGED lambdaVars
    BY <1>1 DEF lambdaVars, LambdaInv, LambdaTyped, RunnerInStep, ConnectionInStep, ToldInStep, ReportCoversWrites, CompletedOnce
  <1>2. CASE InvokeEvent \/ AwaitCompletion \/ Expire \/ ShutdownEvent \/ LambdaTick
    BY <1>2, InvokeKeeps, AwaitKeeps, ExpireKeeps, ShutdownKeeps, LambdaTickKeeps
  <1>3. CASE \E c \in Calls : Connect(c) \/ GiveUpCall(c) \/ Accept(c) \/ ServeBind(c) \/ ApplyCommand(c)
                                \/ AdmitCurrent(c) \/ FlushCurrent(c) \/ ReportCurrent(c) \/ ExchangeEnds(c)
    BY <1>3, ConnectKeeps, GiveUpKeeps, AcceptKeeps, BindKeeps, ApplyKeeps, AdmitKeeps, FlushKeeps, ReportKeeps,
       ExchangeEndsKeeps
  <1> QED BY <1>1, <1>2, <1>3 DEF LambdaNext

\* What the runner and the handlers are told holds for any number of events,
\* attempts and calls: the runner never meets a phase it left unfinished, a
\* write told as refused was not admitted, a phase reported without an error
\* took its watermark above every write it acknowledged, and is completed once
\* (run_events, into_write_error, complete_current, Phase::permission).
THEOREM ToldIsSo == LambdaSpec => []InvocationsTruthful
PROOF
  <1>1. LambdaInv => InvocationsTruthful
    <2> SUFFICES ASSUME LambdaInv PROVE InvocationsTruthful
      OBVIOUS
    <2>1. RunnerKeepsGoing
      BY DEF LambdaInv, LambdaTyped, RunnerKeepsGoing
    <2>2. RefusedMeansAbsent
      BY DEF LambdaInv, ToldInStep, RefusedMeansAbsent, Underway, Nothing
    <2> QED BY <2>1, <2>2 DEF LambdaInv, InvocationsTruthful
  <1> QED BY <1>1, LambdaStarts, LambdaStep, PTL DEF LambdaSpec

-----------------------------------------------------------------------------
(* Request costs                                                           *)

CostSpec == CostInit /\ [][CostNext]_costVars

Collectors ==
  [open : BOOLEAN, finalized : BOOLEAN, work : Int, db : Int, calls : Int, waves : Int, widest : Int,
   breakdown : SUBSET CostTasks, costs : SUBSET (CostTasks \cup {"rows"}), updated : Int, wall : Int]
Futures ==
  [st : {"unborn", "spawned", "running", "ended"}, of : CostRequests \cup {NoRequest}, work : BOOLEAN,
   early : BOOLEAN, db : BOOLEAN]
Finishings == [pc : {"new", "serving", "checking", "asleep", "polling", "over"}, until : Nat]

CostTyped ==
  /\ costTime \in Nat /\ collector \in [CostRequests -> Collectors] /\ registered \subseteq CostRequests
  /\ costTask \in [CostTasks -> Futures] /\ finishing \in [CostRequests -> Finishings] /\ DOMAIN costResult = CostRequests

\* The futures whose work the collector still waits for.
Outstanding(r) == {t \in CostTasks : costTask[t].of = r /\ costTask[t].st \in {"spawned", "running"}}

\* A future inherits a collector exactly when it reserved work with it.
FuturesReserve ==
  \A t \in CostTasks :
    /\ costTask[t].of # NoRequest => costTask[t].work /\ costTask[t].st # "unborn"
    /\ costTask[t].work \/ costTask[t].db => costTask[t].of # NoRequest

\* The collector counts the work that is outstanding (begin_work, finish_work).
WorkCounted == \A r \in CostRequests : collector[r].work = Cardinality(Outstanding(r))

\* A settled request is closed: no future of it runs, nobody finds it by its
\* identifier, and its snapshot is what the collector holds.
SettledClosed ==
  \A r \in CostRequests :
    costResult[r].kind = "settled" =>
      /\ finishing[r].pc = "over" /\ r \notin registered /\ collector[r].finalized
      /\ \A t \in CostTasks : costTask[t].of = r => costTask[t].st = "ended"
      /\ costResult[r].snapshot.costs = collector[r].costs /\ costResult[r].snapshot.calls = collector[r].calls
      /\ costResult[r].headers # NoResult => costResult[r].headers.calls = costResult[r].snapshot.calls

CostInv == CostTyped /\ FuturesReserve /\ WorkCounted /\ SettledClosed

\* The collectors start without work and nothing is settled.
LEMMA CostStarts == CostInit => CostInv
PROOF
  <1> SUFFICES ASSUME CostInit PROVE CostInv
    OBVIOUS
  <1>1. EmptyCollector \in Collectors /\ EmptyCollector.work = 0
    BY DEF EmptyCollector, Collectors
  <1>2. CostTyped
    BY <1>1 DEF CostInit, CostTyped, Futures, Finishings
  <1>3. FuturesReserve
    BY DEF CostInit, FuturesReserve
  <1>4. WorkCounted
    <2> SUFFICES ASSUME NEW r \in CostRequests PROVE collector[r].work = Cardinality(Outstanding(r))
      BY DEF WorkCounted
    <2>1. Outstanding(r) = {}
      BY DEF CostInit, Outstanding
    <2> QED BY <1>1, <2>1, FS_EmptySet DEF CostInit
  <1>5. SettledClosed
    BY DEF CostInit, SettledClosed, NoResult
  <1> QED BY <1>2, <1>3, <1>4, <1>5 DEF CostInv

\* A step that moves no future in or out of its work, adds to no closed
\* collector and returns nothing keeps the invariant.
LEMMA QuietCostStep ==
  ASSUME CostInv, CostTyped', UNCHANGED costResult,
         \A t \in CostTasks :
           /\ costTask'[t].of = costTask[t].of /\ costTask'[t].work = costTask[t].work
           /\ costTask'[t].db => costTask[t].of # NoRequest
           /\ costTask[t].st = "unborn" <=> costTask'[t].st = "unborn"
           /\ costTask[t].st = "ended" <=> costTask'[t].st = "ended",
         \A r \in CostRequests :
           /\ collector'[r].work = collector[r].work
           /\ costResult[r].kind = "settled" =>
                /\ finishing'[r].pc = "over" /\ r \notin registered' /\ collector'[r].finalized
                /\ collector'[r].costs = collector[r].costs /\ collector'[r].calls = collector[r].calls
  PROVE  CostInv'
PROOF
  <1>1. CostTyped /\ FuturesReserve /\ WorkCounted /\ SettledClosed
    BY DEF CostInv
  <1>2. FuturesReserve'
    BY <1>1 DEF FuturesReserve
  <1>3. WorkCounted'
    <2> SUFFICES ASSUME NEW r \in CostRequests PROVE collector'[r].work = Cardinality(Outstanding(r)')
      BY DEF WorkCounted
    <2>1. \A t \in CostTasks : costTask[t].st \in {"spawned", "running"} <=> costTask'[t].st \in {"spawned", "running"}
      BY <1>1 DEF CostTyped, Futures
    <2>2. Outstanding(r)' = Outstanding(r)
      BY <2>1 DEF Outstanding
    <2> QED BY <1>1, <2>2 DEF WorkCounted
  <1>4. SettledClosed'
    BY <1>1 DEF SettledClosed
  <1> QED BY <1>2, <1>3, <1>4 DEF CostInv

\* One collector is replaced, the others stay.
LEMMA CollectorIs ==
  ASSUME CostTyped, NEW r \in CostRequests, NEW k \in Collectors, collector' = [collector EXCEPT ![r] = k]
  PROVE  collector' \in [CostRequests -> Collectors] /\ collector'[r] = k /\ \A x \in CostRequests \ {r} : collector'[x] = collector[x]
PROOF BY DEF CostTyped

\* A request begins to collect, registered or not (begin_request_cost_collection).
LEMMA BeginCollectionKeeps == ASSUME NEW r \in CostRequests PROVE CostInv /\ BeginCollection(r) => CostInv'
PROOF
  <1> SUFFICES ASSUME CostInv, BeginCollection(r) PROVE CostInv'
    OBVIOUS
  <1>1. CostTyped /\ SettledClosed /\ FuturesReserve
    BY DEF CostInv
  <1> DEFINE k == [collector[r] EXCEPT !.open = TRUE]
  <1>2. collector' = [collector EXCEPT ![r] = k] /\ UNCHANGED <<costTime, costTask, costResult>> /\ finishing[r].pc = "new"
    BY <1>1 DEF BeginCollection, CostUnchanged, CostTyped
  <1>3. k \in Collectors /\ k.work = collector[r].work
    BY <1>1, ZenonT(60) DEF CostTyped, Collectors
  <1> HIDE DEF k
  <1>4. collector' \in [CostRequests -> Collectors] /\ collector'[r] = k /\ \A x \in CostRequests \ {r} : collector'[x] = collector[x]
    BY <1>1, <1>2, <1>3, CollectorIs
  <1>5. finishing' \in [CostRequests -> Finishings] /\ \A x \in CostRequests \ {r} : finishing'[x] = finishing[x]
    BY <1>1 DEF BeginCollection, CostTyped, Finishings
  <1>6. registered' \subseteq registered \cup {r}
    BY DEF BeginCollection, LiveRegistry
  <1>7. CostTyped'
    BY <1>1, <1>2, <1>4, <1>5, <1>6 DEF CostTyped
  <1>8. costResult[r].kind # "settled"
    BY <1>1, <1>2 DEF SettledClosed
  <1> QED BY <1>1, <1>2, <1>3, <1>4, <1>5, <1>6, <1>7, <1>8, QuietCostStep DEF FuturesReserve, SettledClosed

\* A request that is still open updates its collector: what is added there is
\* added before it is closed.
LEMMA OpenUpdateKeeps ==
  ASSUME CostInv, NEW r \in CostRequests, NEW k \in Collectors, k.work = collector[r].work, Update(r, k),
         costResult[r].kind # "settled" \/ (k.costs = collector[r].costs /\ k.calls = collector[r].calls /\ k.finalized),
         UNCHANGED <<costTime, costResult>>, registered' \subseteq registered,
         finishing' \in [CostRequests -> Finishings],
         \A x \in CostRequests : finishing[x].pc = "over" => finishing'[x].pc = "over",
         costTask' \in [CostTasks -> Futures],
         \A t \in CostTasks :
           /\ costTask'[t].of = costTask[t].of /\ costTask'[t].work = costTask[t].work /\ costTask'[t].st = costTask[t].st
           /\ costTask'[t].db => costTask[t].of # NoRequest
  PROVE  CostInv'
PROOF
  <1>1. CostTyped /\ SettledClosed
    BY DEF CostInv
  <1>2. Touched(k) \in Collectors /\ Touched(k).work = k.work /\ Touched(k).costs = k.costs /\ Touched(k).calls = k.calls
        /\ Touched(k).finalized = k.finalized
    BY <1>1 DEF Touched, Collectors, CostTyped
  <1>3. /\ collector' \in [CostRequests -> Collectors] /\ collector'[r] = Touched(k)
        /\ \A x \in CostRequests \ {r} : collector'[x] = collector[x]
    BY <1>1, <1>2, CollectorIs DEF Update
  <1>4. CostTyped'
    BY <1>1, <1>3 DEF CostTyped
  <1>5. \A x \in CostRequests :
           /\ collector'[x].work = collector[x].work
           /\ costResult[x].kind = "settled" =>
                /\ finishing'[x].pc = "over" /\ x \notin registered' /\ collector'[x].finalized
                /\ collector'[x].costs = collector[x].costs /\ collector'[x].calls = collector[x].calls
    BY <1>1, <1>2, <1>3 DEF SettledClosed
  <1> QED BY <1>4, <1>5, QuietCostStep

\* A future that runs belongs to a request that is not settled.
LEMMA RunningIsOpen ==
  ASSUME CostInv, NEW t \in CostTasks, costTask[t].st = "running", costTask[t].of # NoRequest
  PROVE  costTask[t].of \in CostRequests /\ costResult[costTask[t].of].kind # "settled"
PROOF BY DEF CostInv, CostTyped, Futures, SettledClosed

\* A database call of a future (begin_database_call).
LEMMA BeginCallKeeps == ASSUME NEW t \in CostTasks PROVE CostInv /\ BeginCall(t) => CostInv'
PROOF
  <1> SUFFICES ASSUME CostInv, BeginCall(t) PROVE CostInv'
    OBVIOUS
  <1>1. CostTyped /\ FuturesReserve
    BY DEF CostInv
  <1> DEFINE r == costTask[t].of
             c == collector[r]
             k == [c EXCEPT !.calls = @ + 1, !.waves = IF c.db = 0 THEN @ + 1 ELSE @, !.db = @ + 1,
                            !.widest = IF c.db + 1 > @ THEN c.db + 1 ELSE @,
                            !.breakdown = IF Cardinality(@) < MaxBreakdown THEN @ \cup {t} ELSE @]
  <1>2. /\ costTask[t].st = "running" /\ r # NoRequest /\ Update(r, k) /\ costTask' = [costTask EXCEPT ![t].db = TRUE]
        /\ UNCHANGED <<costTime, registered, finishing, costResult>>
    BY DEF BeginCall, CostUnchanged
  <1>3. r \in CostRequests /\ costResult[r].kind # "settled"
    BY <1>2, RunningIsOpen
  <1>4. k \in Collectors /\ k.work = c.work
    <2>1. c \in Collectors
      BY <1>1, <1>3 DEF CostTyped
    <2> DEFINE waves == IF c.db = 0 THEN c.waves + 1 ELSE c.waves
               widest == IF c.db + 1 > c.widest THEN c.db + 1 ELSE c.widest
               breakdown == IF Cardinality(c.breakdown) < MaxBreakdown THEN c.breakdown \cup {t} ELSE c.breakdown
    <2>2. waves \in Int /\ widest \in Int /\ c.calls + 1 \in Int /\ c.db + 1 \in Int
      BY <2>1 DEF Collectors
    <2>3. breakdown \in SUBSET CostTasks
      BY <2>1 DEF Collectors
    <2>4. k = [c EXCEPT !.calls = c.calls + 1, !.waves = waves, !.db = c.db + 1, !.widest = widest, !.breakdown = breakdown]
      BY <2>1 DEF Collectors
    <2> HIDE DEF c, k, waves, widest, breakdown
    <2> QED BY <2>1, <2>2, <2>3, <2>4 DEF Collectors
  <1>5. costTask' \in [CostTasks -> Futures]
    BY <1>1, <1>2, ZenonT(60) DEF CostTyped, Futures
  <1>6. \A x \in CostTasks :
           /\ costTask'[x].of = costTask[x].of /\ costTask'[x].work = costTask[x].work /\ costTask'[x].st = costTask[x].st
           /\ costTask'[x].db => costTask[x].of # NoRequest
    BY <1>1, <1>2 DEF CostTyped, Futures, FuturesReserve
  <1> HIDE DEF k, r
  <1> QED BY <1>1, <1>2, <1>3, <1>4, <1>5, <1>6, OpenUpdateKeeps DEF CostTyped

\* What is recorded for a future (record_counter and its like).
LEMMA RecordCostKeeps == ASSUME NEW t \in CostTasks PROVE CostInv /\ RecordCost(t) => CostInv'
PROOF
  <1> SUFFICES ASSUME CostInv, RecordCost(t) PROVE CostInv'
    OBVIOUS
  <1>1. CostTyped /\ FuturesReserve
    BY DEF CostInv
  <1> DEFINE r == costTask[t].of
             k == [collector[r] EXCEPT !.costs = @ \cup {t}]
  <1>2. /\ costTask[t].st = "running" /\ r # NoRequest /\ Update(r, k)
        /\ UNCHANGED <<costTime, registered, costTask, finishing, costResult>>
    BY DEF RecordCost, CostUnchanged
  <1>3. r \in CostRequests /\ costResult[r].kind # "settled"
    BY <1>2, RunningIsOpen
  <1>4. k \in Collectors /\ k.work = collector[r].work
    BY <1>1, <1>3 DEF CostTyped, Collectors
  <1> HIDE DEF k, r
  <1> QED BY <1>1, <1>2, <1>3, <1>4, OpenUpdateKeeps DEF CostTyped, FuturesReserve

\* A call that ends leaves the totals alone (the call's guard).
LEMMA EndCallKeeps == ASSUME NEW t \in CostTasks PROVE CostInv /\ EndCall(t) => CostInv'
PROOF
  <1> SUFFICES ASSUME CostInv, EndCall(t) PROVE CostInv'
    OBVIOUS
  <1>1. CostTyped /\ FuturesReserve /\ SettledClosed
    BY DEF CostInv
  <1> DEFINE r == costTask[t].of
             k == [collector[r] EXCEPT !.db = @ - 1]
  <1>2. /\ costTask[t].db /\ Update(r, k) /\ WakeWaiter(r) /\ costTask' = [costTask EXCEPT ![t].db = FALSE]
        /\ UNCHANGED <<costTime, registered, costResult>>
    BY DEF EndCall, CostUnchanged
  <1>3. r \in CostRequests
    BY <1>1, <1>2 DEF FuturesReserve, CostTyped, Futures
  <1>4. /\ k \in Collectors /\ k.work = collector[r].work /\ k.costs = collector[r].costs /\ k.calls = collector[r].calls
        /\ k.finalized = collector[r].finalized
    BY <1>1, <1>3 DEF CostTyped, Collectors
  <1>5. costTask' \in [CostTasks -> Futures]
    BY <1>1, <1>2, ZenonT(60) DEF CostTyped, Futures
  <1>6. \A x \in CostTasks :
           /\ costTask'[x].of = costTask[x].of /\ costTask'[x].work = costTask[x].work /\ costTask'[x].st = costTask[x].st
           /\ costTask'[x].db => costTask[x].of # NoRequest
    BY <1>1, <1>2 DEF CostTyped, Futures, FuturesReserve
  <1>7. /\ finishing' \in [CostRequests -> Finishings]
        /\ \A x \in CostRequests : finishing[x].pc = "over" => finishing'[x].pc = "over"
    BY <1>1, <1>2, ZenonT(60) DEF WakeWaiter, CostTyped, Finishings
  <1>8. costResult[r].kind = "settled" => k.finalized
    BY <1>1, <1>3, <1>4 DEF SettledClosed
  <1> HIDE DEF k, r
  <1> QED BY <1>1, <1>2, <1>3, <1>4, <1>5, <1>6, <1>7, <1>8, OpenUpdateKeeps

\* What is recorded by identifier goes to a registered request, which is not
\* settled (record_analytics_request_cost_by_request_id).
LEMMA RecordByIdKeeps == ASSUME NEW id PROVE CostInv /\ RecordById(id) => CostInv'
PROOF
  <1> SUFFICES ASSUME CostInv, RecordById(id) PROVE CostInv'
    OBVIOUS
  <1>1. CostTyped /\ FuturesReserve /\ SettledClosed
    BY DEF CostInv
  <1>2. PICK r \in Matching(id) : Update(r, [collector[r] EXCEPT !.costs = @ \cup {"rows"}])
    BY DEF RecordById
  <1> DEFINE k == [collector[r] EXCEPT !.costs = @ \cup {"rows"}]
  <1>3. r \in CostRequests /\ costResult[r].kind # "settled"
    BY <1>1 DEF Matching, LiveRegistry, SettledClosed, CostTyped
  <1>4. k \in Collectors /\ k.work = collector[r].work
    BY <1>1, <1>3 DEF CostTyped, Collectors
  <1>5. UNCHANGED <<costTime, costTask, finishing, costResult>> /\ registered' \subseteq registered /\ Update(r, k)
    BY <1>2 DEF RecordById, CostUnchanged, LiveRegistry
  <1> HIDE DEF k
  <1> QED BY <1>1, <1>3, <1>4, <1>5, OpenUpdateKeeps DEF CostTyped, FuturesReserve

\* The request takes its wall time and begins to settle (prepare_request_cost_snapshot).
LEMMA PrepareKeeps == ASSUME NEW r \in CostRequests PROVE CostInv /\ PrepareSnapshot(r) => CostInv'
PROOF
  <1> SUFFICES ASSUME CostInv, PrepareSnapshot(r) PROVE CostInv'
    OBVIOUS
  <1>1. CostTyped /\ FuturesReserve /\ SettledClosed
    BY DEF CostInv
  <1>2. PICK wall \in {-1, 1} : Update(r, [collector[r] EXCEPT !.wall = wall])
    BY DEF PrepareSnapshot
  <1> DEFINE k == [collector[r] EXCEPT !.wall = wall]
  <1>3. costResult[r].kind # "settled" /\ finishing[r].pc # "over"
    BY <1>1 DEF PrepareSnapshot, SettledClosed
  <1>4. k \in Collectors /\ k.work = collector[r].work
    BY <1>1 DEF CostTyped, Collectors
  <1>5. UNCHANGED <<costTime, registered, costTask, costResult>> /\ Update(r, k)
    BY <1>2 DEF PrepareSnapshot, CostUnchanged
  <1>6. /\ finishing' \in [CostRequests -> Finishings]
        /\ \A x \in CostRequests : finishing[x].pc = "over" => finishing'[x].pc = "over"
    <2>1. PICK pc \in {"checking", "polling"} : finishing' = [finishing EXCEPT ![r] = [pc |-> pc, until |-> costTime + SettleLimit]]
      BY DEF PrepareSnapshot
    <2>2. costTime + SettleLimit \in Nat
      BY <1>1, CostAssumption DEF CostTyped
    <2> QED BY <1>1, <1>3, <2>1, <2>2 DEF CostTyped, Finishings
  <1> HIDE DEF k
  <1> QED BY <1>1, <1>3, <1>4, <1>5, <1>6, OpenUpdateKeeps DEF CostTyped, FuturesReserve

\* A future is made: it reserves work, unless the collector is closed (inherit_request_cost).
LEMMA SpawnKeeps ==
  ASSUME NEW t \in CostTasks, NEW r \in CostRequests PROVE CostInv /\ SpawnTask(t, r) => CostInv'
PROOF
  <1> SUFFICES ASSUME CostInv, SpawnTask(t, r) PROVE CostInv'
    OBVIOUS
  <1>1. CostTyped /\ FuturesReserve /\ WorkCounted /\ SettledClosed
    BY DEF CostInv
  <1> DEFINE f == [st |-> "spawned", of |-> IF collector[r].finalized THEN NoRequest ELSE r,
                   work |-> Reserve(r), early |-> ~collector[r].finalized, db |-> FALSE]
             k == [collector[r] EXCEPT !.work = @ + (IF Reserve(r) THEN 1 ELSE 0)]
  <1>2. /\ costTask[t].st = "unborn" /\ costTask' = [costTask EXCEPT ![t] = f] /\ collector' = [collector EXCEPT ![r] = k]
        /\ UNCHANGED <<costTime, registered, finishing, costResult>>
    BY <1>1 DEF SpawnTask, CostUnchanged, CostTyped
  <1>3. collector[r] \in Collectors
    BY <1>1 DEF CostTyped
  <1>4. /\ k \in Collectors /\ k.costs = collector[r].costs /\ k.calls = collector[r].calls
        /\ k.finalized = collector[r].finalized
        /\ k.work = IF collector[r].finalized THEN collector[r].work ELSE collector[r].work + 1
    BY <1>3 DEF Collectors, Reserve
  <1>5. /\ f \in Futures /\ f.st = "spawned" /\ ~f.db /\ f.work = ~collector[r].finalized
        /\ f.of = IF collector[r].finalized THEN NoRequest ELSE r
    BY <1>3 DEF Futures, Reserve, Collectors
  <1> HIDE DEF f, k
  <1>6. collector' \in [CostRequests -> Collectors] /\ collector'[r] = k /\ \A x \in CostRequests \ {r} : collector'[x] = collector[x]
    BY <1>1, <1>2, <1>4, CollectorIs
  <1>7. costTask' \in [CostTasks -> Futures] /\ costTask'[t] = f /\ \A x \in CostTasks \ {t} : costTask'[x] = costTask[x]
    BY <1>1, <1>2, <1>5 DEF CostTyped
  <1>8. NoRequest \notin CostRequests /\ costTask[t].of = NoRequest
    BY <1>1, <1>2, CostAssumption DEF NoRequest, FuturesReserve
  <1>9. CostTyped'
    BY <1>1, <1>2, <1>6, <1>7 DEF CostTyped
  <1>10. FuturesReserve'
    BY <1>1, <1>5, <1>7, <1>8 DEF FuturesReserve
  <1>11. WorkCounted'
    <2> SUFFICES ASSUME NEW x \in CostRequests PROVE collector'[x].work = Cardinality(Outstanding(x)')
      BY DEF WorkCounted
    <2>1. CASE x = r /\ ~collector[r].finalized
      <3>1. Outstanding(r)' = Outstanding(r) \cup {t}
        BY <1>5, <1>7, <2>1 DEF Outstanding
      <3>2. t \notin Outstanding(r)
        BY <1>2 DEF Outstanding
      <3>3. IsFiniteSet(Outstanding(r))
        BY CostAssumption, FS_Subset DEF Outstanding
      <3>4. Cardinality(Outstanding(r)') = Cardinality(Outstanding(r)) + 1
        BY <3>1, <3>2, <3>3, FS_AddElement
      <3>5. collector[r].work = Cardinality(Outstanding(r))
        BY <1>1 DEF WorkCounted
      <3> QED BY <1>4, <1>6, <2>1, <3>4, <3>5
    <2>2. CASE ~(x = r /\ ~collector[r].finalized)
      <3>1. f.of # x
        BY <1>5, <1>8, <2>2
      <3>2. Outstanding(x)' = Outstanding(x)
        BY <1>7, <1>8, <3>1 DEF Outstanding
      <3>3. collector'[x].work = collector[x].work
        BY <1>4, <1>6, <2>2
      <3> QED BY <1>1, <3>2, <3>3 DEF WorkCounted
    <2> QED BY <2>1, <2>2
  <1>12. SettledClosed'
    <2> SUFFICES ASSUME NEW x \in CostRequests, costResult[x].kind = "settled"
                 PROVE  /\ collector'[x].finalized /\ \A u \in CostTasks : costTask'[u].of = x => costTask'[u].st = "ended"
                        /\ collector'[x].costs = collector[x].costs /\ collector'[x].calls = collector[x].calls
      BY <1>1, <1>2 DEF SettledClosed
    <2>1. collector[x].finalized /\ \A u \in CostTasks : costTask[u].of = x => costTask[u].st = "ended"
      BY <1>1 DEF SettledClosed
    <2>2. f.of # x
      BY <1>5, <1>8, <2>1
    <2> QED BY <1>4, <1>6, <1>7, <2>1, <2>2
  <1> QED BY <1>9, <1>10, <1>11, <1>12 DEF CostInv

\* A future that is polled stays outstanding (PollTask).
LEMMA PollTaskKeeps == ASSUME NEW t \in CostTasks PROVE CostInv /\ PollTask(t) => CostInv'
PROOF
  <1> SUFFICES ASSUME CostInv, PollTask(t) PROVE CostInv'
    OBVIOUS
  <1>1. CostTyped /\ FuturesReserve /\ SettledClosed
    BY DEF CostInv
  <1>2. /\ costTask[t].st = "spawned" /\ costTask' = [costTask EXCEPT ![t].st = "running"]
        /\ UNCHANGED <<costTime, collector, registered, finishing, costResult>>
    BY DEF PollTask, CostUnchanged
  <1>3. costTask' \in [CostTasks -> Futures]
    BY <1>1, <1>2 DEF CostTyped, Futures
  <1>4. \A x \in CostTasks :
           /\ costTask'[x].of = costTask[x].of /\ costTask'[x].work = costTask[x].work
           /\ costTask'[x].db => costTask[x].of # NoRequest
           /\ costTask[x].st = "unborn" <=> costTask'[x].st = "unborn"
           /\ costTask[x].st = "ended" <=> costTask'[x].st = "ended"
    BY <1>1, <1>2 DEF CostTyped, Futures, FuturesReserve
  <1>5. CostTyped'
    BY <1>1, <1>2, <1>3 DEF CostTyped
  <1> QED BY <1>1, <1>2, <1>4, <1>5, QuietCostStep DEF SettledClosed

\* A future that ends, polled or not, gives back what it reserved (finish_work).
LEMMA EndTaskKeeps == ASSUME NEW t \in CostTasks PROVE CostInv /\ EndTask(t) => CostInv'
PROOF
  <1> SUFFICES ASSUME CostInv, EndTask(t) PROVE CostInv'
    OBVIOUS
  <1>1. CostTyped /\ FuturesReserve /\ WorkCounted /\ SettledClosed
    BY DEF CostInv
  <1>2. /\ costTask[t].st \in {"spawned", "running"} /\ costTask' = [costTask EXCEPT ![t].st = "ended"]
        /\ UNCHANGED <<costTime, registered, costResult>>
    BY DEF EndTask, CostUnchanged
  <1>3. /\ costTask' \in [CostTasks -> Futures] /\ costTask'[t].st = "ended" /\ costTask'[t].of = costTask[t].of
        /\ costTask'[t].work = costTask[t].work /\ costTask'[t].db = costTask[t].db
        /\ \A x \in CostTasks \ {t} : costTask'[x] = costTask[x]
    BY <1>1, <1>2 DEF CostTyped, Futures
  <1>4. FuturesReserve'
    BY <1>1, <1>3 DEF FuturesReserve
  <1>5. NoRequest \notin CostRequests
    BY CostAssumption DEF NoRequest
  <1>6. CASE ~costTask[t].work
    <2>1. costTask[t].of = NoRequest
      BY <1>1, <1>6 DEF FuturesReserve
    <2>2. UNCHANGED <<collector, finishing>>
      BY <1>6 DEF EndTask
    <2>3. CostTyped'
      BY <1>1, <1>2, <1>3, <2>2 DEF CostTyped
    <2>4. WorkCounted'
      <3> SUFFICES ASSUME NEW x \in CostRequests PROVE collector'[x].work = Cardinality(Outstanding(x)')
        BY DEF WorkCounted
      <3>1. Outstanding(x)' = Outstanding(x)
        BY <1>3, <1>5, <2>1 DEF Outstanding
      <3> QED BY <1>1, <2>2, <3>1 DEF WorkCounted
    <2>5. SettledClosed'
      BY <1>1, <1>2, <1>3, <2>2 DEF SettledClosed
    <2> QED BY <1>4, <2>3, <2>4, <2>5 DEF CostInv
  <1>7. CASE costTask[t].work
    <2> DEFINE r == costTask[t].of
               k == [collector[r] EXCEPT !.work = @ - 1]
    <2>1. r \in CostRequests
      BY <1>1, <1>7 DEF FuturesReserve, CostTyped, Futures
    <2>2. collector' = [collector EXCEPT ![r] = k] /\ WakeWaiter(r)
      BY <1>1, <1>7, <2>1 DEF EndTask, CostTyped
    <2>3. /\ k \in Collectors /\ k.costs = collector[r].costs /\ k.calls = collector[r].calls
          /\ k.finalized = collector[r].finalized /\ k.work = collector[r].work - 1
      BY <1>1, <2>1 DEF Collectors, CostTyped
    <2> HIDE DEF k
    <2>4. /\ collector' \in [CostRequests -> Collectors] /\ collector'[r] = k
          /\ \A x \in CostRequests \ {r} : collector'[x] = collector[x]
      BY <1>1, <2>1, <2>2, <2>3, CollectorIs
    <2>5. /\ finishing' \in [CostRequests -> Finishings]
          /\ \A x \in CostRequests : finishing[x].pc = "over" => finishing'[x].pc = "over"
      BY <1>1, <2>2, ZenonT(60) DEF WakeWaiter, CostTyped, Finishings
    <2>6. CostTyped'
      BY <1>1, <1>2, <1>3, <2>4, <2>5 DEF CostTyped
    <2>7. WorkCounted'
      <3> SUFFICES ASSUME NEW x \in CostRequests PROVE collector'[x].work = Cardinality(Outstanding(x)')
        BY DEF WorkCounted
      <3>1. CASE x = r
        <4>1. Outstanding(x)' = Outstanding(x) \ {t} /\ t \in Outstanding(x)
          BY <1>2, <1>3, <3>1 DEF Outstanding
        <4>2. IsFiniteSet(Outstanding(x))
          BY CostAssumption, FS_Subset DEF Outstanding
        <4>3. Cardinality(Outstanding(x)') = Cardinality(Outstanding(x)) - 1
          BY <4>1, <4>2, FS_RemoveElement
        <4>4. collector[x].work = Cardinality(Outstanding(x))
          BY <1>1 DEF WorkCounted
        <4> QED BY <2>3, <2>4, <3>1, <4>3, <4>4
      <3>2. CASE x # r
        <4>1. Outstanding(x)' = Outstanding(x)
          BY <1>3, <3>2 DEF Outstanding
        <4> QED BY <1>1, <2>4, <3>2, <4>1 DEF WorkCounted
      <3> QED BY <3>1, <3>2
    <2>8. SettledClosed'
      <3> SUFFICES ASSUME NEW x \in CostRequests, costResult[x].kind = "settled"
                   PROVE  /\ finishing'[x].pc = "over" /\ collector'[x].finalized
                          /\ \A u \in CostTasks : costTask'[u].of = x => costTask'[u].st = "ended"
                          /\ collector'[x].costs = collector[x].costs /\ collector'[x].calls = collector[x].calls
        BY <1>1, <1>2 DEF SettledClosed
      <3>1. /\ finishing[x].pc = "over" /\ collector[x].finalized
            /\ \A u \in CostTasks : costTask[u].of = x => costTask[u].st = "ended"
        BY <1>1 DEF SettledClosed
      <3> QED BY <1>3, <2>3, <2>4, <2>5, <3>1
    <2> QED BY <1>4, <2>6, <2>7, <2>8 DEF CostInv
  <1> QED BY <1>6, <1>7

\* A request is closed: only when no work is outstanding may its snapshot
\* count as settled (finish_request_cost_snapshot).
LEMMA FinishKeeps ==
  ASSUME CostInv, NEW r \in CostRequests, NEW kind, FinishWith(r, kind), finishing[r].pc # "over",
         kind = "settled" => collector[r].work = 0
  PROVE  CostInv'
PROOF
  <1>1. CostTyped /\ FuturesReserve /\ WorkCounted /\ SettledClosed
    BY DEF CostInv
  <1> DEFINE k == [collector[r] EXCEPT !.finalized = TRUE]
             s == SnapshotOf(collector[r])
             h == ThroughHeaders(s)
  <1>2. /\ collector' = [collector EXCEPT ![r] = k] /\ registered' = registered \ {r}
        /\ costResult' = [costResult EXCEPT ![r] = [kind |-> kind, snapshot |-> s, headers |-> h]]
        /\ finishing' = [finishing EXCEPT ![r].pc = "over"] /\ UNCHANGED <<costTime, costTask>>
    BY <1>1 DEF FinishWith, CostUnchanged, CostTyped
  <1>3. /\ k \in Collectors /\ k.costs = collector[r].costs /\ k.calls = collector[r].calls /\ k.finalized
        /\ k.work = collector[r].work
    BY <1>1, ZenonT(60) DEF Collectors, CostTyped
  <1>4. s.costs = collector[r].costs /\ s.calls = collector[r].calls
    BY DEF SnapshotOf
  <1>5. h # NoResult => h.calls = s.calls
    BY DEF SnapshotOf, ThroughHeaders
  <1> HIDE DEF k, s, h
  <1>6. collector' \in [CostRequests -> Collectors] /\ collector'[r] = k /\ \A x \in CostRequests \ {r} : collector'[x] = collector[x]
    BY <1>1, <1>2, <1>3, CollectorIs
  <1>7. /\ finishing' \in [CostRequests -> Finishings] /\ finishing'[r].pc = "over"
        /\ \A x \in CostRequests \ {r} : finishing'[x] = finishing[x]
    BY <1>1, <1>2 DEF CostTyped, Finishings
  <1>8. DOMAIN costResult' = CostRequests /\ \A x \in CostRequests \ {r} : costResult'[x] = costResult[x]
    BY <1>1, <1>2 DEF CostTyped
  <1>9. costResult'[r].kind = kind /\ costResult'[r].snapshot = s /\ costResult'[r].headers = h
    BY <1>1, <1>2 DEF CostTyped
  <1>10. CostTyped'
    BY <1>1, <1>2, <1>6, <1>7, <1>8 DEF CostTyped
  <1>11. FuturesReserve'
    BY <1>1, <1>2 DEF FuturesReserve
  <1>12. WorkCounted'
    <2> SUFFICES ASSUME NEW x \in CostRequests PROVE collector'[x].work = Cardinality(Outstanding(x)')
      BY DEF WorkCounted
    <2>1. Outstanding(x)' = Outstanding(x)
      BY <1>2 DEF Outstanding
    <2> QED BY <1>1, <1>3, <1>6, <2>1 DEF WorkCounted
  <1>13. SettledClosed'
    <2> SUFFICES ASSUME NEW x \in CostRequests, costResult'[x].kind = "settled"
                 PROVE  /\ finishing'[x].pc = "over" /\ x \notin registered' /\ collector'[x].finalized
                        /\ \A t \in CostTasks : costTask'[t].of = x => costTask'[t].st = "ended"
                        /\ costResult'[x].snapshot.costs = collector'[x].costs
                        /\ costResult'[x].snapshot.calls = collector'[x].calls
                        /\ costResult'[x].headers # NoResult => costResult'[x].headers.calls = costResult'[x].snapshot.calls
      BY DEF SettledClosed
    <2>1. CASE x = r
      <3>1. Outstanding(r) = {}
        <4>1. IsFiniteSet(Outstanding(r))
          BY CostAssumption, FS_Subset DEF Outstanding
        <4>2. Cardinality(Outstanding(r)) = 0
          BY <1>1, <1>9, <2>1 DEF WorkCounted
        <4> QED BY <4>1, <4>2, FS_EmptySet
      <3>2. \A t \in CostTasks : costTask[t].of = r => costTask[t].st = "ended"
        <4>1. NoRequest # r
          BY CostAssumption DEF NoRequest
        <4> QED BY <1>1, <3>1, <4>1 DEF Outstanding, FuturesReserve, CostTyped, Futures
      <3> QED BY <1>2, <1>3, <1>4, <1>5, <1>6, <1>7, <1>9, <2>1, <3>2
    <2>2. CASE x # r
      BY <1>1, <1>2, <1>6, <1>7, <1>8, <2>2 DEF SettledClosed
    <2> QED BY <2>1, <2>2
  <1> QED BY <1>10, <1>11, <1>12, <1>13 DEF CostInv

\* The ways a request ends its settling, or goes on with it (finish_request_cost_snapshot,
\* finish_request_cost_collection, and the scope dropped before either).
LEMMA SettlingKeeps ==
  ASSUME NEW r \in CostRequests
  PROVE  CostInv /\ (CheckIdle(r) \/ GiveUpSettling(r) \/ StopPolling(r) \/ DropScope(r)) => CostInv'
PROOF
  <1> SUFFICES ASSUME CostInv, CheckIdle(r) \/ GiveUpSettling(r) \/ StopPolling(r) \/ DropScope(r) PROVE CostInv'
    OBVIOUS
  <1>1. CostTyped /\ FuturesReserve /\ SettledClosed
    BY DEF CostInv
  <1>2. CASE CheckIdle(r) /\ WorkIdle(collector[r])
    <2>1. FinishWith(r, "settled") /\ finishing[r].pc # "over" /\ collector[r].work = 0
      BY <1>2 DEF CheckIdle, WorkIdle
    <2> QED BY <2>1, FinishKeeps
  <1>3. CASE GiveUpSettling(r) \/ StopPolling(r)
    <2>1. \E kind \in {"late", "polled"} : FinishWith(r, kind) /\ finishing[r].pc # "over"
      BY <1>3 DEF GiveUpSettling, StopPolling
    <2> QED BY <2>1, FinishKeeps
  <1>4. CASE (CheckIdle(r) /\ ~WorkIdle(collector[r])) \/ DropScope(r)
    <2>1. /\ UNCHANGED <<costTime, collector, registered, costTask, costResult>> /\ finishing[r].pc # "over"
          /\ \E pc \in {"asleep", "over"} : finishing' = [finishing EXCEPT ![r].pc = pc]
      BY <1>4 DEF CheckIdle, DropScope, CostUnchanged
    <2>2. finishing' \in [CostRequests -> Finishings] /\ \A x \in CostRequests \ {r} : finishing'[x] = finishing[x]
      BY <1>1, <2>1 DEF CostTyped, Finishings
    <2>3. costResult[r].kind # "settled"
      BY <1>1, <2>1 DEF SettledClosed
    <2>4. CostTyped'
      BY <1>1, <2>1, <2>2 DEF CostTyped
    <2> QED BY <1>1, <2>1, <2>2, <2>3, <2>4, QuietCostStep DEF FuturesReserve, SettledClosed
  <1> QED BY <1>2, <1>3, <1>4

\* Every step of the requests and their futures keeps the invariant.
LEMMA CostStep == CostInv /\ [CostNext]_costVars => CostInv'
PROOF
  <1> SUFFICES ASSUME CostInv, [CostNext]_costVars PROVE CostInv'
    OBVIOUS
  <1>1. CASE UNCHANGED costVars \/ CostTick
    <2>1. UNCHANGED <<collector, registered, costTask, finishing, costResult>> /\ costTime' \in Nat
      BY <1>1 DEF costVars, CostTick, CostInv, CostTyped
    <2>2. CostTyped'
      BY <2>1 DEF CostInv, CostTyped
    <2> QED BY <2>1, <2>2, QuietCostStep DEF CostInv, FuturesReserve, SettledClosed
  <1>2. CASE \E r \in CostRequests : BeginCollection(r) \/ PrepareSnapshot(r) \/ CheckIdle(r) \/ GiveUpSettling(r)
                                       \/ StopPolling(r) \/ DropScope(r)
    BY <1>2, BeginCollectionKeeps, PrepareKeeps, SettlingKeeps
  <1>3. CASE \E t \in CostTasks, r \in CostRequests : SpawnTask(t, r)
    BY <1>3, SpawnKeeps
  <1>4. CASE \E t \in CostTasks : PollTask(t) \/ BeginCall(t) \/ EndCall(t) \/ RecordCost(t) \/ EndTask(t)
    BY <1>4, PollTaskKeeps, BeginCallKeeps, EndCallKeeps, RecordCostKeeps, EndTaskKeeps
  <1>5. CASE \E r \in CostRequests : RecordById(CostIdOf[r])
    BY <1>5, RecordByIdKeeps
  <1> QED BY <1>1, <1>2, <1>3, <1>4, <1>5 DEF CostNext

\* A settled snapshot is complete for any requests, futures and limits: no
\* future that inherited the request still runs, and nothing is added after
\* it (begin_work, finish_work, finish_request_cost_snapshot).
THEOREM SettledSnapshots == CostSpec => []SettledIsComplete
PROOF
  <1>1. CostInv => SettledIsComplete
    BY DEF CostInv, SettledClosed, SettledIsComplete
  <1> QED BY <1>1, CostStarts, CostStep, PTL DEF CostSpec

-----------------------------------------------------------------------------
(* The credentials provider                                                *)

CredSpec == CredInit /\ [][CredNext]_credVars

\* The steps a walker takes with the mutex of its gate.
Holding == Walking \cup {"recheck", "unlock"}
\* Credentials that expire are due for a refresh the skew before.
Creds == {c \in [expires : Nat, until : Int] : c.expires # 0 => c.until = c.expires - Skew}
WalkerRecords ==
  [pc : Holding \cup {"idle", "miss", "lock", "count", "forget"}, gate : GateIds \cup {NoGate}, found : Creds,
   detached : BOOLEAN]
Commands == [state : {"none", "running", "reaped", "failed"}, group : BOOLEAN]

CredTyped ==
  /\ locked \in [GateIds -> Walkers \cup {Nobody}] /\ walker \in [Walkers -> WalkerRecords]
  /\ command \in [Walkers -> Commands] /\ cachedCred \in Creds /\ credTime \in Nat

\* Every walker past the gate holds it, and a command runs for the walker that waits for it.
GateInStep ==
  \A w \in Walkers :
    /\ walker[w].pc = "lock" => walker[w].gate \in GateIds
    /\ walker[w].pc \in Holding => walker[w].gate \in GateIds /\ locked[walker[w].gate] = w
    /\ command[w].state = "running" => walker[w].pc = "command"
    /\ command[w].state = "reaped" => ~command[w].group

ChainInv == CredTyped /\ GateInStep

\* A step of one walker that leaves the mutexes and the commands alone.
LEMMA WalkerStep ==
  ASSUME ChainInv, NEW w \in Walkers, NEW r \in WalkerRecords, walker' = [walker EXCEPT ![w] = r],
         UNCHANGED <<locked, command, credTime>>, cachedCred' \in Creds,
         r.pc = "lock" => r.gate \in GateIds,
         r.pc \in Holding => r.gate \in GateIds /\ locked[r.gate] = w,
         command[w].state = "running" => r.pc = "command"
  PROVE  ChainInv'
PROOF
  <1>1. CredTyped /\ GateInStep
    BY DEF ChainInv
  <1>2. walker' \in [Walkers -> WalkerRecords] /\ walker'[w] = r /\ \A x \in Walkers \ {w} : walker'[x] = walker[x]
    BY <1>1 DEF CredTyped
  <1>3. CredTyped'
    BY <1>1, <1>2 DEF CredTyped
  <1>4. GateInStep'
    BY <1>1, <1>2 DEF GateInStep
  <1> QED BY <1>3, <1>4 DEF ChainInv

\* Credentials are refreshed the skew before they expire, whoever issued them (metadata_refresh_after).
LEMMA IssuedIs ==
  ASSUME CredTyped PROVE NoCred \in Creds /\ EnvironmentCred \in Creds /\ \A l \in Lifetimes : Issued(l) \in Creds
PROOF
  <1>1. credTime \in Nat /\ Skew \in Nat /\ Fallback \in Nat /\ StaticTtl \in Nat /\ Lifetimes \subseteq Nat
    BY CredentialAssumption DEF CredTyped
  <1>2. NoCred \in Creds /\ EnvironmentCred \in Creds
    BY <1>1 DEF NoCred, EnvironmentCred, Creds
  <1>3. ASSUME NEW l \in Lifetimes PROVE Issued(l) \in Creds
    BY <1>1 DEF Issued, RefreshAfter, Creds
  <1> QED BY <1>2, <1>3

\* No walker has begun.
LEMMA ChainStarts == CredInit => ChainInv
PROOF
  <1> SUFFICES ASSUME CredInit PROVE ChainInv
    OBVIOUS
  <1>1. NoCred \in Creds
    BY DEF NoCred, Creds
  <1>2. IdleWalker \in WalkerRecords /\ IdleWalker.pc = "idle" /\ NoCommand \in Commands /\ NoCommand.state = "none"
    BY <1>1 DEF IdleWalker, WalkerRecords, NoCommand, Commands
  <1>3. CredTyped
    BY <1>1, <1>2 DEF CredInit, CredTyped
  <1>4. GateInStep
    BY <1>2 DEF CredInit, GateInStep, Holding, Walking
  <1> QED BY <1>3, <1>4 DEF ChainInv

\* A walker that moves on under the same gate, or lets nothing go that it held.
LEMMA MoveKeeps ==
  ASSUME ChainInv, NEW w \in Walkers, NEW pc, Move(w, pc), UNCHANGED <<locked, command, credTime>>, cachedCred' \in Creds,
         \/ walker[w].pc \in Holding /\ pc \in Holding
         \/ pc = "miss" /\ walker[w].pc = "idle",
         walker[w].pc = "command" => command[w].state # "running"
  PROVE  ChainInv'
PROOF
  <1>1. CredTyped /\ GateInStep
    BY DEF ChainInv
  <1> DEFINE r == [walker[w] EXCEPT !.pc = pc]
  <1>2. walker' = [walker EXCEPT ![w] = r]
    BY <1>1 DEF Move, CredTyped
  <1>3. r \in WalkerRecords /\ r.pc = pc /\ r.gate = walker[w].gate
    BY <1>1 DEF CredTyped, WalkerRecords
  <1>4. command[w].state # "running"
    BY <1>1 DEF GateInStep
  <1>5. r.pc # "lock" /\ (r.pc \in Holding => r.gate \in GateIds /\ locked[r.gate] = w)
    BY <1>1, <1>3 DEF GateInStep, Holding, Walking
  <1> HIDE DEF r
  <1> QED BY <1>2, <1>3, <1>4, <1>5, WalkerStep

\* A walker under its gate that found credentials, or goes on to the next link.
LEMMA FoundKeeps ==
  ASSUME ChainInv, NEW w \in Walkers, NEW creds \in SUBSET Creds, NEW pc \in Holding, Found(w, creds, pc),
         UNCHANGED <<locked, command, cachedCred, credTime>>, walker[w].pc \in Holding, walker[w].pc # "command"
  PROVE  ChainInv'
PROOF
  <1>1. CredTyped /\ GateInStep
    BY DEF ChainInv
  <1>2. CASE creds = {}
    <2>1. Move(w, pc)
      BY <1>2 DEF Found
    <2> QED BY <1>1, <2>1, MoveKeeps DEF CredTyped
  <1>3. CASE creds # {}
    <2>1. PICK c \in creds : walker' = [walker EXCEPT ![w].pc = "store", ![w].found = c]
      BY <1>3 DEF Found
    <2> DEFINE r == [walker[w] EXCEPT !.pc = "store", !.found = c]
    <2>2. walker' = [walker EXCEPT ![w] = r]
      BY <1>1, <2>1 DEF CredTyped
    <2>3. r \in WalkerRecords /\ r.pc = "store" /\ r.gate = walker[w].gate
      BY <1>1 DEF CredTyped, WalkerRecords, Holding, Walking
    <2> HIDE DEF r
    <2> QED BY <1>1, <2>2, <2>3, WalkerStep DEF GateInStep, CredTyped
  <1> QED BY <1>2, <1>3

\* A walker looks for the gate, or is told the cached answer (load_credentials, KeyedSingleflight::lock).
LEMMA EntryKeeps ==
  ASSUME NEW w \in Walkers PROVE ChainInv /\ (LoadCredentials(w) \/ LookUpGate(w)) => ChainInv'
PROOF
  <1> SUFFICES ASSUME ChainInv, LoadCredentials(w) \/ LookUpGate(w) PROVE ChainInv'
    OBVIOUS
  <1>1. CredTyped /\ GateInStep /\ UNCHANGED <<locked, command, cachedCred, credTime>>
    BY DEF ChainInv, LoadCredentials, LookUpGate
  <1>2. CASE LoadCredentials(w)
    <2>1. CASE UNCHANGED walker
      BY <1>1, <2>1 DEF ChainInv, CredTyped, GateInStep
    <2>2. CASE Move(w, "miss") /\ walker[w].pc = "idle"
      BY <1>1, <2>2, MoveKeeps DEF CredTyped
    <2> QED BY <1>2, <2>1, <2>2 DEF LoadCredentials, WalkerAt
  <1>3. CASE LookUpGate(w)
    <2>1. PICK g \in GateIds : walker' = [walker EXCEPT ![w].gate = g, ![w].pc = "lock"]
      BY <1>3 DEF LookUpGate
    <2> DEFINE r == [walker[w] EXCEPT !.gate = g, !.pc = "lock"]
    <2>2. walker' = [walker EXCEPT ![w] = r]
      BY <1>1, <2>1 DEF CredTyped
    <2>3. r \in WalkerRecords /\ r.pc = "lock" /\ r.gate = g
      BY <1>1 DEF CredTyped, WalkerRecords
    <2>4. command[w].state # "running"
      BY <1>1, <1>3 DEF GateInStep, LookUpGate, WalkerAt
    <2>5. "lock" \notin Holding
      BY DEF Holding, Walking
    <2> HIDE DEF r
    <2> QED BY <1>1, <2>2, <2>3, <2>4, <2>5, WalkerStep DEF CredTyped
  <1> QED BY <1>2, <1>3

\* The mutex goes to one walker at a time (TakeGate, the drop of KeyedSingleflightGuard).
LEMMA MutexKeeps == ASSUME NEW w \in Walkers PROVE ChainInv /\ (TakeGate(w) \/ Unlock(w)) => ChainInv'
PROOF
  <1> SUFFICES ASSUME ChainInv, TakeGate(w) \/ Unlock(w) PROVE ChainInv'
    OBVIOUS
  <1>1. CredTyped /\ GateInStep /\ UNCHANGED <<command, cachedCred, credTime>>
    BY DEF ChainInv, TakeGate, Unlock
  <1> DEFINE g == walker[w].gate
  <1>2. PICK pc \in {"recheck", "count"}, h \in {w, Nobody} :
          /\ Move(w, pc) /\ locked' = [locked EXCEPT ![g] = h] /\ walker[w].pc \in {"lock", "unlock"}
          /\ walker[w].pc = "lock" => locked[g] = Nobody
          /\ pc = "recheck" => h = w
    BY DEF TakeGate, Unlock, WalkerAt
  <1>3. g \in GateIds /\ locked[g] \in {w, Nobody} /\ command[w].state # "running"
    BY <1>1, <1>2 DEF GateInStep, Holding
  <1>4. Nobody \notin Walkers
    BY CredentialAssumption DEF Nobody
  <1>5. /\ walker' \in [Walkers -> WalkerRecords] /\ walker'[w].pc = pc /\ walker'[w].gate = walker[w].gate
        /\ \A x \in Walkers \ {w} : walker'[x] = walker[x]
    BY <1>1, <1>2 DEF Move, CredTyped, WalkerRecords, Holding
  <1> HIDE DEF g
  <1>6. locked' \in [GateIds -> Walkers \cup {Nobody}] /\ locked'[g] = h /\ \A x \in GateIds \ {g} : locked'[x] = locked[x]
    BY <1>1, <1>2, <1>3 DEF CredTyped
  <1>7. CredTyped'
    BY <1>1, <1>5, <1>6 DEF CredTyped
  <1>8. \A x \in Walkers \ {w} : walker[x].pc \in Holding => walker[x].gate # g
    BY <1>1, <1>3, <1>4 DEF GateInStep
  <1>9. walker'[w].gate = g /\ "count" \notin Holding /\ "recheck" # "lock"
    BY <1>5 DEF g, Holding, Walking
  <1>10. GateInStep'
    <2> SUFFICES ASSUME NEW x \in Walkers
                 PROVE  /\ walker'[x].pc = "lock" => walker'[x].gate \in GateIds
                        /\ walker'[x].pc \in Holding => walker'[x].gate \in GateIds /\ locked'[walker'[x].gate] = x
                        /\ command[x].state = "running" => walker'[x].pc = "command"
                        /\ command[x].state = "reaped" => ~command[x].group
      BY <1>1 DEF GateInStep
    <2>1. CASE x = w
      BY <1>1, <1>2, <1>3, <1>5, <1>6, <1>9, <2>1 DEF GateInStep
    <2>2. CASE x # w
      <3>1. walker'[x] = walker[x]
        BY <1>5, <2>2
      <3>2. walker[x].pc \in Holding => walker[x].gate \in GateIds /\ locked'[walker[x].gate] = x
        BY <1>1, <1>6, <1>8, <2>2 DEF GateInStep
      <3> QED BY <1>1, <3>1, <3>2 DEF GateInStep
    <2> QED BY <2>1, <2>2
  <1> QED BY <1>7, <1>10 DEF ChainInv

\* A walker that is done, or gives up before the gate, is idle again (CountOwners, ForgetGate).
LEMMA LeaveKeeps == ASSUME NEW w \in Walkers PROVE ChainInv /\ (CountOwners(w) \/ ForgetGate(w)) => ChainInv'
PROOF
  <1> SUFFICES ASSUME ChainInv, CountOwners(w) \/ ForgetGate(w) PROVE ChainInv'
    OBVIOUS
  <1>1. CredTyped /\ GateInStep /\ UNCHANGED <<locked, command, cachedCred, credTime>>
    BY DEF ChainInv, CountOwners, ForgetGate
  <1>2. walker[w].pc \in {"count", "forget"}
    BY DEF CountOwners, ForgetGate, WalkerAt
  <1>3. PICK r \in {IdleWalker, [walker[w] EXCEPT !.pc = "forget"]} : walker' = [walker EXCEPT ![w] = r]
    BY <1>1 DEF CountOwners, ForgetGate, CredTyped
  <1>4. r \in WalkerRecords /\ r.pc \in {"idle", "forget"}
    <2>1. IdleWalker \in WalkerRecords /\ IdleWalker.pc = "idle"
      BY <1>1, IssuedIs DEF IdleWalker, WalkerRecords
    <2>2. [walker[w] EXCEPT !.pc = "forget"] \in WalkerRecords /\ [walker[w] EXCEPT !.pc = "forget"].pc = "forget"
      BY <1>1 DEF CredTyped, WalkerRecords
    <2> QED BY <2>1, <2>2
  <1>5. command[w].state # "running"
    BY <1>1, <1>2 DEF GateInStep
  <1> QED BY <1>1, <1>3, <1>4, <1>5, WalkerStep DEF CredTyped, Holding, Walking

\* The links of the chain that no command is part of (load_credentials).
LEMMA LinksKeep ==
  ASSUME NEW w \in Walkers
  PROVE  ChainInv /\ (Recheck(w) \/ TryEnvironment(w) \/ TryEcs(w) \/ TryImds(w) \/ StoreCredentials(w)) => ChainInv'
PROOF
  <1> SUFFICES ASSUME ChainInv, Recheck(w) \/ TryEnvironment(w) \/ TryEcs(w) \/ TryImds(w) \/ StoreCredentials(w)
               PROVE  ChainInv'
    OBVIOUS
  <1>1. CredTyped /\ UNCHANGED <<locked, command, credTime>>
    BY DEF ChainInv, Recheck, TryEnvironment, TryEcs, TryImds, StoreCredentials
  <1>2. {"unlock", "environment", "profile", "imds", "recheck", "ecs", "store"} \subseteq Holding
    BY DEF Holding, Walking
  <1>3. CASE Recheck(w)
    <2>1. PICK pc \in {"unlock", "environment"} : Move(w, pc) /\ walker[w].pc = "recheck" /\ UNCHANGED cachedCred
      BY <1>3 DEF Recheck, WalkerAt
    <2> QED BY <1>1, <1>2, <2>1, MoveKeeps DEF CredTyped
  <1>4. CASE StoreCredentials(w)
    <2>1. Move(w, "unlock") /\ walker[w].pc = "store"
      BY <1>4 DEF StoreCredentials, WalkerAt
    <2>2. cachedCred' \in Creds
      BY <1>1, <1>4, IssuedIs DEF StoreCredentials, CredTyped, WalkerRecords
    <2> QED BY <1>1, <1>2, <2>1, <2>2, MoveKeeps
  <1>5. CASE TryEnvironment(w)
    <2>1. walker[w].pc = "environment" /\ UNCHANGED cachedCred
      BY <1>5 DEF TryEnvironment, WalkerAt
    <2>2. CASE Move(w, "unlock")
      BY <1>1, <1>2, <2>1, <2>2, MoveKeeps DEF CredTyped
    <2>3. CASE \E keyId, secret \in BOOLEAN : Found(w, FromEnvironment(keyId, secret), "profile")
      <3>1. PICK keyId \in BOOLEAN, secret \in BOOLEAN : Found(w, FromEnvironment(keyId, secret), "profile")
        BY <2>3
      <3>2. FromEnvironment(keyId, secret) \in SUBSET Creds
        BY <1>1, IssuedIs DEF FromEnvironment
      <3> QED BY <1>1, <1>2, <2>1, <3>1, <3>2, FoundKeeps
    <2> QED BY <1>5, <2>2, <2>3 DEF TryEnvironment
  <1>6. CASE TryEcs(w) \/ TryImds(w)
    <2>1. PICK pc \in {"imds", "unlock"}, creds \in {{}} \cup {{Issued(l)} : l \in Lifetimes} : Found(w, creds, pc)
      BY <1>6 DEF TryEcs, TryImds
    <2>2. walker[w].pc \in {"ecs", "imds"} /\ UNCHANGED cachedCred
      BY <1>6 DEF TryEcs, TryImds, WalkerAt
    <2>3. creds \in SUBSET Creds
      BY <1>1, IssuedIs
    <2> QED BY <1>1, <1>2, <2>1, <2>2, <2>3, FoundKeeps
  <1> QED BY <1>3, <1>4, <1>5, <1>6

\* A walker whose command starts waits for it under its gate (run_bounded_command).
LEMMA StartCommandKeeps == ASSUME NEW w \in Walkers PROVE ChainInv /\ StartCommand(w) => ChainInv'
PROOF
  <1> SUFFICES ASSUME ChainInv, StartCommand(w) PROVE ChainInv'
    OBVIOUS
  <1>1. CredTyped /\ GateInStep /\ UNCHANGED <<locked, cachedCred, credTime>> /\ walker[w].pc = "profile"
    BY DEF ChainInv, StartCommand, WalkerAt
  <1>2. CASE Move(w, "ecs") /\ UNCHANGED command
    BY <1>1, <1>2, MoveKeeps DEF CredTyped, Holding, Walking
  <1>3. CASE /\ walker' = [walker EXCEPT ![w].pc = "command"]
             /\ command' = [command EXCEPT ![w] = [state |-> "running", group |-> TRUE]]
    <2>1. /\ walker' \in [Walkers -> WalkerRecords] /\ walker'[w].pc = "command" /\ walker'[w].gate = walker[w].gate
          /\ \A x \in Walkers \ {w} : walker'[x] = walker[x]
      BY <1>1, <1>3 DEF CredTyped, WalkerRecords, Holding, Walking
    <2>2. /\ command' \in [Walkers -> Commands] /\ command'[w].state = "running"
          /\ \A x \in Walkers \ {w} : command'[x] = command[x]
      BY <1>1, <1>3 DEF CredTyped, Commands
    <2>3. CredTyped'
      BY <1>1, <2>1, <2>2 DEF CredTyped
    <2>4. walker[w].gate \in GateIds /\ locked[walker[w].gate] = w
      BY <1>1 DEF GateInStep, Holding, Walking
    <2>5. GateInStep'
      BY <1>1, <2>1, <2>2, <2>4 DEF GateInStep
    <2> QED BY <2>3, <2>5 DEF ChainInv
  <1> QED BY <1>2, <1>3 DEF StartCommand

\* A command ends under the gate it was started under, also when nobody waits for it any more
\* (CommandSupervisor::finish, terminate_and_reap).
LEMMA EndCommandKeeps == ASSUME NEW w \in Walkers PROVE ChainInv /\ EndCommand(w) => ChainInv'
PROOF
  <1> SUFFICES ASSUME ChainInv, EndCommand(w) PROVE ChainInv'
    OBVIOUS
  <1>1. CredTyped /\ GateInStep /\ UNCHANGED <<locked, cachedCred, credTime>> /\ command[w].state = "running"
    BY DEF ChainInv, EndCommand
  <1>2. PICK killed \in BOOLEAN, alive \in BOOLEAN, ending \in {"exported", "refused", "oversized", "timed out"} :
          LET result == TerminateAndReap(w, killed, alive)
              reply == IF result = "reaped" THEN ProfileReply(ending) ELSE "failed"
          IN /\ command' = [command EXCEPT ![w] = [state |-> result, group |-> ~killed /\ alive]]
             /\ IF walker[w].detached THEN Move(w, "unlock")
                ELSE \E l \in Lifetimes : Found(w, IF reply = "found" THEN {Issued(l)} ELSE {}, "ecs")
    BY DEF EndCommand
  <1> DEFINE result == TerminateAndReap(w, killed, alive)
  <1>3. result \in {"reaped", "failed"} /\ (result = "reaped" => ~(~killed /\ alive))
    BY DEF TerminateAndReap
  <1>4. command' = [command EXCEPT ![w] = [state |-> result, group |-> ~killed /\ alive]]
    BY <1>2
  <1>5. \/ Move(w, "unlock") \/ Move(w, "ecs")
        \/ \E c \in Creds : walker' = [walker EXCEPT ![w].pc = "store", ![w].found = c]
    BY <1>1, <1>2, IssuedIs DEF Found
  <1> HIDE DEF result
  <1>6. /\ command' \in [Walkers -> Commands] /\ command'[w].state = result /\ command'[w].group = (~killed /\ alive)
        /\ \A x \in Walkers \ {w} : command'[x] = command[x]
    BY <1>1, <1>3, <1>4 DEF CredTyped, Commands
  <1>7. /\ walker' \in [Walkers -> WalkerRecords] /\ walker'[w].pc \in {"unlock", "ecs", "store"}
        /\ walker'[w].gate = walker[w].gate /\ \A x \in Walkers \ {w} : walker'[x] = walker[x]
    <2> DEFINE r == walker[w]
    <2>1. r \in WalkerRecords /\ walker \in [Walkers -> WalkerRecords]
      BY <1>1 DEF CredTyped
    <2>2. {"unlock", "ecs", "store"} \subseteq Holding
      BY DEF Holding, Walking
    <2>3. PICK q : /\ walker' = [walker EXCEPT ![w] = q]
                   /\ \/ \E pc \in {"unlock", "ecs"} : q = [r EXCEPT !.pc = pc]
                      \/ \E c \in Creds : q = [r EXCEPT !.pc = "store", !.found = c]
      BY <1>5, ZenonT(60) DEF Move
    <2> HIDE DEF r
    <2>4. q \in WalkerRecords /\ q.pc \in {"unlock", "ecs", "store"} /\ q.gate = r.gate
      <3>1. ASSUME NEW pc \in {"unlock", "ecs"}, q = [r EXCEPT !.pc = pc]
            PROVE  q \in WalkerRecords /\ q.pc = pc /\ q.gate = r.gate
        <4>1. pc \in Holding
          BY <2>2
        <4> QED BY <2>1, <3>1, <4>1 DEF WalkerRecords
      <3>2. ASSUME NEW c \in Creds, q = [r EXCEPT !.pc = "store", !.found = c]
            PROVE  q \in WalkerRecords /\ q.pc = "store" /\ q.gate = r.gate
        <4>1. "store" \in Holding
          BY <2>2
        <4> QED BY <2>1, <3>2, <4>1 DEF WalkerRecords
      <3> QED BY <2>3, <3>1, <3>2
    <2>5. walker' \in [Walkers -> WalkerRecords] /\ walker'[w] = q /\ \A x \in Walkers \ {w} : walker'[x] = walker[x]
      BY <2>1, <2>3, <2>4
    <2> QED BY <2>4, <2>5 DEF r
  <1>8. walker[w].gate \in GateIds /\ locked[walker[w].gate] = w
    BY <1>1 DEF GateInStep, Holding, Walking
  <1>9. CredTyped'
    BY <1>1, <1>6, <1>7 DEF CredTyped
  <1>10. GateInStep'
    <2> SUFFICES ASSUME NEW x \in Walkers
                 PROVE  /\ walker'[x].pc = "lock" => walker'[x].gate \in GateIds
                        /\ walker'[x].pc \in Holding => walker'[x].gate \in GateIds /\ locked[walker'[x].gate] = x
                        /\ command'[x].state = "running" => walker'[x].pc = "command"
                        /\ command'[x].state = "reaped" => ~command'[x].group
      BY <1>1 DEF GateInStep
    <2>1. CASE x = w
      BY <1>3, <1>6, <1>7, <1>8, <2>1
    <2>2. CASE x # w
      BY <1>1, <1>6, <1>7, <2>2, ZenonT(60) DEF GateInStep
    <2> QED BY <2>1, <2>2
  <1> QED BY <1>9, <1>10 DEF ChainInv

\* A caller that is dropped leaves the gate to the command it started (resolve_profile_credentials_async).
LEMMA CancelKeeps == ASSUME NEW w \in Walkers PROVE ChainInv /\ CancelWalk(w) => ChainInv'
PROOF
  <1> SUFFICES ASSUME ChainInv, CancelWalk(w) PROVE ChainInv'
    OBVIOUS
  <1>1. CredTyped /\ GateInStep /\ UNCHANGED <<locked, command, cachedCred, credTime>>
    BY DEF ChainInv, CancelWalk
  <1>2. CASE walker[w].pc = "lock" /\ walker' = [walker EXCEPT ![w] = IdleWalker]
    <2>1. IdleWalker \in WalkerRecords /\ IdleWalker.pc = "idle"
      BY <1>1, IssuedIs DEF IdleWalker, WalkerRecords
    <2>2. command[w].state # "running" /\ "idle" \notin Holding
      BY <1>1, <1>2 DEF GateInStep, Holding, Walking
    <2> QED BY <1>1, <1>2, <2>1, <2>2, WalkerStep DEF CredTyped
  <1>3. CASE walker[w].pc \in {"ecs", "imds"} /\ Move(w, "unlock")
    BY <1>1, <1>3, MoveKeeps DEF CredTyped, Holding, Walking
  <1>4. CASE walker[w].pc = "command" /\ walker' = [walker EXCEPT ![w].detached = TRUE]
    <2> DEFINE r == [walker[w] EXCEPT !.detached = TRUE]
    <2>1. walker' = [walker EXCEPT ![w] = r]
      BY <1>1, <1>4 DEF CredTyped
    <2>2. r \in WalkerRecords /\ r.pc = "command" /\ r.gate = walker[w].gate
      BY <1>1, <1>4 DEF CredTyped, WalkerRecords
    <2>3. walker[w].gate \in GateIds /\ locked[walker[w].gate] = w
      BY <1>1, <1>4 DEF GateInStep, Holding, Walking
    <2> HIDE DEF r
    <2> QED BY <1>1, <2>1, <2>2, <2>3, WalkerStep DEF CredTyped
  <1> QED BY <1>2, <1>3, <1>4 DEF CancelWalk, WalkerAt

\* Every step of the provider keeps the invariant.
LEMMA ChainStep == ChainInv /\ [CredNext]_credVars => ChainInv'
PROOF
  <1> SUFFICES ASSUME ChainInv, [CredNext]_credVars PROVE ChainInv'
    OBVIOUS
  <1>1. CASE UNCHANGED credVars \/ CredTick
    BY <1>1 DEF credVars, CredTick, ChainInv, CredTyped, GateInStep
  <1>2. ASSUME NEW w \in Walkers,
               \/ LoadCredentials(w) \/ LookUpGate(w) \/ TakeGate(w) \/ Recheck(w) \/ TryEnvironment(w)
               \/ StartCommand(w) \/ EndCommand(w) \/ TryEcs(w) \/ TryImds(w) \/ StoreCredentials(w)
               \/ Unlock(w) \/ CountOwners(w) \/ ForgetGate(w) \/ CancelWalk(w)
        PROVE  ChainInv'
    BY <1>2, EntryKeeps, MutexKeeps, LeaveKeeps, LinksKeep, StartCommandKeeps, EndCommandKeeps, CancelKeeps
  <1> QED BY <1>1, <1>2 DEF CredNext

\* For any callers, gates, lifetimes and skew: no credential is served within
\* the skew of its expiry, and a walk and its command hold the gate they
\* entered by until they end (load_credentials, resolve_profile_credentials_async).
THEOREM ChainIsSound == CredSpec => []ChainSound
PROOF
  <1>1. ChainInv => ChainSound
    <2> SUFFICES ASSUME ChainInv PROVE ChainSound
      OBVIOUS
    <2>1. GateCoversCommand
      BY DEF ChainInv, GateInStep, GateCoversCommand, Holding, WalkerAt
    <2>2. CacheKeepsSkew
      BY CredentialAssumption DEF ChainInv, CredTyped, Creds, CacheKeepsSkew, Served
    <2> QED BY <2>1, <2>2 DEF ChainSound
  <1> QED BY <1>1, ChainStarts, ChainStep, PTL DEF CredSpec

-----------------------------------------------------------------------------
(* The HTTP exchange                                                       *)

HttpSpec == HttpInit /\ [][HttpNext]_httpVars

HttpRequests == PlainRequests \cup TenantRequests
HttpLasts == Statuses \cup TransportErrors \cup {"none"}
HttpResults ==
  TransportErrors \cup {"none", "ssrf", "size", "redirect", "invalidUrl", "tooLarge", "responseBody", "response", "status",
                        "cacheTtl", "decode"}
Observations == {"retry", "success", "error"}
Exchanges ==
  [pc : {"idle", "validate", "send", "finish", "redirect", "body", "read", "done"}, req : HttpRequests \cup {NoUrl},
   url : Url \cup {NoUrl}, attempt : Nat, redirects : Nat, last : HttpLasts, slept : Int, observed : Seq(Observations),
   helper : Helpers \cup OAuthHelpers \cup {"none"}, size : Nat, result : HttpResults]

\* What arrived where: an address the connector used, for a host and a hop.
Reached == Addresses \cup {LiteralAddress(h) : h \in Hosts}
Arrivals == [address : Reached, host : Hosts, hop : Nat]

HttpTyped == exchange \in Exchanges /\ wire \in Seq(Arrivals)

\* An exchange under way knows its request; before that nothing is on the wire.
HttpStarted ==
  IF exchange.pc = "idle" THEN exchange = IdleExchange /\ wire = <<>>
  ELSE exchange.req \in HttpRequests /\ exchange.url \in Url

\* A tenant's URL stays on its host, and is checked before anything is sent.
HostChecked ==
  exchange.pc # "idle" /\ exchange.req.tenant =>
    /\ exchange.url.host = exchange.req.url.host
    /\ exchange.pc \in {"send", "finish"} => LiteralAllowed(exchange.url.host) /\ MatchAllowlisted(exchange.url.host)

\* Every arrival belongs to a hop made so far, and a request that is not
\* repeated arrives once in each.
HopsInStep ==
  exchange.pc # "idle" =>
    /\ exchange.attempt <= RetriesOf(exchange.req) /\ exchange.redirects <= MaxRedirects
    /\ \A i \in DOMAIN wire : wire[i].hop <= exchange.redirects
    /\ RetriesOf(exchange.req) = 0 =>
         /\ \A i, j \in DOMAIN wire : i # j => wire[i].hop # wire[j].hop
         /\ exchange.pc \in {"validate", "send"} => \A i \in DOMAIN wire : wire[i].hop < exchange.redirects

\* Arrivals and sleep so far: whole hops, and the attempts of this one.
HopSends(n) == (MaxRetries + 1) * n
HopSleeps(n) == (MaxRetries * MaxDelay) * n
HopAttempts(e) == IF e.pc = "validate" THEN 0 ELSE IF e.pc = "send" THEN e.attempt ELSE e.attempt + 1
HopRetries(e) == IF e.pc = "validate" THEN 0 ELSE e.attempt
TotalsInStep ==
  /\ Len(wire) <= HopSends(exchange.redirects) + HopAttempts(exchange)
  /\ exchange.slept <= HopSleeps(exchange.redirects) + HopRetries(exchange) * MaxDelay

\* What the observer was told: each attempt once, and one that is not retried per hop.
Ends(events) == {i \in DOMAIN events : events[i] # "retry"}
ObserverInStep ==
  /\ Len(exchange.observed) + (IF exchange.pc = "finish" THEN 1 ELSE 0) >= Len(wire)
  /\ IsFiniteSet(Ends(exchange.observed))
  /\ Cardinality(Ends(exchange.observed)) <= exchange.redirects + (IF exchange.pc \in {"validate", "send", "finish"} THEN 0 ELSE 1)

HttpInv == HttpTyped /\ HttpStarted /\ HostChecked /\ OnlyCheckedAddresses /\ HopsInStep /\ TotalsInStep /\ ObserverInStep

\* The bounds of one hop add up to those of the next (arithmetic).
LEMMA HopTotals ==
  ASSUME NEW n \in Nat, NEW a \in Nat, a <= MaxRetries
  PROVE  /\ HopSends(n) \in Nat /\ HopSleeps(n) \in Nat /\ a * MaxDelay \in Nat
         /\ HopSends(n) + a + 1 <= HopSends(n + 1) /\ HopSleeps(n) + a * MaxDelay <= HopSleeps(n + 1)
         /\ (a + 1) * MaxDelay = a * MaxDelay + MaxDelay
PROOF
  <1>1. MaxRetries \in Nat /\ MaxDelay \in Nat
    BY HttpAssumption
  <1>2. HopSends(n) \in Nat /\ HopSleeps(n) \in Nat /\ a * MaxDelay \in Nat /\ (a + 1) * MaxDelay = a * MaxDelay + MaxDelay
    BY <1>1 DEF HopSends, HopSleeps
  <1>3. HopSends(n) + a + 1 <= HopSends(n + 1)
    BY <1>1 DEF HopSends
  <1>4. HopSleeps(n) + a * MaxDelay <= HopSleeps(n + 1)
    <2>1. a * MaxDelay <= MaxRetries * MaxDelay
      BY <1>1
    <2> DEFINE s == MaxRetries * MaxDelay
    <2>2. s \in Nat
      BY <1>1
    <2>3. HopSleeps(n) = s * n /\ HopSleeps(n + 1) = s * (n + 1)
      BY DEF HopSleeps
    <2> HIDE DEF s
    <2>4. s * (n + 1) = s * n + s /\ s * n \in Nat
      BY <2>2
    <2>5. a * MaxDelay <= s
      BY <2>1 DEF s
    <2> QED BY <1>2, <2>2, <2>3, <2>4, <2>5
  <1> QED BY <1>2, <1>3, <1>4

\* Whole hops are counted by naturals (arithmetic).
LEMMA HopTypes == ASSUME NEW n \in Nat PROVE HopSends(n) \in Nat /\ HopSleeps(n) \in Nat
PROOF BY HttpAssumption DEF HopSends, HopSleeps

\* The bounds of the hops made so far are those of the policy.
LEMMA PolicyTotals ==
  ASSUME NEW n \in Nat, n <= MaxRedirects
  PROVE  /\ HopSends(n + 1) <= (MaxRetries + 1) * (MaxRedirects + 1)
         /\ HopSleeps(n + 1) <= MaxRetries * (MaxRedirects + 1) * MaxDelay
PROOF
  <1>1. MaxRetries \in Nat /\ MaxDelay \in Nat /\ MaxRedirects \in Nat
    BY HttpAssumption
  <1>2. HopSends(n + 1) <= (MaxRetries + 1) * (MaxRedirects + 1)
    BY <1>1 DEF HopSends
  <1>3. MaxRetries * (MaxRedirects + 1) * MaxDelay = (MaxRetries * MaxDelay) * (MaxRedirects + 1)
    BY <1>1
  <1>4. HopSleeps(n + 1) <= (MaxRetries * MaxDelay) * (MaxRedirects + 1)
    <2> DEFINE s == MaxRetries * MaxDelay
    <2>1. s \in Nat
      BY <1>1
    <2> HIDE DEF s
    <2>2. s * (n + 1) <= s * (MaxRedirects + 1)
      BY <1>1, <2>1
    <2> QED BY <2>2 DEF HopSleeps, s
  <1> QED BY <1>2, <1>3, <1>4

\* A request that is not repeated has one attempt, and no other has more than the policy's
\* (RequestAttempts::new).
LEMMA RetriesBound ==
  ASSUME NEW r
  PROVE  RetriesOf(r) \in {0, MaxRetries} /\ RetriesOf(r) <= MaxRetries /\ MaxRetries \in Nat /\ MaxRedirects \in Nat
         /\ (~(RetryNonIdempotent \/ Idempotent(r)) => RetriesOf(r) = 0)
PROOF BY HttpAssumption DEF RetriesOf, RetryConfig

\* Nothing has been sent before the request is taken.
LEMMA HttpStarts == HttpInit => HttpInv
PROOF
  <1> SUFFICES ASSUME HttpInit PROVE HttpInv
    OBVIOUS
  <1>1. exchange = IdleExchange /\ wire = <<>>
    BY DEF HttpInit
  <1>2. IdleExchange \in Exchanges
    BY EmptySeq DEF IdleExchange, Exchanges, HttpLasts, HttpResults
  <1>3. HttpTyped /\ HttpStarted
    <2>1. IdleExchange.pc = "idle"
      BY DEF IdleExchange
    <2> QED BY <1>1, <1>2, <2>1, EmptySeq DEF HttpTyped, HttpStarted
  <1>4. exchange.pc = "idle" /\ exchange.attempt = 0 /\ exchange.redirects = 0 /\ exchange.slept = 0 /\ exchange.observed = <<>>
    BY <1>1 DEF IdleExchange
  <1>5. HostChecked /\ OnlyCheckedAddresses /\ HopsInStep
    BY <1>4 DEF HostChecked, OnlyCheckedAddresses, HopsInStep
  <1>6. TotalsInStep
    <2>1. HopSends(0) = 0 /\ HopSleeps(0) = 0 /\ 0 * MaxDelay = 0
      BY HttpAssumption DEF HopSends, HopSleeps
    <2> QED BY <1>1, <1>4, <2>1 DEF TotalsInStep, HopAttempts, HopRetries
  <1>7. ObserverInStep
    <2>1. Ends(exchange.observed) = {}
      BY <1>4 DEF Ends
    <2> QED BY <1>1, <1>4, <2>1, FS_EmptySet DEF ObserverInStep
  <1> QED BY <1>3, <1>5, <1>6, <1>7 DEF HttpInv

\* What the exchange keeps in every step that only moves it on.
SameTravel ==
  /\ exchange'.req = exchange.req /\ exchange'.url = exchange.url /\ exchange'.attempt = exchange.attempt
  /\ exchange'.redirects = exchange.redirects /\ exchange'.slept = exchange.slept /\ exchange'.observed = exchange.observed

\* A step towards the caller sends nothing.
LEMMA OnwardKeeps ==
  ASSUME HttpInv, exchange' \in Exchanges, SameTravel, UNCHANGED wire,
         exchange.pc \in {"validate", "redirect", "body", "read"}, exchange'.pc \in {"body", "read", "done"}
  PROVE  HttpInv'
PROOF
  <1>1. HttpTyped /\ HttpStarted /\ HostChecked /\ OnlyCheckedAddresses /\ HopsInStep /\ TotalsInStep /\ ObserverInStep
    BY DEF HttpInv
  <1>2. HttpTyped' /\ HttpStarted'
    BY <1>1 DEF HttpTyped, HttpStarted, SameTravel
  <1>3. HostChecked' /\ OnlyCheckedAddresses'
    BY <1>1 DEF HostChecked, OnlyCheckedAddresses, SameTravel
  <1>4. HopsInStep'
    BY <1>1 DEF HopsInStep, SameTravel
  <1>5. exchange.attempt \in Nat /\ exchange.redirects \in Nat /\ exchange.slept \in Int /\ Len(wire) \in Nat
    BY <1>1, LenProperties DEF HttpTyped, Exchanges
  <1>6. exchange.attempt <= MaxRetries
    BY <1>1, <1>5, RetriesBound DEF HopsInStep
  <1>7. TotalsInStep'
    <2>1. HopSends(exchange.redirects) \in Nat /\ HopSleeps(exchange.redirects) \in Nat /\ exchange.attempt * MaxDelay \in Nat
      BY <1>5, <1>6, HopTotals
    <2>2. HopAttempts(exchange) <= exchange.attempt + 1 /\ HopAttempts(exchange) \in Nat
          /\ HopAttempts(exchange)' = exchange.attempt + 1 /\ HopRetries(exchange)' = exchange.attempt
      BY <1>5 DEF HopAttempts, HopRetries, SameTravel
    <2>3. HopRetries(exchange) * MaxDelay <= exchange.attempt * MaxDelay /\ HopRetries(exchange) * MaxDelay \in Nat
      BY <1>5, <2>1, HttpAssumption, SMTT(30) DEF HopRetries
    <2>4. /\ Len(wire) <= HopSends(exchange.redirects) + HopAttempts(exchange)
          /\ exchange.slept <= HopSleeps(exchange.redirects) + HopRetries(exchange) * MaxDelay
      BY <1>1 DEF TotalsInStep
    <2>5. /\ Len(wire) <= HopSends(exchange.redirects) + (exchange.attempt + 1)
          /\ exchange.slept <= HopSleeps(exchange.redirects) + exchange.attempt * MaxDelay
      BY <1>5, <2>1, <2>2, <2>3, <2>4
    <2> QED BY <2>2, <2>5 DEF TotalsInStep, SameTravel
  <1>8. ObserverInStep'
    <2>1. Len(exchange.observed) \in Nat
      BY <1>1, LenProperties DEF HttpTyped, Exchanges
    <2>2. Cardinality(Ends(exchange.observed)) \in Nat
      BY <1>1, FS_CardinalityType DEF ObserverInStep
    <2>3. exchange'.observed = exchange.observed /\ exchange'.redirects = exchange.redirects
      BY DEF SameTravel
    <2>4. exchange.pc # "finish" /\ exchange'.pc # "finish" /\ exchange'.pc \notin {"validate", "send", "finish"}
      OBVIOUS
    <2> DEFINE m == IF exchange.pc = "finish" THEN 1 ELSE 0
    <2>6. m = 0 /\ Len(exchange.observed) + m >= Len(wire) /\ IsFiniteSet(Ends(exchange.observed))
      BY <1>1, <2>4 DEF ObserverInStep
    <2> HIDE DEF m
    <2>7. Len(exchange.observed) >= Len(wire)
      BY <1>5, <2>1, <2>6
    <2>5. Cardinality(Ends(exchange.observed)) <= exchange.redirects + 1
      BY <1>1, <1>5, <2>2 DEF ObserverInStep
    <2>8. /\ Len(exchange'.observed) + (IF exchange'.pc = "finish" THEN 1 ELSE 0) >= Len(wire')
          /\ IsFiniteSet(Ends(exchange'.observed))
          /\ Cardinality(Ends(exchange'.observed))
               <= exchange'.redirects + (IF exchange'.pc \in {"validate", "send", "finish"} THEN 0 ELSE 1)
      BY <1>5, <2>1, <2>2, <2>3, <2>4, <2>5, <2>6, <2>7
    <2> QED BY <2>8 DEF ObserverInStep
  <1> QED BY <1>2, <1>3, <1>4, <1>7, <1>8 DEF HttpInv

\* An exchange that fails says so and stays where it was.
LEMMA FailIs ==
  ASSUME HttpTyped, NEW kind \in HttpResults, Fail(exchange, kind)
  PROVE  exchange' \in Exchanges /\ SameTravel /\ exchange'.pc = "done"
PROOF BY DEF HttpTyped, Exchanges, Fail, SameTravel

\* The caller reads the response, within its limit or without (TakeResponse, ReadChunk, EndBody).
LEMMA ReadKeeps == HttpInv /\ (TakeResponse \/ ReadChunk \/ EndBody) => HttpInv'
PROOF
  <1> SUFFICES ASSUME HttpInv, TakeResponse \/ ReadChunk \/ EndBody PROVE HttpInv'
    OBVIOUS
  <1>1. HttpTyped /\ UNCHANGED wire
    BY DEF HttpInv, TakeResponse, ReadChunk, EndBody
  <1>2. CASE TakeResponse
    <2>1. PICK h \in HelpersOf(exchange.req) : exchange' = [exchange EXCEPT !.pc = "read", !.helper = h]
      BY <1>2 DEF TakeResponse
    <2>2. h \in Helpers \cup OAuthHelpers
      BY DEF HelpersOf
    <2>3. exchange' \in Exchanges /\ SameTravel /\ exchange'.pc = "read"
      BY <1>1, <2>1, <2>2 DEF HttpTyped, Exchanges, SameTravel
    <2> QED BY <1>1, <1>2, <2>3, OnwardKeeps DEF TakeResponse
  <1>3. CASE ReadChunk
    <2>1. PICK n \in Chunks : \/ Fail(exchange, "tooLarge") \/ exchange' = [exchange EXCEPT !.size = @ + n]
      BY <1>3 DEF ReadChunk
    <2>2. exchange.pc = "read" /\ n \in Nat
      BY <1>3, HttpAssumption DEF ReadChunk
    <2>3. CASE Fail(exchange, "tooLarge")
      BY <1>1, <2>2, <2>3, FailIs, OnwardKeeps DEF HttpResults
    <2>4. CASE exchange' = [exchange EXCEPT !.size = @ + n]
      <3>0. exchange.size + n \in Nat
        BY <1>1, <2>2 DEF HttpTyped, Exchanges
      <3>1. exchange' \in Exchanges /\ SameTravel /\ exchange'.pc = "read"
        BY <1>1, <2>2, <2>4, <3>0 DEF HttpTyped, Exchanges, SameTravel
      <3> QED BY <1>1, <2>2, <3>1, OnwardKeeps
    <2> QED BY <2>1, <2>3, <2>4
  <1>4. CASE EndBody
    <2>1. PICK kind \in {"responseBody", "timeout", "response", "status", "cacheTtl", "decode"} : Fail(exchange, kind)
      BY <1>4 DEF EndBody
    <2>2. kind \in HttpResults /\ exchange.pc = "read"
      BY <1>4 DEF HttpResults, TransportErrors, RetryErrors, EndBody
    <2> QED BY <1>1, <2>1, <2>2, FailIs, OnwardKeeps
  <1> QED BY <1>2, <1>3, <1>4

\* A request is taken: a tenant's is refused or goes to its check first (execute).
LEMMA ExecuteKeeps == ASSUME NEW r \in HttpRequests PROVE HttpInv /\ Execute(r) => HttpInv'
PROOF
  <1> SUFFICES ASSUME HttpInv, Execute(r) PROVE HttpInv'
    OBVIOUS
  <1>1. exchange = IdleExchange /\ wire = <<>> /\ wire' = wire
    BY DEF HttpInv, HttpStarted, Execute
  <1> DEFINE e == [exchange EXCEPT !.req = r, !.url = r.url]
  <1>2. r.url \in Url
    BY DEF HttpRequests, PlainRequests, TenantRequests
  <1>3. /\ e \in Exchanges /\ e.req = r /\ e.url = r.url /\ e.attempt = 0 /\ e.redirects = 0 /\ e.slept = 0
        /\ e.observed = <<>>
    <2>1. IdleExchange \in Exchanges
      BY <1>1 DEF HttpInv, HttpTyped
    <2>2. e \in Exchanges
      BY <1>1, <1>2, <2>1 DEF Exchanges
    <2> QED BY <1>1, <2>2 DEF IdleExchange
  <1>4. \/ exchange' = [e EXCEPT !.pc = "send"] /\ ~r.tenant
        \/ exchange' = [e EXCEPT !.pc = "validate"]
        \/ exchange' = [e EXCEPT !.pc = "done", !.result = "ssrf"]
        \/ exchange' = [e EXCEPT !.pc = "done", !.result = "size"]
    BY DEF Execute, Fail
  <1> HIDE DEF e
  <1>5. /\ exchange' \in Exchanges /\ exchange'.req = r /\ exchange'.url = r.url /\ exchange'.attempt = 0
        /\ exchange'.redirects = 0 /\ exchange'.slept = 0 /\ exchange'.observed = <<>>
        /\ exchange'.pc \in {"send", "validate", "done"} /\ (exchange'.pc = "send" => ~r.tenant)
    BY <1>3, <1>4, ZenonT(60) DEF Exchanges, HttpResults
  <1>6. wire' = <<>> /\ wire' \in Seq(Arrivals) /\ Len(wire') = 0 /\ DOMAIN wire' = {}
    BY <1>1, EmptySeq
  <1>7. HttpTyped' /\ HttpStarted'
    BY <1>2, <1>5, <1>6 DEF HttpTyped, HttpStarted
  <1>8. HostChecked' /\ OnlyCheckedAddresses'
    BY <1>5, <1>6 DEF HostChecked, OnlyCheckedAddresses
  <1>9. HopsInStep'
    BY <1>5, <1>6, RetriesBound, HttpAssumption DEF HopsInStep
  <1>10. TotalsInStep'
    <2>1. HopSends(0) = 0 /\ HopSleeps(0) = 0 /\ 0 * MaxDelay = 0
      BY HttpAssumption DEF HopSends, HopSleeps
    <2> QED BY <1>5, <1>6, <2>1 DEF TotalsInStep, HopAttempts, HopRetries
  <1>11. ObserverInStep'
    <2>1. Ends(exchange'.observed) = {} /\ Len(exchange'.observed) = 0
      BY <1>5, EmptySeq DEF Ends
    <2>2. Cardinality(Ends(exchange'.observed)) = 0 /\ IsFiniteSet(Ends(exchange'.observed))
      BY <2>1, FS_EmptySet
    <2> QED BY <1>5, <1>6, <2>1, <2>2 DEF ObserverInStep
  <1> QED BY <1>7, <1>8, <1>9, <1>10, <1>11 DEF HttpInv

\* The connector of a tenant's client uses only addresses that are allowed (resolve_capped, is_blocked_ip).
LEMMA ConnectIs ==
  ASSUME NEW r, NEW u \in Url, NEW answer \in Answers, NEW a \in ConnectAddresses(r, u, answer)
  PROVE  a \in Reached /\ (r.tenant /\ LiteralAllowed(u.host) => ~IsBlockedIp(a))
PROOF
  <1>1. u.host \in Hosts
    BY DEF Url
  <1>2. PICK n \in 0 .. 2 : answer \in [1 .. n -> Addresses]
    BY DEF Answers
  <1>3. answer \in Seq(Addresses) /\ Len(answer) = n
    BY <1>2
  <1>4. CASE u.host.literal
    <2>1. a = LiteralAddress(u.host)
      BY <1>4 DEF ConnectAddresses
    <2>2. a \in Reached
      BY <1>1, <2>1 DEF Reached
    <2>3. ASSUME LiteralAllowed(u.host) PROVE ~IsBlockedIp(a)
      BY <1>4, <2>1, <2>3 DEF LiteralAllowed, IsBlockedIp, Unwrapped, LiteralAddress, TenantConfig
    <2> QED BY <2>2, <2>3
  <1>5. CASE ~u.host.literal /\ ~r.tenant
    <2>1. a \in {answer[i] : i \in DOMAIN answer}
      BY <1>5 DEF ConnectAddresses
    <2> QED BY <1>2, <1>5, <2>1 DEF Reached
  <1>6. CASE ~u.host.literal /\ r.tenant
    <2> DEFINE m == Min2(TenantConfig.addresses, Len(answer))
               kept == SubSeq(answer, 1, m)
    <2>1. a \in ResolveCapped(answer)
      BY <1>6 DEF ConnectAddresses
    <2>2. (\A i \in DOMAIN kept : ~IsBlockedIp(kept[i])) /\ a \in {kept[i] : i \in DOMAIN kept}
      BY <2>1 DEF ResolveCapped
    <2>3. m \in Int /\ m <= n
      BY <1>3, HttpAssumption DEF Min2, TenantConfig
    <2> HIDE DEF m
    <2>4. \A i \in 1 .. m : answer[i] \in Addresses
      BY <1>2, <2>3
    <2>5. kept \in Seq(Addresses)
      BY <2>3, <2>4, SubSeqProperties
    <2> HIDE DEF kept
    <2>6. a \in Addresses
      BY <2>2, <2>5, ElementOfSeq, LenProperties
    <2> QED BY <2>2, <2>6 DEF Reached
  <1> QED BY <1>4, <1>5, <1>6

\* A tenant's URL is sent to only after it passed the check, at the start of each hop (validate_url).
LEMMA ValidateKeeps == HttpInv /\ Validate => HttpInv'
PROOF
  <1> SUFFICES ASSUME HttpInv, Validate PROVE HttpInv'
    OBVIOUS
  <1>1. /\ HttpTyped /\ HttpStarted /\ HostChecked /\ OnlyCheckedAddresses /\ HopsInStep /\ TotalsInStep /\ ObserverInStep
        /\ exchange.pc = "validate" /\ UNCHANGED wire
    BY DEF HttpInv, Validate
  <1>2. PICK answer \in Answers :
          IF ValidateUrl(exchange.url, answer) THEN exchange' = [exchange EXCEPT !.pc = "send", !.attempt = 0]
          ELSE Fail(exchange, "ssrf")
    BY DEF Validate
  <1>3. CASE ~ValidateUrl(exchange.url, answer)
    <2>1. Fail(exchange, "ssrf") /\ "ssrf" \in HttpResults
      BY <1>2, <1>3 DEF HttpResults
    <2> QED BY <1>1, <2>1, FailIs, OnwardKeeps
  <1>4. CASE ValidateUrl(exchange.url, answer)
    <2>1. /\ exchange' \in Exchanges /\ exchange'.req = exchange.req /\ exchange'.url = exchange.url
          /\ exchange'.attempt = 0 /\ exchange'.redirects = exchange.redirects /\ exchange'.slept = exchange.slept
          /\ exchange'.observed = exchange.observed /\ exchange'.pc = "send"
      <3>1. exchange' = [exchange EXCEPT !.pc = "send", !.attempt = 0]
        BY <1>2, <1>4
      <3> QED BY <1>1, <3>1 DEF HttpTyped, Exchanges
    <2>2. HttpTyped' /\ HttpStarted'
      BY <1>1, <2>1 DEF HttpTyped, HttpStarted
    <2>3. HostChecked' /\ OnlyCheckedAddresses'
      BY <1>1, <1>4, <2>1 DEF HostChecked, OnlyCheckedAddresses, ValidateUrl
    <2>4. HopsInStep'
      BY <1>1, <2>1, RetriesBound DEF HopsInStep
    <2>5. TotalsInStep'
      BY <1>1, <2>1 DEF TotalsInStep, HopAttempts, HopRetries
    <2>6. ObserverInStep'
      BY <1>1, <2>1 DEF ObserverInStep
    <2> QED BY <2>2, <2>3, <2>4, <2>5, <2>6 DEF HttpInv
  <1> QED BY <1>3, <1>4

\* One attempt arrives at most once, in its own hop (SendAttempt).
LEMMA SendKeeps == HttpInv /\ SendAttempt => HttpInv'
PROOF
  <1> SUFFICES ASSUME HttpInv, SendAttempt PROVE HttpInv'
    OBVIOUS
  <1>1. /\ HttpTyped /\ HttpStarted /\ HostChecked /\ OnlyCheckedAddresses /\ HopsInStep /\ TotalsInStep /\ ObserverInStep
        /\ exchange.pc = "send"
    BY DEF HttpInv, SendAttempt
  <1>2. exchange.req \in HttpRequests /\ exchange.url \in Url
    BY <1>1 DEF HttpStarted
  <1>3. /\ \E o \in HttpLasts : exchange' = [exchange EXCEPT !.pc = "finish", !.last = o]
        /\ \/ wire' = wire
           \/ \E answer \in Answers : \E a \in ConnectAddresses(exchange.req, exchange.url, answer) :
                wire' = Append(wire, [address |-> a, host |-> exchange.url.host, hop |-> exchange.redirects])
    BY DEF SendAttempt, HttpLasts, TransportErrors, RetryErrors
  <1>4. exchange' \in Exchanges /\ SameTravel /\ exchange'.pc = "finish"
    BY <1>1, <1>3 DEF HttpTyped, Exchanges, SameTravel
  <1>5. /\ exchange.attempt \in Nat /\ exchange.redirects \in Nat /\ exchange.slept \in Int /\ Len(wire) \in Nat
        /\ DOMAIN wire = 1 .. Len(wire) /\ Len(exchange.observed) \in Nat
    BY <1>1, LenProperties DEF HttpTyped, Exchanges
  <1>6. /\ wire' \in Seq(Arrivals) /\ Len(wire') \in Nat /\ Len(wire') <= Len(wire) + 1 /\ DOMAIN wire' = 1 .. Len(wire')
        /\ Len(wire) <= Len(wire')
        /\ \A i \in DOMAIN wire : wire'[i] = wire[i]
        /\ \A i \in DOMAIN wire' \ DOMAIN wire :
             /\ i = Len(wire) + 1 /\ wire'[i].host = exchange.url.host /\ wire'[i].hop = exchange.redirects
             /\ exchange.req.tenant => ~IsBlockedIp(wire'[i].address)
    <2>1. CASE wire' = wire
      BY <1>1, <1>5, <2>1, LenProperties DEF HttpTyped
    <2>2. CASE \E answer \in Answers : \E a \in ConnectAddresses(exchange.req, exchange.url, answer) :
                 wire' = Append(wire, [address |-> a, host |-> exchange.url.host, hop |-> exchange.redirects])
      <3>1. PICK answer \in Answers : \E a \in ConnectAddresses(exchange.req, exchange.url, answer) :
              wire' = Append(wire, [address |-> a, host |-> exchange.url.host, hop |-> exchange.redirects])
        BY <2>2
      <3>2. PICK a \in ConnectAddresses(exchange.req, exchange.url, answer) :
              wire' = Append(wire, [address |-> a, host |-> exchange.url.host, hop |-> exchange.redirects])
        BY <3>1
      <3>3. a \in Reached /\ (exchange.req.tenant => ~IsBlockedIp(a))
        BY <1>1, <1>2, ConnectIs DEF HostChecked
      <3> DEFINE x == [address |-> a, host |-> exchange.url.host, hop |-> exchange.redirects]
      <3>4. x \in Arrivals /\ x.address = a /\ x.host = exchange.url.host /\ x.hop = exchange.redirects
        BY <1>2, <1>5, <3>3 DEF Arrivals, Url
      <3>5. wire' = Append(wire, x)
        BY <3>2
      <3> HIDE DEF x
      <3>6. /\ wire' \in Seq(Arrivals) /\ Len(wire') = Len(wire) + 1 /\ \A i \in 1 .. Len(wire) : wire'[i] = wire[i]
            /\ wire'[Len(wire) + 1] = x
        BY <1>1, <3>4, <3>5, AppendProperties DEF HttpTyped
      <3>7. DOMAIN wire' = 1 .. Len(wire) + 1
        BY <3>6, LenProperties
      <3>8. ASSUME NEW i \in DOMAIN wire' \ DOMAIN wire PROVE i = Len(wire) + 1
        BY <1>5, <3>7
      <3> QED BY <1>5, <3>3, <3>4, <3>6, <3>7, <3>8
    <2> QED BY <1>3, <2>1, <2>2
  <1>7. HttpTyped' /\ HttpStarted'
    BY <1>2, <1>4, <1>6 DEF HttpTyped, HttpStarted, SameTravel
  <1>8. HostChecked'
    BY <1>1, <1>4 DEF HostChecked, SameTravel
  <1>9. OnlyCheckedAddresses'
    <2> SUFFICES ASSUME exchange.req.tenant, NEW i \in DOMAIN wire'
                 PROVE  ~IsBlockedIp(wire'[i].address) /\ wire'[i].host = exchange.req.url.host /\ MatchAllowlisted(wire'[i].host)
      BY <1>4 DEF OnlyCheckedAddresses, SameTravel
    <2>1. CASE i \in DOMAIN wire
      BY <1>1, <1>6, <2>1 DEF OnlyCheckedAddresses
    <2>2. CASE i \notin DOMAIN wire
      BY <1>1, <1>6, <2>2 DEF HostChecked
    <2> QED BY <2>1, <2>2
  <1>10. HopsInStep'
    <2>1. \A i \in DOMAIN wire' : wire'[i].hop <= exchange.redirects
      BY <1>1, <1>5, <1>6 DEF HopsInStep
    <2>2. ASSUME RetriesOf(exchange.req) = 0, NEW i \in DOMAIN wire', NEW j \in DOMAIN wire', i # j
          PROVE  wire'[i].hop # wire'[j].hop
      <3>1. \A x \in DOMAIN wire : wire[x].hop < exchange.redirects
        BY <1>1, <2>2 DEF HopsInStep
      <3>2. \A x \in DOMAIN wire : wire[x].hop # exchange.redirects
        BY <1>1, <1>5, <3>1, ElementOfSeq DEF HttpTyped, Arrivals
      <3>3. i \in DOMAIN wire \/ j \in DOMAIN wire
        BY <1>6, <2>2
      <3>4. i \in DOMAIN wire /\ j \in DOMAIN wire => wire[i].hop # wire[j].hop
        BY <1>1, <2>2 DEF HopsInStep
      <3> QED BY <1>6, <3>2, <3>3, <3>4
    <2>3. exchange.attempt <= RetriesOf(exchange.req) /\ exchange.redirects <= MaxRedirects
      BY <1>1 DEF HopsInStep
    <2> QED BY <1>4, <2>1, <2>2, <2>3 DEF HopsInStep, SameTravel
  <1>11. TotalsInStep'
    <2>1. HopSends(exchange.redirects) \in Nat
      BY <1>5, HopTypes
    <2>2. Len(wire) <= HopSends(exchange.redirects) + exchange.attempt
      BY <1>1 DEF TotalsInStep, HopAttempts
    <2>3. Len(wire') <= HopSends(exchange.redirects) + (exchange.attempt + 1)
      BY <1>5, <1>6, <2>1, <2>2
    <2>4. exchange.slept <= HopSleeps(exchange.redirects) + exchange.attempt * MaxDelay
      BY <1>1 DEF TotalsInStep, HopRetries
    <2> QED BY <1>4, <2>3, <2>4 DEF TotalsInStep, HopAttempts, HopRetries, SameTravel
  <1>12. ObserverInStep'
    <2>1. exchange'.observed = exchange.observed /\ exchange'.redirects = exchange.redirects
      BY <1>4 DEF SameTravel
    <2> DEFINE m == IF exchange.pc = "finish" THEN 1 ELSE 0
    <2>2. m = 0 /\ Len(exchange.observed) + m >= Len(wire)
      BY <1>1 DEF ObserverInStep
    <2> HIDE DEF m
    <2>3. Len(exchange.observed) + 1 >= Len(wire')
      BY <1>5, <1>6, <2>2
    <2> QED BY <1>1, <1>4, <2>1, <2>3 DEF ObserverInStep
  <1> QED BY <1>7, <1>8, <1>9, <1>10, <1>11, <1>12 DEF HttpInv

\* A redirect starts a hop on the same host, as often as the policy allows (FollowRedirect).
LEMMA RedirectKeeps == HttpInv /\ FollowRedirect => HttpInv'
PROOF
  <1> SUFFICES ASSUME HttpInv, FollowRedirect PROVE HttpInv'
    OBVIOUS
  <1>1. /\ HttpTyped /\ HttpStarted /\ HostChecked /\ OnlyCheckedAddresses /\ HopsInStep /\ TotalsInStep /\ ObserverInStep
        /\ exchange.pc = "redirect" /\ UNCHANGED wire
    BY DEF HttpInv, FollowRedirect
  <1>2. CASE exchange' = [exchange EXCEPT !.pc = "body"]
    <2>1. exchange' \in Exchanges /\ SameTravel /\ exchange'.pc = "body"
      BY <1>1, <1>2 DEF HttpTyped, Exchanges, SameTravel
    <2> QED BY <1>1, <2>1, OnwardKeeps
  <1>3. CASE Fail(exchange, "redirect") \/ Fail(exchange, "invalidUrl")
    BY <1>1, <1>3, FailIs, OnwardKeeps DEF HttpResults
  <1>4. CASE /\ exchange.redirects < MaxRedirects
             /\ \E u \in Url : u.host = exchange.url.host /\
                  exchange' = [exchange EXCEPT !.pc = "validate", !.url = u, !.redirects = @ + 1]
    <2>1. PICK u \in Url : u.host = exchange.url.host /\
            exchange' = [exchange EXCEPT !.pc = "validate", !.url = u, !.redirects = @ + 1]
      BY <1>4
    <2>2. /\ exchange.attempt \in Nat /\ exchange.redirects \in Nat /\ exchange.slept \in Int /\ Len(wire) \in Nat
          /\ Len(exchange.observed) \in Nat
      BY <1>1, LenProperties DEF HttpTyped, Exchanges
    <2>3. /\ exchange' \in Exchanges /\ exchange'.req = exchange.req /\ exchange'.url = u
          /\ exchange'.attempt = exchange.attempt /\ exchange'.redirects = exchange.redirects + 1
          /\ exchange'.slept = exchange.slept /\ exchange'.observed = exchange.observed /\ exchange'.pc = "validate"
      <3>1. exchange.redirects + 1 \in Nat
        BY <2>2
      <3> QED BY <1>1, <2>1, <3>1 DEF HttpTyped, Exchanges
    <2>4. HttpTyped' /\ HttpStarted'
      BY <1>1, <2>3 DEF HttpTyped, HttpStarted
    <2>5. HostChecked' /\ OnlyCheckedAddresses'
      BY <1>1, <2>1, <2>3 DEF HostChecked, OnlyCheckedAddresses
    <2>6. HopsInStep'
      <3>1. \A i \in DOMAIN wire : wire[i].hop \in Nat
        <4> SUFFICES ASSUME NEW i \in DOMAIN wire PROVE wire[i].hop \in Nat
          OBVIOUS
        <4>1. wire[i] \in Arrivals
          BY <1>1, LenProperties, ElementOfSeq DEF HttpTyped
        <4> QED BY <4>1 DEF Arrivals
      <3>2. \A i \in DOMAIN wire : wire[i].hop < exchange.redirects + 1 /\ wire[i].hop <= exchange.redirects + 1
        BY <1>1, <2>2, <3>1 DEF HopsInStep
      <3>3. exchange.redirects + 1 <= MaxRedirects
        BY <1>4, <2>2, HttpAssumption
      <3> QED BY <1>1, <2>3, <3>2, <3>3 DEF HopsInStep
    <2>7. TotalsInStep'
      <3>1. exchange.attempt <= MaxRetries
        BY <1>1, <2>2, RetriesBound DEF HopsInStep
      <3>2. /\ HopSends(exchange.redirects) \in Nat /\ HopSleeps(exchange.redirects) \in Nat
            /\ exchange.attempt * MaxDelay \in Nat
            /\ HopSends(exchange.redirects) + exchange.attempt + 1 <= HopSends(exchange.redirects + 1)
            /\ HopSleeps(exchange.redirects) + exchange.attempt * MaxDelay <= HopSleeps(exchange.redirects + 1)
        BY <2>2, <3>1, HopTotals
      <3>3. HopSends(exchange.redirects + 1) \in Nat /\ HopSleeps(exchange.redirects + 1) \in Nat
        <4>1. exchange.redirects + 1 \in Nat
          BY <2>2
        <4> QED BY <4>1, HopTypes
      <3>4. /\ Len(wire) <= HopSends(exchange.redirects) + (exchange.attempt + 1)
            /\ exchange.slept <= HopSleeps(exchange.redirects) + exchange.attempt * MaxDelay
        BY <1>1 DEF TotalsInStep, HopAttempts, HopRetries
      <3>5. Len(wire) <= HopSends(exchange.redirects + 1) + 0 /\ exchange.slept <= HopSleeps(exchange.redirects + 1) + 0
        BY <2>2, <3>2, <3>3, <3>4, SMTT(30)
      <3>6. 0 * MaxDelay = 0
        BY HttpAssumption
      <3> QED BY <1>1, <2>3, <3>5, <3>6 DEF TotalsInStep, HopAttempts, HopRetries
    <2>8. ObserverInStep'
      <3>1. /\ Len(exchange.observed) + 0 >= Len(wire) /\ IsFiniteSet(Ends(exchange.observed))
            /\ Cardinality(Ends(exchange.observed)) <= exchange.redirects + 1
        BY <1>1 DEF ObserverInStep
      <3>2. Cardinality(Ends(exchange.observed)) <= (exchange.redirects + 1) + 0
        BY <2>2, <3>1
      <3> QED BY <1>1, <2>3, <3>1, <3>2 DEF ObserverInStep
    <2> QED BY <2>4, <2>5, <2>6, <2>7, <2>8 DEF HttpInv
  <1>5. exchange.redirects \in Nat /\ MaxRedirects \in Nat /\ TenantConfig.redirects = MaxRedirects
    BY <1>1, HttpAssumption DEF HttpTyped, Exchanges, TenantConfig
  <1>6. \/ exchange' = [exchange EXCEPT !.pc = "body"] \/ Fail(exchange, "redirect") \/ Fail(exchange, "invalidUrl")
        \/ ~(exchange.redirects >= TenantConfig.redirects) /\
             \E u \in Url : u.host = exchange.url.host /\
               exchange' = [exchange EXCEPT !.pc = "validate", !.url = u, !.redirects = @ + 1]
    BY DEF FollowRedirect
  <1>7. ~(exchange.redirects >= TenantConfig.redirects) => exchange.redirects < MaxRedirects
    BY <1>5
  <1> QED BY <1>2, <1>3, <1>4, <1>6, <1>7

\* Every delay is within the policy's longest (jittered_backoff, retry_delay).
LEMMA DelayBound ==
  ASSUME NEW e \in Exchanges, NEW d \in RetryDelays(e) PROVE d \in Int /\ d <= MaxDelay
PROOF
  <1>1. MaxDelay \in Nat /\ BaseDelay \in Nat /\ RetryConfig.max = MaxDelay /\ RetryConfig.base = BaseDelay
    BY HttpAssumption DEF RetryConfig
  <1>2. ASSUME NEW x \in Int PROVE Min2(x, MaxDelay) \in Int /\ Min2(x, MaxDelay) <= MaxDelay
    BY <1>1 DEF Min2
  <1>3. CASE \E j \in 0 .. BaseDelay : d = BackoffDelay(e.attempt, j)
    <2>1. PICK j \in 0 .. BaseDelay : d = BackoffDelay(e.attempt, j)
      BY <1>3
    <2>2. e.attempt \in Nat
      BY DEF Exchanges
    <2>3. 2 ^ e.attempt \in Int
      BY <2>2
    <2>4. BaseDelay * 2 ^ e.attempt + j \in Int
      BY <1>1, <2>3
    <2> QED BY <1>1, <1>2, <2>1, <2>4 DEF BackoffDelay
  <1>4. CASE \E t \in {0, MaxDelay + 1} : d = Min2(t, MaxDelay)
    BY <1>1, <1>2, <1>4
  <1> QED BY <1>1, <1>3, <1>4 DEF RetryDelays

\* What an observation adds to those that are not retries.
LEMMA EndsGrow ==
  ASSUME NEW s \in Seq(Observations), NEW o \in Observations, IsFiniteSet(Ends(s))
  PROVE  /\ Append(s, o) \in Seq(Observations) /\ Len(Append(s, o)) = Len(s) + 1
         /\ IsFiniteSet(Ends(Append(s, o))) /\ Cardinality(Ends(s)) \in Nat
         /\ Cardinality(Ends(Append(s, o))) = Cardinality(Ends(s)) + (IF o = "retry" THEN 0 ELSE 1)
PROOF
  <1> DEFINE n == Len(s)
             t == Append(s, o)
  <1>1. /\ t \in Seq(Observations) /\ Len(t) = n + 1 /\ (\A i \in 1 .. n : t[i] = s[i]) /\ t[n + 1] = o /\ n \in Nat
    BY AppendProperties, LenProperties
  <1>2. DOMAIN t = 1 .. n + 1 /\ DOMAIN s = 1 .. n
    BY <1>1, LenProperties
  <1>3. Cardinality(Ends(s)) \in Nat
    BY FS_CardinalityType
  <1> HIDE DEF t, n
  <1>4. n + 1 \notin Ends(s) /\ 1 .. n + 1 = 1 .. n \cup {n + 1}
    BY <1>1, <1>2 DEF Ends
  <1>5. CASE o = "retry"
    <2>1. Ends(t) = Ends(s)
      BY <1>1, <1>2, <1>4, <1>5 DEF Ends
    <2> QED BY <1>1, <1>3, <1>5, <2>1 DEF t, n
  <1>6. CASE o # "retry"
    <2>1. Ends(t) = Ends(s) \cup {n + 1}
      BY <1>1, <1>2, <1>4, <1>6 DEF Ends
    <2>2. IsFiniteSet(Ends(t)) /\ Cardinality(Ends(t)) = Cardinality(Ends(s)) + 1
      BY <1>4, <2>1, FS_AddElement
    <2> QED BY <1>1, <1>3, <1>6, <2>2 DEF t, n
  <1> QED BY <1>5, <1>6

\* An attempt is observed once; another one follows within the policy, or the caller is told (FinishAttempt).
LEMMA FinishAttemptKeeps == HttpInv /\ FinishAttempt => HttpInv'
PROOF
  <1> SUFFICES ASSUME HttpInv, FinishAttempt PROVE HttpInv'
    OBVIOUS
  <1>1. /\ HttpTyped /\ HttpStarted /\ HostChecked /\ OnlyCheckedAddresses /\ HopsInStep /\ TotalsInStep /\ ObserverInStep
        /\ exchange.pc = "finish" /\ UNCHANGED wire
    BY DEF HttpInv, FinishAttempt
  <1>2. /\ exchange.attempt \in Nat /\ exchange.redirects \in Nat /\ exchange.slept \in Int /\ Len(wire) \in Nat
        /\ exchange.observed \in Seq(Observations) /\ Len(exchange.observed) \in Nat
    BY <1>1, LenProperties DEF HttpTyped, Exchanges
  <1> DEFINE retrying == exchange.attempt < RetriesOf(exchange.req) /\ exchange.last \in RetryStatuses \cup RetryErrors
             o == ObservedAttempt(exchange.last, retrying)
             e == [exchange EXCEPT !.observed = Append(exchange.observed, o)]
  <1>3. o \in Observations /\ (o = "retry" <=> retrying)
    BY DEF ObservedAttempt, Observations
  <1>4. /\ (IF retrying THEN \E d \in RetryDelays(e) : exchange' = [e EXCEPT !.pc = "send", !.attempt = @ + 1, !.slept = @ + d]
            ELSE IF e.last \in Statuses THEN exchange' = [e EXCEPT !.pc = IF e.req.tenant THEN "redirect" ELSE "body"]
            ELSE Fail(e, e.last))
    BY <1>1 DEF FinishAttempt, HttpTyped, Exchanges
  <1> DEFINE allEvents == Append(exchange.observed, o)
  <1>5. IsFiniteSet(Ends(exchange.observed))
    BY <1>1 DEF ObserverInStep
  <1> HIDE DEF o, retrying
  <1>6. /\ allEvents \in Seq(Observations) /\ Len(allEvents) = Len(exchange.observed) + 1 /\ IsFiniteSet(Ends(allEvents))
        /\ Cardinality(Ends(exchange.observed)) \in Nat
        /\ Cardinality(Ends(allEvents)) = Cardinality(Ends(exchange.observed)) + (IF o = "retry" THEN 0 ELSE 1)
    BY <1>2, <1>3, <1>5, EndsGrow
  <1>7. e = [exchange EXCEPT !.observed = allEvents]
    OBVIOUS
  <1> HIDE DEF allEvents, e
  <1>8. /\ e \in Exchanges /\ e.req = exchange.req /\ e.url = exchange.url /\ e.attempt = exchange.attempt /\ e.last = exchange.last
        /\ e.redirects = exchange.redirects /\ e.slept = exchange.slept /\ e.observed = allEvents
    BY <1>1, <1>6, <1>7 DEF HttpTyped, Exchanges
  <1>9. /\ exchange' \in Exchanges /\ exchange'.req = exchange.req /\ exchange'.url = exchange.url
        /\ exchange'.redirects = exchange.redirects /\ exchange'.observed = allEvents
        /\ \/ /\ retrying /\ exchange'.pc = "send" /\ exchange'.attempt = exchange.attempt + 1
              /\ \E d \in Int : d <= MaxDelay /\ exchange'.slept = exchange.slept + d
           \/ /\ ~retrying /\ exchange'.pc \in {"redirect", "body", "done"} /\ exchange'.attempt = exchange.attempt
              /\ exchange'.slept = exchange.slept
    <2>1. CASE retrying
      <3>1. PICK d \in RetryDelays(e) : exchange' = [e EXCEPT !.pc = "send", !.attempt = @ + 1, !.slept = @ + d]
        BY <1>4, <2>1
      <3>2. d \in Int /\ d <= MaxDelay
        BY <1>8, DelayBound
      <3>3. exchange' = [e EXCEPT !.pc = "send", !.attempt = e.attempt + 1, !.slept = e.slept + d]
        BY <1>8, <3>1 DEF Exchanges
      <3>4. e.attempt + 1 \in Nat /\ e.slept + d \in Int
        BY <1>2, <1>8, <3>2
      <3>5. /\ exchange' \in Exchanges /\ exchange'.req = e.req /\ exchange'.url = e.url
            /\ exchange'.redirects = e.redirects /\ exchange'.observed = e.observed /\ exchange'.pc = "send"
            /\ exchange'.attempt = e.attempt + 1 /\ exchange'.slept = e.slept + d
        BY <1>8, <3>3, <3>4 DEF Exchanges
      <3> QED BY <1>8, <2>1, <3>2, <3>5
    <2>2. CASE ~retrying /\ e.last \in Statuses
      <3>1. PICK pc \in {"redirect", "body"} : exchange' = [e EXCEPT !.pc = pc]
        BY <1>4, <2>2
      <3> QED BY <1>8, <2>2, <3>1 DEF Exchanges
    <2>3. CASE ~retrying /\ e.last \notin Statuses
      <3>1. exchange' = [e EXCEPT !.pc = "done", !.result = e.last]
        BY <1>4, <2>3 DEF Fail
      <3>2. e.last \in HttpResults
        BY <1>8, <2>3 DEF Exchanges, HttpLasts, HttpResults
      <3> QED BY <1>8, <2>3, <3>1, <3>2 DEF Exchanges
    <2> QED BY <2>1, <2>2, <2>3
  <1>10. HttpTyped' /\ HttpStarted'
    BY <1>1, <1>9 DEF HttpTyped, HttpStarted
  <1>11. HostChecked' /\ OnlyCheckedAddresses'
    BY <1>1, <1>9 DEF HostChecked, OnlyCheckedAddresses
  <1>12. retrying => exchange.attempt + 1 <= RetriesOf(exchange.req) /\ RetriesOf(exchange.req) # 0
    BY <1>2, RetriesBound DEF retrying
  <1>13. HopsInStep'
    BY <1>1, <1>9, <1>12 DEF HopsInStep
  <1>14. TotalsInStep'
    <2>1. exchange.attempt <= MaxRetries
      BY <1>1, <1>2, RetriesBound DEF HopsInStep
    <2>2. /\ HopSends(exchange.redirects) \in Nat /\ HopSleeps(exchange.redirects) \in Nat /\ exchange.attempt * MaxDelay \in Nat
          /\ (exchange.attempt + 1) * MaxDelay = exchange.attempt * MaxDelay + MaxDelay
      BY <1>2, <2>1, HopTotals
    <2>3. /\ Len(wire) <= HopSends(exchange.redirects) + (exchange.attempt + 1)
          /\ exchange.slept <= HopSleeps(exchange.redirects) + exchange.attempt * MaxDelay
      BY <1>1 DEF TotalsInStep, HopAttempts, HopRetries
    <2>4. CASE retrying
      <3>1. PICK d \in Int : d <= MaxDelay /\ exchange'.slept = exchange.slept + d
        BY <1>9, <2>4
      <3>2. exchange'.slept <= HopSleeps(exchange.redirects) + (exchange.attempt + 1) * MaxDelay
        <4> DEFINE q == exchange.attempt * MaxDelay
                   w == (exchange.attempt + 1) * MaxDelay
        <4>1. q \in Nat /\ w = q + MaxDelay /\ MaxDelay \in Nat /\ exchange.slept <= HopSleeps(exchange.redirects) + q
          BY <2>2, <2>3, HttpAssumption
        <4> HIDE DEF q, w
        <4>2. exchange'.slept <= HopSleeps(exchange.redirects) + w
          BY <1>2, <2>2, <3>1, <4>1
        <4> QED BY <4>2 DEF w
      <3> QED BY <1>1, <1>9, <2>3, <2>4, <3>2 DEF TotalsInStep, HopAttempts, HopRetries
    <2>5. CASE ~retrying
      BY <1>1, <1>9, <2>3, <2>5 DEF TotalsInStep, HopAttempts, HopRetries
    <2> QED BY <2>4, <2>5
  <1>15. ObserverInStep'
    <2>1. Len(exchange.observed) + 1 >= Len(wire) /\ Cardinality(Ends(exchange.observed)) <= exchange.redirects + 0
      BY <1>1 DEF ObserverInStep
    <2>2. Len(allEvents) + 0 >= Len(wire)
      BY <1>2, <1>6, <2>1
    <2>3. CASE retrying
      <3>1. Cardinality(Ends(allEvents)) <= exchange.redirects + 0
        BY <1>3, <1>6, <2>1, <2>3
      <3> QED BY <1>1, <1>6, <1>9, <2>2, <2>3, <3>1 DEF ObserverInStep
    <2>4. CASE ~retrying
      <3>1. Cardinality(Ends(allEvents)) <= exchange.redirects + 1
        BY <1>2, <1>3, <1>6, <2>1, <2>4
      <3> QED BY <1>1, <1>6, <1>9, <2>2, <2>4, <3>1 DEF ObserverInStep
    <2> QED BY <2>3, <2>4
  <1> QED BY <1>10, <1>11, <1>13, <1>14, <1>15 DEF HttpInv

\* Every step of the exchange keeps the invariant.
LEMMA HttpStep == HttpInv /\ [HttpNext]_httpVars => HttpInv'
PROOF
  <1> SUFFICES ASSUME HttpInv, [HttpNext]_httpVars PROVE HttpInv'
    OBVIOUS
  <1>1. CASE UNCHANGED httpVars
    BY <1>1 DEF httpVars, HttpInv, HttpTyped, HttpStarted, HostChecked, OnlyCheckedAddresses, HopsInStep, TotalsInStep,
       ObserverInStep, HopAttempts, HopRetries
  <1>2. CASE \E r \in PlainRequests \cup TenantRequests : Execute(r)
    BY <1>2, ExecuteKeeps DEF HttpRequests
  <1>3. CASE Validate \/ SendAttempt \/ FinishAttempt \/ FollowRedirect \/ TakeResponse \/ ReadChunk \/ EndBody
    BY <1>3, ValidateKeeps, SendKeeps, FinishAttemptKeeps, RedirectKeeps, ReadKeeps
  <1> QED BY <1>1, <1>2, <1>3 DEF HttpNext

\* For every policy, every answer of the name service and every outcome of the
\* attempts: a tenant's request only reaches allowed addresses of its own
\* host, and no request is repeated, slept for or observed beyond its policy
\* (execute, connect, retry_delay).
THEOREM ExchangesWithinPolicy == HttpSpec => []ExchangeWithinPolicy
PROOF
  <1>1. HttpInv => ExchangeWithinPolicy
    <2> SUFFICES ASSUME HttpInv PROVE ExchangeWithinPolicy
      OBVIOUS
    <2>1. HttpTyped /\ HttpStarted /\ OnlyCheckedAddresses /\ HopsInStep /\ TotalsInStep /\ ObserverInStep
      BY DEF HttpInv
    <2>2. /\ exchange.attempt \in Nat /\ exchange.redirects \in Nat /\ exchange.slept \in Int /\ Len(wire) \in Nat
          /\ Len(exchange.observed) \in Nat
      BY <2>1, LenProperties DEF HttpTyped, Exchanges
    <2>3. exchange.attempt <= MaxRetries /\ exchange.redirects <= MaxRedirects
      <3>1. CASE exchange.pc = "idle"
        <4>1. exchange = IdleExchange
          BY <2>1, <3>1 DEF HttpStarted
        <4>2. exchange.attempt = 0 /\ exchange.redirects = 0
          BY <4>1 DEF IdleExchange
        <4> QED BY <4>2, HttpAssumption
      <3>2. CASE exchange.pc # "idle"
        BY <2>1, <2>2, <3>2, RetriesBound DEF HopsInStep
      <3> QED BY <3>1, <3>2
    <2>4. \A i, j \in DOMAIN wire : i # j /\ ~(RetryNonIdempotent \/ Idempotent(exchange.req)) => wire[i].hop # wire[j].hop
      <3>1. CASE exchange.pc = "idle"
        BY <2>1, <3>1 DEF HttpStarted
      <3>2. CASE exchange.pc # "idle"
        BY <2>1, <3>2, RetriesBound DEF HopsInStep
      <3> QED BY <3>1, <3>2
    <2>5. /\ Len(wire) <= HopSends(exchange.redirects) + (exchange.attempt + 1)
          /\ exchange.slept <= HopSleeps(exchange.redirects) + exchange.attempt * MaxDelay
      <3>1. HopSends(exchange.redirects) \in Nat /\ HopSleeps(exchange.redirects) \in Nat /\ exchange.attempt * MaxDelay \in Nat
        BY <2>2, <2>3, HopTotals
      <3>2. HopAttempts(exchange) \in Nat /\ HopAttempts(exchange) <= exchange.attempt + 1
        BY <2>2 DEF HopAttempts
      <3>3. HopRetries(exchange) * MaxDelay \in Nat /\ HopRetries(exchange) * MaxDelay <= exchange.attempt * MaxDelay
        BY <2>2, <3>1, HttpAssumption DEF HopRetries
      <3>4. /\ Len(wire) <= HopSends(exchange.redirects) + HopAttempts(exchange)
            /\ exchange.slept <= HopSleeps(exchange.redirects) + HopRetries(exchange) * MaxDelay
        BY <2>1 DEF TotalsInStep
      <3> QED BY <2>2, <3>1, <3>2, <3>3, <3>4
    <2>6. Len(wire) <= (MaxRetries + 1) * (MaxRedirects + 1) /\ exchange.slept <= MaxRetries * (MaxRedirects + 1) * MaxDelay
      <3>1. /\ HopSends(exchange.redirects) \in Nat /\ HopSleeps(exchange.redirects) \in Nat /\ exchange.attempt * MaxDelay \in Nat
            /\ HopSends(exchange.redirects) + exchange.attempt + 1 <= HopSends(exchange.redirects + 1)
            /\ HopSleeps(exchange.redirects) + exchange.attempt * MaxDelay <= HopSleeps(exchange.redirects + 1)
        BY <2>2, <2>3, HopTotals
      <3>2. HopSends(exchange.redirects + 1) \in Nat /\ HopSleeps(exchange.redirects + 1) \in Nat
        <4>1. exchange.redirects + 1 \in Nat
          BY <2>2
        <4> QED BY <4>1, HopTypes
      <3>3. Len(wire) <= HopSends(exchange.redirects + 1) /\ exchange.slept <= HopSleeps(exchange.redirects + 1)
        BY <2>2, <2>5, <3>1, <3>2, SMTT(30)
      <3> DEFINE p == (MaxRetries + 1) * (MaxRedirects + 1)
                 q == MaxRetries * (MaxRedirects + 1) * MaxDelay
      <3>4. HopSends(exchange.redirects + 1) <= p /\ HopSleeps(exchange.redirects + 1) <= q
        BY <2>2, <2>3, PolicyTotals
      <3>5. p \in Nat /\ q \in Nat
        BY HttpAssumption
      <3> HIDE DEF p, q
      <3>6. Len(wire) <= p /\ exchange.slept <= q
        BY <2>2, <3>2, <3>3, <3>4, <3>5
      <3> QED BY <3>6 DEF p, q
    <2>7. exchange.pc # "finish" => Len(exchange.observed) >= Len(wire)
      <3>1. exchange.pc # "finish" => Len(exchange.observed) + 0 >= Len(wire)
        BY <2>1 DEF ObserverInStep
      <3> QED BY <2>2, <3>1
    <2>8. exchange.pc = "done" => Cardinality(Ends(exchange.observed)) <= exchange.redirects + 1
      BY <2>1 DEF ObserverInStep
    <2>9. RepeatsWithinPolicy
      BY <2>4, <2>6, <2>7, <2>8 DEF RepeatsWithinPolicy, Ends
    <2> QED BY <2>1, <2>9 DEF ExchangeWithinPolicy
  <1> QED BY <1>1, HttpStarts, HttpStep, PTL DEF HttpSpec

-----------------------------------------------------------------------------
(* The gauges                                                              *)

GaugesSpec == GaugesInit /\ [][GaugesNext]_gaugeVars

ObserverRecords ==
  [st : {"unborn", "live", "dropped"}, mode : Modes, modeRev : Nat, items : {0, 1}, unknown : BOOLEAN, bufferRev : Nat,
   terminal : BOOLEAN]
WriterEvents == [rev : Nat, kind : {"mode"}, to : Modes] \cup [rev : Nat, kind : {"empty", "some", "failed"}, to : {"buffer"}]

\* What an observer stands for in a gauge, and the gauges it should make up.
Counts(ob, k) ==
  /\ ob.st = "live"
  /\ \/ k \in Modes /\ ob.mode = k
     \/ k = "unknown" /\ ob.unknown
     \/ k = "items" /\ ob.items = 1
Counted(k) == {o \in Observers : Counts(observer[o], k)}
Wanted == [k \in GaugeKeys |-> Cardinality(Counted(k))]

\* The set of keys has no room; a cached handle is real exactly for a key in
\* the set, and is a no-op only when the set was full.
FullKeys(keys) == ~(Cardinality(keys) < MaxMetricKeys)
HandlesOk(cache, keys) == \A k \in DOMAIN cache : cache[k] = (k \in keys) /\ (k \notin keys => FullKeys(keys))

\* A gauge shows what it should, or nothing when its key found no room.
ValuesOk(values, keys, wanted) ==
  /\ values \in [GaugeKeys -> Int] /\ keys \subseteq GaugeKeys
  /\ \A k \in GaugeKeys : values[k] = (IF k \in keys THEN wanted[k] ELSE 0) /\ (k \notin keys /\ wanted[k] # 0 => FullKeys(keys))

GaugesTyped ==
  /\ observer \in [Observers -> ObserverRecords] /\ DOMAIN handles = GaugeThreads
  /\ DOMAIN emitted = Observers /\ DOMAIN seenRevs = Observers
  /\ \A o \in Observers : /\ DOMAIN emitted[o] = {"count", "pending"} /\ emitted[o].count \in Nat
                          /\ emitted[o].pending \subseteq WriterEvents /\ seenRevs[o] \subseteq WriterEvents
                          /\ observer[o].st = "unborn" => observer[o] = UnbornObserver
RevisionsSeen ==
  \A o \in Observers : \A e \in seenRevs[o] :
    IF e.kind = "mode" THEN e.rev <= observer[o].modeRev ELSE e.rev <= observer[o].bufferRev
GaugesOk == ValuesOk(gauge, metricKeys, Wanted) /\ \A th \in GaugeThreads : HandlesOk(handles[th], metricKeys)

GaugesInv == GaugesTyped /\ RevisionsSeen /\ GaugesOk

\* The names of the gauges differ.
LEMMA GaugeNames ==
  /\ Modes \subseteq GaugeKeys /\ "items" \in GaugeKeys /\ "unknown" \in GaugeKeys
  /\ "items" \notin Modes /\ "unknown" \notin Modes /\ "buffered" \in Modes
  /\ \A k \in GaugeKeys : k \in Modes \/ k = "items" \/ k = "unknown"
PROOF BY DEF GaugeKeys, Modes

\* Keys are only added, and none once the set is full (allow_metric_key).
KeysGrow(old, new) == old \subseteq new /\ (FullKeys(old) => new = old)

\* A handle that was cached stays right when keys are added.
LEMMA HandlesKeep ==
  ASSUME NEW cache, NEW old, NEW new, HandlesOk(cache, old), KeysGrow(old, new) PROVE HandlesOk(cache, new)
PROOF
  <1> SUFFICES ASSUME NEW k \in DOMAIN cache PROVE cache[k] = (k \in new) /\ (k \notin new => FullKeys(new))
    BY DEF HandlesOk
  <1>1. cache[k] = (k \in old) /\ (k \notin old => FullKeys(old))
    BY DEF HandlesOk
  <1>2. CASE k \in old
    BY <1>1, <1>2 DEF KeysGrow
  <1>3. CASE k \notin old
    <2>1. new = old
      BY <1>1, <1>3 DEF KeysGrow
    <2> QED BY <1>1, <2>1
  <1> QED BY <1>2, <1>3

\* The registry, the handles of a thread and the gauges, as one update sees them.
FacadeOk(s, wanted) ==
  /\ s = [keys |-> s.keys, cache |-> s.cache, values |-> s.values]
  /\ ValuesOk(s.values, s.keys, wanted) /\ HandlesOk(s.cache, s.keys)

\* A key that is asked for is let in while there is room (allow_metric_key).
LEMMA AllowIs ==
  ASSUME NEW keys, NEW k
  PROVE  /\ KeysGrow(keys, AllowKey(keys, k)) /\ AllowKey(keys, k) \subseteq keys \cup {k}
         /\ k \notin AllowKey(keys, k) => FullKeys(keys) /\ AllowKey(keys, k) = keys
         /\ k \in AllowKey(keys, k) /\ k \notin keys => ~FullKeys(keys)
PROOF
  <1>1. CASE k \in keys
    <2>1. AllowKey(keys, k) = keys
      BY <1>1 DEF AllowKey
    <2> QED BY <1>1, <2>1 DEF KeysGrow
  <1>2. CASE k \notin keys /\ FullKeys(keys)
    <2>1. AllowKey(keys, k) = keys
      BY <1>2 DEF AllowKey, FullKeys
    <2> QED BY <1>2, <2>1 DEF KeysGrow
  <1>3. CASE k \notin keys /\ ~FullKeys(keys)
    <2>1. AllowKey(keys, k) = keys \cup {k}
      BY <1>3 DEF AllowKey, FullKeys
    <2> QED BY <1>3, <2>1 DEF KeysGrow
  <1> QED BY <1>1, <1>2, <1>3

\* One difference added through a handle: the gauge follows what it should show,
\* whether the handle was cached, evicted or refused (gauge_handle).
LEMMA AddGaugeKeeps ==
  ASSUME NEW s, NEW wanted \in [GaugeKeys -> Int], FacadeOk(s, wanted), NEW k \in GaugeKeys, NEW d \in Int
  PROVE  /\ FacadeOk(AddGauge(s, k, d), [wanted EXCEPT ![k] = @ + d]) /\ KeysGrow(s.keys, AddGauge(s, k, d).keys)
         /\ [wanted EXCEPT ![k] = @ + d] \in [GaugeKeys -> Int]
PROOF
  <1> DEFINE keys == s.keys
             values == s.values
             cache == s.cache
             more == [wanted EXCEPT ![k] = @ + d]
             t == AddGauge(s, k, d)
  <1>1. s = [keys |-> keys, cache |-> cache, values |-> values] /\ ValuesOk(values, keys, wanted) /\ HandlesOk(cache, keys)
    BY DEF FacadeOk
  <1>2. /\ values \in [GaugeKeys -> Int] /\ keys \subseteq GaugeKeys
        /\ \A x \in GaugeKeys : values[x] = (IF x \in keys THEN wanted[x] ELSE 0) /\ (x \notin keys /\ wanted[x] # 0 => FullKeys(keys))
    BY <1>1 DEF ValuesOk
  <1>3. more \in [GaugeKeys -> Int] /\ more[k] = wanted[k] + d /\ \A x \in GaugeKeys \ {k} : more[x] = wanted[x]
    OBVIOUS
  <1>4. CASE k \in DOMAIN cache
    <2> DEFINE new == [values EXCEPT ![k] = IF cache[k] THEN @ + d ELSE @]
    <2>1. t = [keys |-> keys, cache |-> cache, values |-> new]
      BY <1>1, <1>4 DEF AddGauge
    <2>2. cache[k] = (k \in keys) /\ (k \notin keys => FullKeys(keys))
      BY <1>1, <1>4 DEF HandlesOk
    <2>3. /\ new \in [GaugeKeys -> Int] /\ new[k] = (IF k \in keys THEN values[k] + d ELSE values[k])
          /\ \A x \in GaugeKeys \ {k} : new[x] = values[x]
      <3> DEFINE v == IF cache[k] THEN values[k] + d ELSE values[k]
      <3> HIDE DEF keys, values, cache
      <3>0. cache[k] <=> k \in keys
        BY <2>2
      <3>1. v \in Int /\ v = (IF k \in keys THEN values[k] + d ELSE values[k])
        BY <1>2, <3>0
      <3>2. new = [values EXCEPT ![k] = v]
        OBVIOUS
      <3> HIDE DEF new, v
      <3> QED BY <1>2, <3>1, <3>2
    <2> HIDE DEF new, more, t, keys, values, cache
    <2>4. ValuesOk(new, keys, more)
      BY <1>2, <1>3, <2>2, <2>3 DEF ValuesOk
    <2>5. t.keys = keys /\ t.cache = cache /\ t.values = new
      BY <2>1
    <2>6. FacadeOk(t, more)
      BY <1>1, <2>1, <2>4, <2>5 DEF FacadeOk
    <2>7. KeysGrow(keys, t.keys)
      BY <2>5 DEF KeysGrow
    <2> QED BY <1>3, <2>6, <2>7 DEF t, more, keys
  <1>5. CASE k \notin DOMAIN cache
    <2> DEFINE all == AllowKey(keys, k)
               held == CacheHandle(cache, k, k \in all)
               new == IF k \in all THEN [values EXCEPT ![k] = @ + d] ELSE values
    <2>1. t = [keys |-> all, cache |-> held, values |-> new]
      BY <1>5 DEF AddGauge
    <2>2. /\ KeysGrow(keys, all) /\ all \subseteq keys \cup {k}
          /\ k \notin all => FullKeys(keys) /\ all = keys
          /\ k \in all /\ k \notin keys => ~FullKeys(keys)
      BY AllowIs
    <2>3. \A x \in DOMAIN held : IF x = k THEN held[x] = (k \in all) ELSE x \in DOMAIN cache /\ held[x] = cache[x]
      BY DEF CacheHandle
    <2>4. /\ new \in [GaugeKeys -> Int] /\ new[k] = (IF k \in all THEN values[k] + d ELSE values[k])
          /\ \A x \in GaugeKeys \ {k} : new[x] = values[x]
      BY <1>2
    <2>5. HandlesOk(cache, all)
      BY <1>1, <2>2, HandlesKeep
    <2> HIDE DEF new, more, t, keys, values, cache, all, held
    <2>6. HandlesOk(held, all)
      BY <2>2, <2>3, <2>5 DEF HandlesOk
    <2>7. all \subseteq GaugeKeys
      BY <1>2, <2>2
    <2>8. ASSUME NEW x \in GaugeKeys
          PROVE  new[x] = (IF x \in all THEN more[x] ELSE 0) /\ (x \notin all /\ more[x] # 0 => FullKeys(all))
      <3>1. values[x] = (IF x \in keys THEN wanted[x] ELSE 0) /\ (x \notin keys /\ wanted[x] # 0 => FullKeys(keys))
        BY <1>2
      <3>2. CASE x # k
        <4>1. x \in all <=> x \in keys
          BY <2>2, <3>2 DEF KeysGrow
        <4>2. FullKeys(keys) => FullKeys(all)
          BY <2>2 DEF KeysGrow
        <4> QED BY <1>3, <2>4, <3>1, <3>2, <4>1, <4>2
      <3>3. CASE x = k /\ k \notin all
        <4>1. k \notin keys /\ FullKeys(all)
          BY <2>2, <3>3
        <4> QED BY <2>4, <3>1, <3>3, <4>1
      <3>4. CASE x = k /\ k \in all /\ k \in keys
        BY <1>3, <2>4, <3>1, <3>4
      <3>5. CASE x = k /\ k \in all /\ k \notin keys
        <4>1. wanted[k] = 0 /\ values[k] = 0
          BY <2>2, <3>1, <3>5
        <4> QED BY <1>3, <2>4, <3>5, <4>1
      <3> QED BY <3>2, <3>3, <3>4, <3>5
    <2>9. ValuesOk(new, all, more)
      BY <2>4, <2>7, <2>8 DEF ValuesOk
    <2>10. t.keys = all /\ t.cache = held /\ t.values = new
      BY <2>1
    <2>11. FacadeOk(t, more)
      BY <2>1, <2>6, <2>9, <2>10 DEF FacadeOk
    <2>12. KeysGrow(keys, t.keys)
      BY <2>2, <2>10
    <2> QED BY <1>3, <2>11, <2>12 DEF t, more, keys
  <1> QED BY <1>4, <1>5

\* An update that a thread publishes: its own handles and the shared set and gauges.
LEMMA PublishKeeps ==
  ASSUME GaugesTyped, GaugesOk, NEW th \in GaugeThreads, NEW s, NEW wanted, FacadeOk(s, wanted), KeysGrow(metricKeys, s.keys),
         PublishGauges(th, s), Wanted' = wanted
  PROVE  GaugesOk' /\ DOMAIN handles' = GaugeThreads
PROOF
  <1>1. metricKeys' = s.keys /\ gauge' = s.values /\ handles' = [handles EXCEPT ![th] = s.cache]
    BY DEF PublishGauges
  <1>2. DOMAIN handles' = GaugeThreads /\ handles'[th] = s.cache /\ \A x \in GaugeThreads \ {th} : handles'[x] = handles[x]
    BY <1>1 DEF GaugesTyped
  <1>3. ValuesOk(gauge', metricKeys', Wanted') /\ HandlesOk(handles'[th], metricKeys')
    BY <1>1, <1>2 DEF FacadeOk
  <1>4. ASSUME NEW x \in GaugeThreads \ {th} PROVE HandlesOk(handles'[x], metricKeys')
    <2>1. HandlesOk(handles[x], metricKeys)
      BY DEF GaugesOk
    <2>2. HandlesOk(handles[x], s.keys)
      BY <2>1, HandlesKeep
    <2> QED BY <1>1, <1>2, <2>2
  <1>5. \A x \in GaugeThreads : HandlesOk(handles'[x], metricKeys')
    BY <1>3, <1>4
  <1> QED BY <1>2, <1>3, <1>5 DEF GaugesOk

\* The set of keys, the handles and the gauges a thread starts from.
LEMMA FacadeIs ==
  ASSUME GaugesTyped, GaugesOk, NEW th \in GaugeThreads
  PROVE  FacadeOk(Facade(th), Wanted) /\ Facade(th).keys = metricKeys
PROOF
  <1>1. Facade(th).keys = metricKeys /\ Facade(th).cache = handles[th] /\ Facade(th).values = gauge
    BY DEF Facade
  <1>2. ValuesOk(gauge, metricKeys, Wanted) /\ HandlesOk(handles[th], metricKeys)
    BY DEF GaugesOk
  <1> QED BY <1>1, <1>2 DEF FacadeOk, Facade

\* What the gauges should show is counted by integers.
LEMMA WantedTyped == Wanted \in [GaugeKeys -> Int] /\ \A k \in GaugeKeys : IsFiniteSet(Counted(k))
PROOF
  <1>1. ASSUME NEW k \in GaugeKeys PROVE IsFiniteSet(Counted(k)) /\ Cardinality(Counted(k)) \in Int
    <2>1. Counted(k) \in SUBSET Observers
      BY DEF Counted
    <2>2. IsFiniteSet(Counted(k))
      BY <2>1, GaugesAssumption, FS_Subset
    <2> QED BY <2>2, FS_CardinalityType
  <1> QED BY <1>1 DEF Wanted

\* An observer that changes moves each gauge by the difference of what it stands for.
LEMMA WantedMoves ==
  ASSUME NEW o \in Observers, \A x \in Observers \ {o} : observer'[x] = observer[x], NEW k \in GaugeKeys
  PROVE  Wanted'[k] = Wanted[k] + Flag(Counts(observer'[o], k)) - Flag(Counts(observer[o], k))
PROOF
  <1> DEFINE S == Counted(k)
             T == Counted(k)'
             b == Counts(observer[o], k)
             c == Counts(observer'[o], k)
  <1>1. IsFiniteSet(S) /\ Cardinality(S) \in Nat
    BY WantedTyped, FS_CardinalityType
  <1>2. Wanted[k] = Cardinality(S) /\ Wanted'[k] = Cardinality(T)
    BY DEF Wanted
  <1>3. T = {x \in Observers : Counts(observer'[x], k)} /\ S = {x \in Observers : Counts(observer[x], k)}
    BY DEF Counted
  <1>4. (o \in S <=> b) /\ (o \in T <=> c) /\ S \ {o} = T \ {o}
    BY <1>3
  <1> HIDE DEF S, T, b, c
  <1>5. Flag(b) = (IF b THEN 1 ELSE 0) /\ Flag(c) = (IF c THEN 1 ELSE 0)
    BY DEF Flag
  <1>6. CASE b <=> c
    <2>1. S = T
      BY <1>4, <1>6
    <2>2. Wanted'[k] = Wanted[k] + Flag(c) - Flag(b)
      BY <1>1, <1>2, <1>5, <1>6, <2>1
    <2> QED BY <2>2 DEF b, c
  <1>7. CASE ~b /\ c
    <2>1. T = S \cup {o} /\ o \notin S
      BY <1>4, <1>7
    <2>2. Cardinality(T) = Cardinality(S) + 1
      BY <1>1, <2>1, FS_AddElement
    <2>3. Wanted'[k] = Wanted[k] + Flag(c) - Flag(b)
      BY <1>1, <1>2, <1>5, <1>7, <2>2
    <2> QED BY <2>3 DEF b, c
  <1>8. CASE b /\ ~c
    <2>1. T = S \ {o} /\ o \in S
      BY <1>4, <1>8
    <2>2. Cardinality(T) = Cardinality(S) - 1
      BY <1>1, <2>1, FS_RemoveElement
    <2>3. Wanted'[k] = Wanted[k] + Flag(c) - Flag(b)
      BY <1>1, <1>2, <1>5, <1>8, <2>2
    <2> QED BY <2>3 DEF b, c
  <1> QED BY <1>6, <1>7, <1>8

\* Keys added in two updates are keys added.
LEMMA KeysGrowOn ==
  ASSUME NEW old, NEW mid, NEW new, KeysGrow(old, mid), KeysGrow(mid, new) PROVE KeysGrow(old, new)
PROOF
  <1>1. CASE FullKeys(old)
    BY <1>1 DEF KeysGrow
  <1>2. CASE ~FullKeys(old)
    BY <1>2 DEF KeysGrow
  <1> QED BY <1>1, <1>2

\* Two gauges moved by one thread, each by what the observers changed it.
LEMMA TwoGauges ==
  ASSUME GaugesTyped, GaugesOk, NEW th \in GaugeThreads, NEW k1 \in GaugeKeys, NEW k2 \in GaugeKeys, k1 # k2,
         NEW d1 \in Int, NEW d2 \in Int,
         PublishGauges(th, AddGauge(AddGauge(Facade(th), k1, d1), k2, d2)),
         Wanted'[k1] = Wanted[k1] + d1, Wanted'[k2] = Wanted[k2] + d2,
         \A k \in GaugeKeys \ {k1, k2} : Wanted'[k] = Wanted[k]
  PROVE  GaugesOk' /\ DOMAIN handles' = GaugeThreads
PROOF
  <1> DEFINE f0 == Facade(th)
             f1 == AddGauge(f0, k1, d1)
             f2 == AddGauge(f1, k2, d2)
             w1 == [Wanted EXCEPT ![k1] = @ + d1]
             w2 == [w1 EXCEPT ![k2] = @ + d2]
  <1>0. Wanted \in [GaugeKeys -> Int]
    BY WantedTyped
  <1>1. FacadeOk(f0, Wanted) /\ f0.keys = metricKeys
    BY FacadeIs
  <1>2. FacadeOk(f1, w1) /\ KeysGrow(f0.keys, f1.keys) /\ w1 \in [GaugeKeys -> Int]
    <2> HIDE DEF f0
    <2> QED BY <1>0, <1>1, AddGaugeKeeps
  <1>3. FacadeOk(f2, w2) /\ KeysGrow(f1.keys, f2.keys) /\ w2 \in [GaugeKeys -> Int]
    <2> HIDE DEF f1, w1
    <2> QED BY <1>2, AddGaugeKeeps
  <1>4. w1[k1] = Wanted[k1] + d1 /\ \A k \in GaugeKeys \ {k1} : w1[k] = Wanted[k]
    BY <1>0
  <1>5. w2[k2] = w1[k2] + d2 /\ \A k \in GaugeKeys \ {k2} : w2[k] = w1[k]
    <2> HIDE DEF w1
    <2> QED BY <1>2
  <1>6. PublishGauges(th, f2)
    OBVIOUS
  <1> HIDE DEF f0, f1, f2, w1, w2
  <1>7. \A k \in GaugeKeys : Wanted'[k] = w2[k]
    BY <1>4, <1>5
  <1>8. Wanted' = [k \in GaugeKeys |-> Wanted'[k]]
    BY DEF Wanted
  <1>9. w2 = [k \in GaugeKeys |-> w2[k]]
    BY <1>3
  <1>10. Wanted' = w2
    BY <1>7, <1>8, <1>9
  <1>11. KeysGrow(metricKeys, f2.keys)
    BY <1>1, <1>2, <1>3, KeysGrowOn
  <1> QED BY <1>3, <1>6, <1>10, <1>11, PublishKeeps

\* The same of three gauges.
LEMMA ThreeGauges ==
  ASSUME GaugesTyped, GaugesOk, NEW th \in GaugeThreads, NEW k1 \in GaugeKeys, NEW k2 \in GaugeKeys, NEW k3 \in GaugeKeys,
         k1 # k2, k1 # k3, k2 # k3, NEW d1 \in Int, NEW d2 \in Int, NEW d3 \in Int,
         PublishGauges(th, AddGauge(AddGauge(AddGauge(Facade(th), k1, d1), k2, d2), k3, d3)),
         Wanted'[k1] = Wanted[k1] + d1, Wanted'[k2] = Wanted[k2] + d2, Wanted'[k3] = Wanted[k3] + d3,
         \A k \in GaugeKeys \ {k1, k2, k3} : Wanted'[k] = Wanted[k]
  PROVE  GaugesOk' /\ DOMAIN handles' = GaugeThreads
PROOF
  <1> DEFINE f0 == Facade(th)
             f1 == AddGauge(f0, k1, d1)
             f2 == AddGauge(f1, k2, d2)
             f3 == AddGauge(f2, k3, d3)
             w1 == [Wanted EXCEPT ![k1] = @ + d1]
             w2 == [w1 EXCEPT ![k2] = @ + d2]
             w3 == [w2 EXCEPT ![k3] = @ + d3]
  <1>0. Wanted \in [GaugeKeys -> Int]
    BY WantedTyped
  <1>1. FacadeOk(f0, Wanted) /\ f0.keys = metricKeys
    BY FacadeIs
  <1>2. FacadeOk(f1, w1) /\ KeysGrow(f0.keys, f1.keys) /\ w1 \in [GaugeKeys -> Int]
    <2> HIDE DEF f0
    <2> QED BY <1>0, <1>1, AddGaugeKeeps
  <1>3. FacadeOk(f2, w2) /\ KeysGrow(f1.keys, f2.keys) /\ w2 \in [GaugeKeys -> Int]
    <2> HIDE DEF f1, w1
    <2> QED BY <1>2, AddGaugeKeeps
  <1>4. FacadeOk(f3, w3) /\ KeysGrow(f2.keys, f3.keys) /\ w3 \in [GaugeKeys -> Int]
    <2> HIDE DEF f2, w2
    <2> QED BY <1>3, AddGaugeKeeps
  <1>5. w1[k1] = Wanted[k1] + d1 /\ \A k \in GaugeKeys \ {k1} : w1[k] = Wanted[k]
    BY <1>0
  <1>6. w2[k2] = w1[k2] + d2 /\ \A k \in GaugeKeys \ {k2} : w2[k] = w1[k]
    <2> HIDE DEF w1
    <2> QED BY <1>2
  <1>7. w3[k3] = w2[k3] + d3 /\ \A k \in GaugeKeys \ {k3} : w3[k] = w2[k]
    <2> HIDE DEF w2
    <2> QED BY <1>3
  <1>8. PublishGauges(th, f3)
    OBVIOUS
  <1> HIDE DEF f0, f1, f2, f3, w1, w2, w3
  <1>9. \A k \in GaugeKeys : Wanted'[k] = w3[k]
    BY <1>5, <1>6, <1>7
  <1>10. Wanted' = [k \in GaugeKeys |-> Wanted'[k]]
    BY DEF Wanted
  <1>11. w3 = [k \in GaugeKeys |-> w3[k]]
    BY <1>4
  <1>12. Wanted' = w3
    BY <1>9, <1>10, <1>11
  <1>13. KeysGrow(metricKeys, f3.keys)
    BY <1>1, <1>2, <1>3, <1>4, KeysGrowOn
  <1> QED BY <1>4, <1>8, <1>12, <1>13, PublishKeeps

\* A thread that publishes nothing leaves the gauges right while the observers stand for the same.
LEMMA NoGauges ==
  ASSUME GaugesTyped, GaugesOk, UNCHANGED <<metricKeys, handles, gauge>>, \A k \in GaugeKeys : Wanted'[k] = Wanted[k]
  PROVE  GaugesOk' /\ DOMAIN handles' = GaugeThreads
PROOF
  <1>1. Wanted' = [k \in GaugeKeys |-> Wanted'[k]] /\ Wanted = [k \in GaugeKeys |-> Wanted[k]]
    BY DEF Wanted
  <1>2. Wanted' = Wanted
    BY <1>1
  <1>3. GaugesOk'
    BY <1>2 DEF GaugesOk
  <1> QED BY <1>3 DEF GaugesTyped

\* What an observer of each kind stands for.
LEMMA CountsIs ==
  ASSUME NEW ob \in ObserverRecords
  PROVE  /\ \A k \in Modes : Counts(ob, k) <=> ob.st = "live" /\ ob.mode = k
         /\ Counts(ob, "unknown") <=> ob.st = "live" /\ ob.unknown
         /\ Counts(ob, "items") <=> ob.st = "live" /\ ob.items = 1
         /\ ob.mode \in Modes /\ ob.items \in {0, 1} /\ ob.unknown \in BOOLEAN
PROOF BY DEF Counts, ObserverRecords, Modes

\* The observers stay typed when one of them changes and nothing is emitted or seen.
LEMMA ObserverSet ==
  ASSUME GaugesTyped, RevisionsSeen, NEW o \in Observers, NEW r \in ObserverRecords, observer' = [observer EXCEPT ![o] = r],
         r.st # "unborn", r.modeRev = observer[o].modeRev, r.bufferRev = observer[o].bufferRev,
         UNCHANGED <<emitted, seenRevs>>, DOMAIN handles' = GaugeThreads
  PROVE  GaugesTyped' /\ RevisionsSeen'
PROOF
  <1>1. /\ observer' \in [Observers -> ObserverRecords] /\ observer'[o] = r
        /\ \A x \in Observers \ {o} : observer'[x] = observer[x]
    BY DEF GaugesTyped
  <1>2. GaugesTyped'
    BY <1>1 DEF GaugesTyped
  <1>3. RevisionsSeen'
    BY <1>1 DEF RevisionsSeen
  <1> QED BY <1>2, <1>3

\* The initial states: no observer, and nothing in any gauge.
LEMMA GaugesStarts == GaugesInit => GaugesInv
PROOF
  <1> SUFFICES ASSUME GaugesInit PROVE GaugesInv
    OBVIOUS
  <1>1. \A o \in Observers : observer[o] = UnbornObserver /\ emitted[o] = [count |-> 0, pending |-> {}] /\ seenRevs[o] = {}
    BY DEF GaugesInit
  <1>2. UnbornObserver \in ObserverRecords
    BY DEF UnbornObserver, ObserverRecords, Modes
  <1>3. observer \in [Observers -> ObserverRecords]
    BY <1>2 DEF GaugesInit
  <1>4. GaugesTyped
    BY <1>1, <1>3 DEF GaugesInit, GaugesTyped
  <1>5. RevisionsSeen
    BY <1>1 DEF RevisionsSeen
  <1>6. ASSUME NEW k \in GaugeKeys PROVE Wanted[k] = 0
    <2>1. Counted(k) = {}
      BY <1>1 DEF Counted, Counts, UnbornObserver
    <2> QED BY <2>1, FS_EmptySet DEF Wanted
  <1>7. ValuesOk(gauge, metricKeys, Wanted)
    <2>1. gauge = [k \in GaugeKeys |-> 0] /\ metricKeys = {}
      BY DEF GaugesInit
    <2>2. gauge \in [GaugeKeys -> Int] /\ \A k \in GaugeKeys : gauge[k] = 0
      BY <2>1
    <2> QED BY <1>6, <2>1, <2>2 DEF ValuesOk
  <1>8. \A th \in GaugeThreads : HandlesOk(handles[th], metricKeys)
    BY DEF GaugesInit, NoCache, HandlesOk
  <1> QED BY <1>4, <1>5, <1>7, <1>8 DEF GaugesInv, GaugesOk

\* An observer is made: the gauge of its mode and the unknown one go up.
LEMMA NewObserverSafe ==
  ASSUME GaugesInv, NEW th \in GaugeThreads, NEW o \in Observers, NewObserver(th, o) PROVE GaugesInv'
PROOF
  <1> DEFINE r == [observer[o] EXCEPT !.st = "live"]
  <1>1. observer[o] = UnbornObserver /\ observer \in [Observers -> ObserverRecords]
    BY DEF GaugesInv, GaugesTyped, NewObserver
  <1>2. r \in ObserverRecords /\ r.st = "live" /\ r.mode = "buffered" /\ r.items = 0 /\ r.unknown = TRUE
        /\ r.modeRev = observer[o].modeRev /\ r.bufferRev = observer[o].bufferRev
    <2> DEFINE ob == observer[o]
    <2>0. ob.mode = "buffered" /\ ob.items = 0 /\ ob.unknown = TRUE
      BY <1>1 DEF UnbornObserver
    <2>1. ob \in ObserverRecords
      BY <1>1
    <2>2. r = [ob EXCEPT !.st = "live"]
      OBVIOUS
    <2> HIDE DEF ob, r
    <2>3. /\ r \in ObserverRecords /\ r.st = "live" /\ r.mode = ob.mode /\ r.items = ob.items /\ r.unknown = ob.unknown
          /\ r.modeRev = ob.modeRev /\ r.bufferRev = ob.bufferRev
      BY <2>1, <2>2 DEF ObserverRecords
    <2> QED BY <2>0, <2>3 DEF ob
  <1>3. observer' = [observer EXCEPT ![o] = r]
    BY DEF NewObserver
  <1> HIDE DEF r
  <1>4. observer'[o] = r /\ \A x \in Observers \ {o} : observer'[x] = observer[x]
    BY <1>1, <1>3
  <1>5. \A k \in GaugeKeys : Wanted'[k] = Wanted[k] + Flag(Counts(r, k)) - Flag(Counts(observer[o], k))
    BY <1>4, WantedMoves
  <1>6. \A k \in GaugeKeys : ~Counts(observer[o], k)
    BY <1>1 DEF Counts, UnbornObserver
  <1>7. /\ Counts(r, "buffered") /\ Counts(r, "unknown")
        /\ \A k \in GaugeKeys \ {"buffered", "unknown"} : ~Counts(r, k)
    BY <1>2, CountsIs, GaugeNames
  <1>8. \A k \in GaugeKeys : Wanted[k] \in Int
    BY WantedTyped
  <1>9. /\ Wanted'["buffered"] = Wanted["buffered"] + 1 /\ Wanted'["unknown"] = Wanted["unknown"] + 1
        /\ \A k \in GaugeKeys \ {"buffered", "unknown"} : Wanted'[k] = Wanted[k]
    BY <1>5, <1>6, <1>7, <1>8, GaugeNames DEF Flag
  <1>10. PublishGauges(th, AddGauge(AddGauge(Facade(th), "buffered", 1), "unknown", 1)) /\ UNCHANGED <<emitted, seenRevs>>
    BY DEF NewObserver
  <1>11. GaugesOk' /\ DOMAIN handles' = GaugeThreads
    BY <1>9, <1>10, TwoGauges, GaugeNames DEF GaugesInv
  <1>12. GaugesTyped' /\ RevisionsSeen'
    BY <1>2, <1>3, <1>10, <1>11, ObserverSet DEF GaugesInv
  <1> QED BY <1>11, <1>12 DEF GaugesInv

\* An observer goes: it takes back all it stands for.
LEMMA DropObserverSafe ==
  ASSUME GaugesInv, NEW th \in GaugeThreads, NEW o \in Observers, DropObserver(th, o) PROVE GaugesInv'
PROOF
  <1> DEFINE ob == observer[o]
             r == [observer[o] EXCEPT !.st = "dropped"]
             m == observer[o].mode
             d == -observer[o].items
             u == -Flag(observer[o].unknown)
  <1>1. ob \in ObserverRecords /\ observer \in [Observers -> ObserverRecords] /\ ob.st = "live"
    BY DEF GaugesInv, GaugesTyped, DropObserver
  <1>2. r \in ObserverRecords /\ r.st = "dropped" /\ r.modeRev = ob.modeRev /\ r.bufferRev = ob.bufferRev
    BY <1>1 DEF ObserverRecords
  <1>3. observer' = [observer EXCEPT ![o] = r]
    BY DEF DropObserver
  <1>4. m \in Modes /\ ob.items \in {0, 1} /\ ob.unknown \in BOOLEAN
    BY <1>1, CountsIs
  <1>5. d \in Int /\ d = -Flag(Counts(ob, "items")) /\ u \in Int /\ u = -Flag(Counts(ob, "unknown"))
    <2> HIDE DEF ob
    <2>1. (Counts(ob, "items") <=> ob.items = 1) /\ (Counts(ob, "unknown") <=> ob.unknown)
      BY <1>1, CountsIs
    <2>2. d = -ob.items /\ u = -Flag(ob.unknown)
      BY DEF ob
    <2> HIDE DEF d, u
    <2> QED BY <1>4, <2>1, <2>2 DEF Flag
  <1>6. PublishGauges(th, AddGauge(AddGauge(AddGauge(Facade(th), m, -1), "items", d), "unknown", u)) /\ UNCHANGED <<emitted, seenRevs>>
    BY DEF DropObserver
  <1> HIDE DEF r, m, d, u
  <1>7. observer'[o] = r /\ \A x \in Observers \ {o} : observer'[x] = observer[x]
    BY <1>1, <1>3
  <1>8. \A k \in GaugeKeys : Wanted'[k] = Wanted[k] + Flag(Counts(r, k)) - Flag(Counts(ob, k))
    BY <1>7, WantedMoves
  <1>9. \A k \in GaugeKeys : ~Counts(r, k) /\ (k \in Modes => (Counts(ob, k) <=> k = m))
    BY <1>1, <1>2 DEF Counts, m, GaugeKeys, Modes
  <1> HIDE DEF ob
  <1>10. \A k \in GaugeKeys : Wanted[k] \in Int
    BY WantedTyped
  <1>11. /\ Wanted'[m] = Wanted[m] + (-1) /\ Wanted'["items"] = Wanted["items"] + d /\ Wanted'["unknown"] = Wanted["unknown"] + u
         /\ \A k \in GaugeKeys \ {m, "items", "unknown"} : Wanted'[k] = Wanted[k]
    <2>1. Wanted'[m] = Wanted[m] + (-1)
      BY <1>4, <1>8, <1>9, <1>10, GaugeNames DEF Flag
    <2>2. Wanted'["items"] = Wanted["items"] + d /\ Wanted'["unknown"] = Wanted["unknown"] + u
      BY <1>5, <1>8, <1>9, <1>10, GaugeNames DEF Flag
    <2>3. \A k \in GaugeKeys \ {m, "items", "unknown"} : Wanted'[k] = Wanted[k]
      BY <1>8, <1>9, <1>10, GaugeNames DEF Flag
    <2> QED BY <2>1, <2>2, <2>3
  <1>12. GaugesOk' /\ DOMAIN handles' = GaugeThreads
    BY <1>4, <1>5, <1>6, <1>11, ThreeGauges, GaugeNames DEF GaugesInv
  <1>13. GaugesTyped' /\ RevisionsSeen'
    BY <1>2, <1>3, <1>6, <1>12, ObserverSet DEF GaugesInv, ob
  <1> QED BY <1>12, <1>13 DEF GaugesInv

\* replace_sample moves the gauges by the difference between the two samples.
LEMMA SampleReplaced ==
  ASSUME GaugesTyped, GaugesOk, NEW th \in GaugeThreads, NEW o \in Observers, NEW r \in ObserverRecords,
         observer' = [observer EXCEPT ![o] = r], observer[o].st = "live", r.st = "live", r.mode = observer[o].mode,
         ReplaceSample(th, o, r.items, r.unknown)
  PROVE  GaugesOk' /\ DOMAIN handles' = GaugeThreads
PROOF
  <1> DEFINE ob == observer[o]
             d == r.items - observer[o].items
             u == Flag(r.unknown) - Flag(observer[o].unknown)
  <1>1. ob \in ObserverRecords /\ observer \in [Observers -> ObserverRecords]
    BY DEF GaugesTyped
  <1>2. PublishGauges(th, AddGauge(AddGauge(Facade(th), "items", d), "unknown", u))
    BY DEF ReplaceSample
  <1>3. observer'[o] = r /\ \A x \in Observers \ {o} : observer'[x] = observer[x]
    BY <1>1
  <1>4. \A k \in GaugeKeys : Wanted'[k] = Wanted[k] + Flag(Counts(r, k)) - Flag(Counts(ob, k))
    BY <1>3, WantedMoves
  <1>5. d = r.items - ob.items /\ u = Flag(r.unknown) - Flag(ob.unknown) /\ ob.st = "live" /\ r.mode = ob.mode
    OBVIOUS
  <1> HIDE DEF ob, d, u
  <1>6. /\ Counts(ob, "items") <=> ob.items = 1
        /\ Counts(ob, "unknown") <=> ob.unknown
        /\ Counts(r, "items") <=> r.items = 1
        /\ Counts(r, "unknown") <=> r.unknown
        /\ {ob.items, r.items} \subseteq {0, 1} /\ {ob.unknown, r.unknown} \subseteq BOOLEAN
        /\ \A k \in Modes : Counts(ob, k) <=> Counts(r, k)
    BY <1>1, <1>5, CountsIs
  <1>7. d \in Int /\ d = Flag(Counts(r, "items")) - Flag(Counts(ob, "items"))
    BY <1>5, <1>6 DEF Flag
  <1>8. u \in Int /\ u = Flag(Counts(r, "unknown")) - Flag(Counts(ob, "unknown"))
    BY <1>5, <1>6 DEF Flag
  <1>9. \A k \in GaugeKeys : Wanted[k] \in Int
    BY WantedTyped
  <1>10. \A k \in GaugeKeys : Flag(Counts(r, k)) \in Int /\ Flag(Counts(ob, k)) \in Int
    BY DEF Flag
  <1>11. Wanted'["items"] = Wanted["items"] + d /\ Wanted'["unknown"] = Wanted["unknown"] + u
    BY <1>4, <1>7, <1>8, <1>9, <1>10, GaugeNames
  <1>12. \A k \in GaugeKeys \ {"items", "unknown"} : Wanted'[k] = Wanted[k]
    BY <1>4, <1>6, <1>9, GaugeNames DEF Flag
  <1> QED BY <1>2, <1>7, <1>8, <1>11, <1>12, TwoGauges, GaugeNames

\* The drain's report settles the last sample of the buffer.
LEMMA FinishDrainSafe ==
  ASSUME GaugesInv, NEW th \in GaugeThreads, NEW o \in Observers, FinishDrain(th, o) PROVE GaugesInv'
PROOF
  <1>1. PICK clean \in BOOLEAN, unknown \in BOOLEAN :
          LET items == IF clean THEN 0 ELSE observer[o].items
          IN /\ observer' = [observer EXCEPT ![o].terminal = TRUE, ![o].items = items, ![o].unknown = unknown]
             /\ ReplaceSample(th, o, items, unknown)
    BY DEF FinishDrain
  <1> DEFINE ob == observer[o]
             items == IF clean THEN 0 ELSE observer[o].items
             r == [observer[o] EXCEPT !.terminal = TRUE, !.items = items, !.unknown = unknown]
  <1>2. ob \in ObserverRecords /\ ob.st = "live" /\ UNCHANGED <<emitted, seenRevs>>
    BY DEF GaugesInv, GaugesTyped, FinishDrain
  <1>3. observer' = [observer EXCEPT ![o] = r] /\ ReplaceSample(th, o, items, unknown)
    BY <1>1
  <1>4. items \in {0, 1}
    BY <1>2, CountsIs
  <1>5. r = [ob EXCEPT !.terminal = TRUE, !.items = items, !.unknown = unknown]
    OBVIOUS
  <1> HIDE DEF ob, items, r
  <1>6. /\ r \in ObserverRecords /\ r.st = "live" /\ r.mode = ob.mode /\ r.items = items /\ r.unknown = unknown
        /\ r.modeRev = ob.modeRev /\ r.bufferRev = ob.bufferRev
    BY <1>2, <1>4, <1>5 DEF ObserverRecords
  <1>7. GaugesOk' /\ DOMAIN handles' = GaugeThreads
    BY <1>2, <1>3, <1>6, SampleReplaced DEF GaugesInv, ob
  <1>8. GaugesTyped' /\ RevisionsSeen'
    BY <1>2, <1>3, <1>6, <1>7, ObserverSet DEF GaugesInv, ob
  <1> QED BY <1>7, <1>8 DEF GaugesInv

\* An emitted event waits for a thread to deliver it.
LEMMA EmitEventSafe ==
  ASSUME GaugesInv, NEW o \in Observers, EmitEvent(o) PROVE GaugesInv'
PROOF
  <1>1. PICK e \in [kind : {"mode"}, to : Modes] \cup [kind : {"empty", "some", "failed"}, to : {"buffer"}] :
          emitted' = [emitted EXCEPT ![o] = [count |-> @.count + 1,
                                             pending |-> @.pending \cup {[rev |-> @.count + 1, kind |-> e.kind, to |-> e.to]}]]
    BY DEF EmitEvent
  <1> DEFINE n == emitted[o].count + 1
             ev == [rev |-> n, kind |-> e.kind, to |-> e.to]
  <1>2. UNCHANGED <<metricKeys, handles, gauge, observer, seenRevs>>
    BY DEF EmitEvent
  <1>3. emitted[o].count \in Nat /\ n \in Nat /\ DOMAIN emitted = Observers
    BY DEF GaugesInv, GaugesTyped
  <1>4. ev \in WriterEvents
    <2> HIDE DEF n
    <2> QED BY <1>3 DEF WriterEvents
  <1>5. /\ DOMAIN emitted' = Observers /\ emitted'[o] = [count |-> n, pending |-> emitted[o].pending \cup {ev}]
        /\ \A x \in Observers \ {o} : emitted'[x] = emitted[x]
    BY <1>1, <1>3
  <1> HIDE DEF n, ev
  <1>6. GaugesTyped'
    <2>1. /\ DOMAIN emitted'[o] = {"count", "pending"} /\ emitted'[o].count \in Nat /\ emitted'[o].pending \subseteq WriterEvents
      BY <1>3, <1>4, <1>5 DEF GaugesInv, GaugesTyped
    <2> QED BY <1>2, <1>5, <2>1 DEF GaugesInv, GaugesTyped
  <1>7. RevisionsSeen'
    BY <1>2 DEF GaugesInv, RevisionsSeen
  <1>8. Wanted' = Wanted
    BY <1>2 DEF Wanted, Counted
  <1>9. GaugesOk'
    BY <1>2, <1>8, NoGauges DEF GaugesInv
  <1> QED BY <1>6, <1>7, <1>9 DEF GaugesInv

\* A delivered event leaves the observer typed, and no newer event behind it.
LEMMA EventTaken ==
  ASSUME GaugesTyped, RevisionsSeen, NEW o \in Observers, NEW e \in emitted[o].pending, NEW r \in ObserverRecords,
         observer[o].st = "live", r.st = "live",
         observer' = [observer EXCEPT ![o] = r], emitted' = [emitted EXCEPT ![o].pending = @ \ {e}],
         seenRevs' = [seenRevs EXCEPT ![o] = IF observer[o].terminal /\ e.kind # "mode" THEN @ ELSE @ \cup {e}],
         observer[o].modeRev <= r.modeRev, observer[o].bufferRev <= r.bufferRev,
         e.kind = "mode" => e.rev <= r.modeRev, e.kind # "mode" /\ ~observer[o].terminal => e.rev <= r.bufferRev,
         DOMAIN handles' = GaugeThreads
  PROVE  GaugesTyped' /\ RevisionsSeen'
PROOF
  <1> DEFINE more == IF observer[o].terminal /\ e.kind # "mode" THEN seenRevs[o] ELSE seenRevs[o] \cup {e}
  <1>1. /\ observer' \in [Observers -> ObserverRecords] /\ observer'[o] = r
        /\ \A x \in Observers \ {o} : observer'[x] = observer[x]
    BY DEF GaugesTyped
  <1>2. DOMAIN emitted = Observers /\ DOMAIN seenRevs = Observers /\ DOMAIN emitted[o] = {"count", "pending"}
    BY DEF GaugesTyped
  <1>3. DOMAIN seenRevs' = Observers /\ seenRevs'[o] = more /\ \A x \in Observers \ {o} : seenRevs'[x] = seenRevs[x]
    BY <1>2
  <1>4. /\ DOMAIN emitted' = Observers /\ emitted'[o] = [emitted[o] EXCEPT !.pending = @ \ {e}]
        /\ \A x \in Observers \ {o} : emitted'[x] = emitted[x]
    BY <1>2
  <1>5. /\ DOMAIN emitted'[o] = {"count", "pending"} /\ emitted'[o].count = emitted[o].count
        /\ emitted'[o].pending = emitted[o].pending \ {e}
    BY <1>2, <1>4
  <1>6. e \in WriterEvents /\ seenRevs[o] \subseteq WriterEvents /\ emitted[o].count \in Nat /\ emitted[o].pending \subseteq WriterEvents
    BY DEF GaugesTyped
  <1>7. more \subseteq WriterEvents
    BY <1>6
  <1>8. \A x \in more : x \in seenRevs[o] \/ (x = e /\ (e.kind # "mode" => ~observer[o].terminal))
    OBVIOUS
  <1> HIDE DEF more
  <1>9. GaugesTyped'
    <2>1. \A x \in Observers \ {o} :
            /\ DOMAIN emitted'[x] = {"count", "pending"} /\ emitted'[x].count \in Nat
            /\ emitted'[x].pending \subseteq WriterEvents /\ seenRevs'[x] \subseteq WriterEvents
            /\ observer'[x].st = "unborn" => observer'[x] = UnbornObserver
      BY <1>1, <1>3, <1>4 DEF GaugesTyped
    <2>2. /\ DOMAIN emitted'[o] = {"count", "pending"} /\ emitted'[o].count \in Nat
          /\ emitted'[o].pending \subseteq WriterEvents /\ seenRevs'[o] \subseteq WriterEvents /\ observer'[o].st # "unborn"
      BY <1>1, <1>3, <1>5, <1>6, <1>7
    <2> QED BY <1>1, <1>3, <1>4, <2>1, <2>2 DEF GaugesTyped
  <1>10. RevisionsSeen'
    <2>1. ASSUME NEW x \in more PROVE IF x.kind = "mode" THEN x.rev <= r.modeRev ELSE x.rev <= r.bufferRev
      <3>1. CASE x = e /\ (e.kind # "mode" => ~observer[o].terminal)
        BY <3>1
      <3>2. CASE x \in seenRevs[o]
        <4>1. IF x.kind = "mode" THEN x.rev <= observer[o].modeRev ELSE x.rev <= observer[o].bufferRev
          BY <3>2 DEF RevisionsSeen
        <4>2. x.rev \in Nat
          BY <1>7 DEF WriterEvents
        <4>3. {observer[o].modeRev, observer[o].bufferRev, r.modeRev, r.bufferRev} \subseteq Nat
          BY DEF GaugesTyped, ObserverRecords
        <4> QED BY <4>1, <4>2, <4>3
      <3> QED BY <1>8, <3>1, <3>2
    <2>2. \A x \in Observers \ {o} : \A y \in seenRevs'[x] :
            IF y.kind = "mode" THEN y.rev <= observer'[x].modeRev ELSE y.rev <= observer'[x].bufferRev
      BY <1>1, <1>3 DEF RevisionsSeen
    <2> QED BY <1>1, <1>3, <2>1, <2>2 DEF RevisionsSeen
  <1> QED BY <1>9, <1>10

\* A mode event moves the observer from one mode's gauge to another's, if it is newer.
LEMMA ObserveModeSafe ==
  ASSUME GaugesInv, NEW th \in GaugeThreads, NEW o \in Observers, NEW e \in emitted[o].pending, observer[o].st = "live",
         e.kind = "mode", ObserveMode(th, o, e), emitted' = [emitted EXCEPT ![o].pending = @ \ {e}],
         seenRevs' = [seenRevs EXCEPT ![o] = IF observer[o].terminal /\ e.kind # "mode" THEN @ ELSE @ \cup {e}]
  PROVE  GaugesInv'
PROOF
  <1> DEFINE ob == observer[o]
  <1>1. ob \in ObserverRecords /\ e \in WriterEvents /\ observer \in [Observers -> ObserverRecords]
    BY DEF GaugesInv, GaugesTyped
  <1>2. e.rev \in Nat /\ e.to \in Modes /\ ob.modeRev \in Nat /\ ob.bufferRev \in Nat
    BY <1>1 DEF WriterEvents, ObserverRecords
  <1>3. CASE Later(e.rev, ob.modeRev)
    <2> DEFINE r == [ob EXCEPT !.modeRev = e.rev, !.mode = e.to]
    <2>1. observer' = [observer EXCEPT ![o] = r]
      BY <1>3 DEF ObserveMode
    <2>2. IF e.to = ob.mode THEN UNCHANGED <<metricKeys, handles, gauge>>
          ELSE PublishGauges(th, AddGauge(AddGauge(Facade(th), ob.mode, -1), e.to, 1))
      BY <1>3 DEF ObserveMode
    <2>3. ob.modeRev <= e.rev
      BY <1>2, <1>3 DEF Later
    <2>4. ob.st = "live" /\ observer[o] = ob
      OBVIOUS
    <2> HIDE DEF ob
    <2>5. /\ r \in ObserverRecords /\ r.st = "live" /\ r.mode = e.to /\ r.items = ob.items /\ r.unknown = ob.unknown
          /\ r.modeRev = e.rev /\ r.bufferRev = ob.bufferRev
      BY <1>1, <1>2, <2>4 DEF ObserverRecords
    <2> HIDE DEF r
    <2>6. observer'[o] = r /\ \A x \in Observers \ {o} : observer'[x] = observer[x]
      BY <1>1, <2>1
    <2>7. \A k \in GaugeKeys : Wanted'[k] = Wanted[k] + Flag(Counts(r, k)) - Flag(Counts(ob, k))
      BY <2>4, <2>6, WantedMoves
    <2>8. /\ \A k \in Modes : (Counts(ob, k) <=> k = ob.mode) /\ (Counts(r, k) <=> k = e.to)
          /\ Counts(r, "items") <=> Counts(ob, "items")
          /\ Counts(r, "unknown") <=> Counts(ob, "unknown")
          /\ ob.mode \in Modes
      BY <1>1, <2>4, <2>5, CountsIs
    <2>9. \A k \in GaugeKeys : Wanted[k] \in Int
      BY WantedTyped
    <2>10. GaugesOk' /\ DOMAIN handles' = GaugeThreads
      <3>1. CASE e.to = ob.mode
        <4>1. \A k \in GaugeKeys : Counts(r, k) <=> Counts(ob, k)
          BY <2>8, <3>1, GaugeNames
        <4>2. \A k \in GaugeKeys : Wanted'[k] = Wanted[k]
          BY <2>7, <2>9, <4>1 DEF Flag
        <4> QED BY <2>2, <3>1, <4>2, NoGauges DEF GaugesInv
      <3>2. CASE e.to # ob.mode
        <4>1. Wanted'[ob.mode] = Wanted[ob.mode] + (-1)
          BY <1>2, <2>7, <2>8, <2>9, <3>2, GaugeNames DEF Flag
        <4>2. Wanted'[e.to] = Wanted[e.to] + 1
          BY <1>2, <2>7, <2>8, <2>9, <3>2, GaugeNames DEF Flag
        <4>3. \A k \in GaugeKeys \ {ob.mode, e.to} : Counts(r, k) <=> Counts(ob, k)
          BY <2>8, GaugeNames
        <4>4. \A k \in GaugeKeys \ {ob.mode, e.to} : Wanted'[k] = Wanted[k]
          BY <2>7, <2>9, <4>3 DEF Flag
        <4> QED BY <1>2, <2>2, <2>8, <3>2, <4>1, <4>2, <4>4, TwoGauges, GaugeNames DEF GaugesInv
      <3> QED BY <3>1, <3>2
    <2>11. /\ observer[o].modeRev <= r.modeRev /\ observer[o].bufferRev <= r.bufferRev /\ e.rev <= r.modeRev
      BY <1>2, <2>3, <2>4, <2>5
    <2>12. GaugesTyped' /\ RevisionsSeen'
      BY <2>1, <2>5, <2>10, <2>11, EventTaken DEF GaugesInv
    <2> QED BY <2>10, <2>12 DEF GaugesInv
  <1>4. CASE ~Later(e.rev, ob.modeRev)
    <2>1. UNCHANGED <<observer, metricKeys, handles, gauge>>
      BY <1>4 DEF ObserveMode
    <2>2. observer' = [observer EXCEPT ![o] = ob]
      BY <1>1, <2>1
    <2>3. Wanted' = Wanted
      BY <2>1 DEF Wanted, Counted
    <2>4. GaugesOk' /\ DOMAIN handles' = GaugeThreads
      BY <2>1, <2>3, NoGauges DEF GaugesInv
    <2>5. e.rev <= ob.modeRev
      BY <1>2, <1>4 DEF Later
    <2>6. observer[o].modeRev <= ob.modeRev /\ observer[o].bufferRev <= ob.bufferRev /\ observer[o] = ob /\ ob.st = "live"
      BY <1>2
    <2> HIDE DEF ob
    <2>7. GaugesTyped' /\ RevisionsSeen'
      BY <1>1, <2>2, <2>4, <2>5, <2>6, EventTaken DEF GaugesInv
    <2> QED BY <2>4, <2>7 DEF GaugesInv
  <1> QED BY <1>3, <1>4

\* A sample of the buffer replaces the last one, if it is newer and the drain has not ended.
LEMMA ObserveBufferSafe ==
  ASSUME GaugesInv, NEW th \in GaugeThreads, NEW o \in Observers, NEW e \in emitted[o].pending, observer[o].st = "live",
         e.kind # "mode", ObserveBuffer(th, o, e), emitted' = [emitted EXCEPT ![o].pending = @ \ {e}],
         seenRevs' = [seenRevs EXCEPT ![o] = IF observer[o].terminal /\ e.kind # "mode" THEN @ ELSE @ \cup {e}]
  PROVE  GaugesInv'
PROOF
  <1> DEFINE ob == observer[o]
  <1>1. ob \in ObserverRecords /\ e \in WriterEvents /\ observer \in [Observers -> ObserverRecords]
    BY DEF GaugesInv, GaugesTyped
  <1>2. e.rev \in Nat /\ e.kind \in {"empty", "some", "failed"} /\ ob.modeRev \in Nat /\ ob.bufferRev \in Nat /\ ob.items \in {0, 1}
    BY <1>1 DEF WriterEvents, ObserverRecords
  <1>3. CASE ~ob.terminal /\ Later(e.rev, ob.bufferRev)
    <2> DEFINE items == CASE e.kind = "failed" -> observer[o].items [] e.kind = "some" -> 1 [] e.kind = "empty" -> 0
               unknown == (e.kind = "failed")
               r == [ob EXCEPT !.bufferRev = e.rev, !.items = items, !.unknown = unknown]
    <2>1. observer' = [observer EXCEPT ![o] = r] /\ ReplaceSample(th, o, items, unknown)
      BY <1>3 DEF ObserveBuffer
    <2>2. items \in {0, 1} /\ unknown \in BOOLEAN
      BY <1>2
    <2>3. ob.bufferRev <= e.rev
      BY <1>2, <1>3 DEF Later
    <2>4. ob.st = "live" /\ observer[o] = ob
      OBVIOUS
    <2> HIDE DEF ob, items, unknown
    <2>5. /\ r \in ObserverRecords /\ r.st = "live" /\ r.mode = ob.mode /\ r.items = items /\ r.unknown = unknown
          /\ r.modeRev = ob.modeRev /\ r.bufferRev = e.rev
      BY <1>1, <1>2, <2>2, <2>4 DEF ObserverRecords
    <2> HIDE DEF r
    <2>6. GaugesOk' /\ DOMAIN handles' = GaugeThreads
      BY <2>1, <2>4, <2>5, SampleReplaced DEF GaugesInv
    <2>7. observer[o].modeRev <= r.modeRev /\ observer[o].bufferRev <= r.bufferRev /\ e.rev <= r.bufferRev
      BY <1>2, <2>3, <2>4, <2>5
    <2>8. GaugesTyped' /\ RevisionsSeen'
      BY <2>1, <2>5, <2>6, <2>7, EventTaken DEF GaugesInv
    <2> QED BY <2>6, <2>8 DEF GaugesInv
  <1>4. CASE ~(~ob.terminal /\ Later(e.rev, ob.bufferRev))
    <2>1. UNCHANGED <<observer, metricKeys, handles, gauge>>
      BY <1>4 DEF ObserveBuffer
    <2>2. observer' = [observer EXCEPT ![o] = ob]
      BY <1>1, <2>1
    <2>3. Wanted' = Wanted
      BY <2>1 DEF Wanted, Counted
    <2>4. GaugesOk' /\ DOMAIN handles' = GaugeThreads
      BY <2>1, <2>3, NoGauges DEF GaugesInv
    <2>5. ~ob.terminal => e.rev <= ob.bufferRev
      BY <1>2, <1>4 DEF Later
    <2>6. observer[o].modeRev <= ob.modeRev /\ observer[o].bufferRev <= ob.bufferRev /\ observer[o] = ob /\ ob.st = "live"
      BY <1>2
    <2> HIDE DEF ob
    <2>7. GaugesTyped' /\ RevisionsSeen'
      BY <1>1, <2>2, <2>4, <2>5, <2>6, EventTaken DEF GaugesInv
    <2> QED BY <2>4, <2>7 DEF GaugesInv
  <1> QED BY <1>3, <1>4

\* Each step keeps the invariant.
LEMMA GaugesSteps == GaugesInv /\ [GaugesNext]_gaugeVars => GaugesInv'
PROOF
  <1> SUFFICES ASSUME GaugesInv, [GaugesNext]_gaugeVars PROVE GaugesInv'
    OBVIOUS
  <1>1. ASSUME NEW th \in GaugeThreads, NEW o \in Observers, NewObserver(th, o) PROVE GaugesInv'
    BY <1>1, NewObserverSafe
  <1>2. ASSUME NEW th \in GaugeThreads, NEW o \in Observers, ObserveEvent(th, o) PROVE GaugesInv'
    <2>1. PICK e \in emitted[o].pending :
            /\ emitted' = [emitted EXCEPT ![o].pending = @ \ {e}]
            /\ seenRevs' = [seenRevs EXCEPT ![o] = IF observer[o].terminal /\ e.kind # "mode" THEN @ ELSE @ \cup {e}]
            /\ IF e.kind = "mode" THEN ObserveMode(th, o, e) ELSE ObserveBuffer(th, o, e)
      BY <1>2 DEF ObserveEvent
    <2>2. observer[o].st = "live"
      BY <1>2 DEF ObserveEvent
    <2>3. CASE e.kind = "mode"
      BY <2>1, <2>2, <2>3, ObserveModeSafe
    <2>4. CASE e.kind # "mode"
      BY <2>1, <2>2, <2>4, ObserveBufferSafe
    <2> QED BY <2>3, <2>4
  <1>3. ASSUME NEW th \in GaugeThreads, NEW o \in Observers, FinishDrain(th, o) PROVE GaugesInv'
    BY <1>3, FinishDrainSafe
  <1>4. ASSUME NEW th \in GaugeThreads, NEW o \in Observers, DropObserver(th, o) PROVE GaugesInv'
    BY <1>4, DropObserverSafe
  <1>5. ASSUME NEW o \in Observers, EmitEvent(o) PROVE GaugesInv'
    BY <1>5, EmitEventSafe
  <1>6. CASE UNCHANGED gaugeVars
    <2>1. UNCHANGED <<metricKeys, handles, gauge, observer, emitted, seenRevs>>
      BY <1>6 DEF gaugeVars
    <2>2. Wanted' = Wanted
      BY <2>1 DEF Wanted, Counted
    <2>3. GaugesOk'
      BY <2>1, <2>2, NoGauges DEF GaugesInv
    <2> QED BY <2>1, <2>3 DEF GaugesInv, GaugesTyped, RevisionsSeen
  <1> QED BY <1>1, <1>2, <1>3, <1>4, <1>5, <1>6 DEF GaugesNext

\* Whatever the order in which threads deliver a writer's events, each gauge
\* is what the live observers stand for, or nothing once the set of metric
\* keys was full, and each observer stands for the newest event it was given.
THEOREM GaugesStayTruthful == GaugesSpec => []GaugesTruthful
PROOF
  <1>1. GaugesInv => GaugesTruthful
    <2> SUFFICES ASSUME GaugesInv PROVE GaugesTruthful
      OBVIOUS
    <2>1. ASSUME NEW k \in GaugeKeys PROVE Contribution(k) = Wanted[k]
      <3>1. CASE k \in Modes
        <4>1. Counted(k) = {o \in LiveObservers : observer[o].mode = k}
          BY <3>1, GaugeNames DEF Counted, Counts, LiveObservers
        <4>2. Contribution(k) = Cardinality({o \in LiveObservers : observer[o].mode = k})
          BY <3>1, GaugeNames DEF Contribution
        <4> QED BY <4>1, <4>2 DEF Wanted
      <3>2. CASE k = "unknown"
        <4>1. Counted(k) = {o \in LiveObservers : observer[o].unknown}
          BY <3>2, GaugeNames DEF Counted, Counts, LiveObservers
        <4>2. Contribution(k) = Cardinality({o \in LiveObservers : observer[o].unknown})
          BY <3>2, GaugeNames DEF Contribution
        <4> QED BY <4>1, <4>2 DEF Wanted
      <3>3. CASE k = "items"
        <4>1. Counted(k) = {o \in LiveObservers : observer[o].items = 1}
          BY <3>3, GaugeNames DEF Counted, Counts, LiveObservers
        <4>2. Contribution(k) = Cardinality({o \in LiveObservers : observer[o].items = 1})
          BY <3>3, GaugeNames DEF Contribution
        <4> QED BY <4>1, <4>2 DEF Wanted
      <3> QED BY <3>1, <3>2, <3>3, GaugeNames
    <2>2. \A k \in GaugeKeys : gauge[k] = IF k \in metricKeys THEN Wanted[k] ELSE 0
      BY DEF GaugesInv, GaugesOk, ValuesOk
    <2>3. \A o \in LiveObservers :
            /\ \A e \in seenRevs[o] : e.kind = "mode" => e.rev <= observer[o].modeRev
            /\ \A e \in seenRevs[o] : e.kind # "mode" => e.rev <= observer[o].bufferRev
      BY DEF GaugesInv, RevisionsSeen, LiveObservers
    <2> QED BY <2>1, <2>2, <2>3 DEF GaugesTruthful
  <1>2. GaugesInit => GaugesInv
    BY GaugesStarts
  <1>3. GaugesInv /\ [GaugesNext]_gaugeVars => GaugesInv'
    BY GaugesSteps
  <1> QED BY <1>1, <1>2, <1>3, PTL DEF GaugesSpec

-----------------------------------------------------------------------------
(* Verification against fetched keys                                       *)

TokensSpec == TokensInit /\ [][TokensNext]_tokenVars

LoadRecords == [key : CacheKeyset, at : Nat, live : BOOLEAN, done : BOOLEAN]
VerificationFields == {"st", "token", "policy", "typed", "key", "again", "stale", "load", "keys", "at", "floor", "result"}
InvalidationRecords == [st : {"bump", "remove"}, key : CacheKeyset, gen : Nat]
GenerationTables == [known : SUBSET Issuers, of : [Issuers -> Nat], default : Nat, next : Nat]

\* No generation is ahead of the last one handed out, and what a finished
\* invalidation covers is not ahead of its issuer's generation.
GenerationsOk ==
  /\ generations \in GenerationTables /\ generations.next <= MaxInvalidations /\ generations.default <= generations.next
  /\ \A i \in Issuers : generations.of[i] <= generations.next
  /\ covered \in [Issuers -> Nat] /\ \A i \in Issuers : covered[i] <= GenerationOf(generations, i)
  /\ DOMAIN invalidating = Invalidators
  /\ \A w \in Invalidators :
       \/ invalidating[w] = IdleInvalidation
       \/ /\ invalidating[w] \in InvalidationRecords
          /\ invalidating[w].st = "remove" => invalidating[w].gen <= GenerationOf(generations, invalidating[w].key[1])

\* A document under a key of generation g is from a fetch that began at g or later.
EntriesOk ==
  /\ DOMAIN jwksCache = CacheKeyset
  /\ \A k \in CacheKeyset : jwksCache[k].has => jwksCache[k].at \in Nat /\ k[2] <= jwksCache[k].at /\ jwksCache[k].at <= generations.next
LoadsOk ==
  /\ jwksLoads \in Seq(LoadRecords)
  /\ \A n \in DOMAIN jwksLoads :
       ~jwksLoads[n].done => jwksLoads[n].key[2] <= jwksLoads[n].at /\ jwksLoads[n].at <= generations.next

\* A verification holds a key no older than what was covered when it began, and waits for a load of that key.
KeyInHand(r, g) ==
  /\ r.policy.issuer \in Issuers /\ r.key \in CacheKeyset /\ r.result = "none"
  /\ r.floor <= r.key[2] /\ r.key[2] <= g.next /\ r.floor <= GenerationOf(g, r.policy.issuer)
VerificationOk(r, g, loads) ==
  /\ DOMAIN r = VerificationFields /\ r.floor \in Nat
  /\ r.st \in {"lookup", "wait", "have", "remove"} => KeyInHand(r, g)
  /\ r.st = "wait" => r.load \in DOMAIN loads /\ ~loads[r.load].done /\ loads[r.load].key = r.key
  /\ r.st = "have" \/ r.result = "accepted" => r.at \in Nat /\ r.floor <= r.at
VerificationsOk == DOMAIN verifying = Verifiers /\ \A v \in Verifiers : VerificationOk(verifying[v], generations, jwksLoads)

TokensInv == GenerationsOk /\ EntriesOk /\ LoadsOk /\ VerificationsOk

\* Generations only grow, and loads that are under way stay what they are.
GenerationsGrow(g, h) ==
  /\ g.next \in Nat /\ h.next \in Nat /\ g.next <= h.next
  /\ \A i \in Issuers : GenerationOf(g, i) <= GenerationOf(h, i) /\ GenerationOf(h, i) \in Nat
LoadsStay(old, new) ==
  \A n \in DOMAIN old : ~old[n].done => n \in DOMAIN new /\ ~new[n].done /\ new[n].key = old[n].key

\* The key of a cache entry is an issuer and a generation.
LEMMA KeyParts ==
  ASSUME NEW k \in CacheKeyset PROVE k[1] \in Issuers /\ k[2] \in Nat /\ k[2] <= MaxInvalidations
PROOF
  <1>1. MaxInvalidations \in Nat
    BY TokensAssumption
  <1>2. k[1] \in Issuers /\ k[2] \in 0 .. MaxInvalidations
    BY DEF CacheKeyset
  <1> QED BY <1>1, <1>2

\* The generation of an issuer that a table gives.
LEMMA GenerationIs ==
  ASSUME NEW g \in GenerationTables, NEW i \in Issuers
  PROVE  /\ GenerationOf(g, i) \in Nat
         /\ g.default <= g.next /\ g.of[i] <= g.next => GenerationOf(g, i) <= g.next
PROOF BY DEF GenerationTables, GenerationOf

\* The key that cache_key gives for an issuer.
LEMMA CacheKeyIs ==
  ASSUME GenerationsOk, NEW i \in Issuers
  PROVE  /\ CacheKey(i) \in CacheKeyset /\ CacheKey(i)[1] = i /\ CacheKey(i)[2] = GenerationOf(generations, i)
         /\ GenerationOf(generations, i) \in Nat /\ GenerationOf(generations, i) <= generations.next
PROOF
  <1>1. GenerationOf(generations, i) \in Nat /\ GenerationOf(generations, i) <= generations.next
    BY GenerationIs DEF GenerationsOk
  <1>2. generations.next \in Nat /\ generations.next <= MaxInvalidations /\ MaxInvalidations \in Nat
    BY TokensAssumption DEF GenerationsOk, GenerationTables
  <1>3. GenerationOf(generations, i) \in 0 .. MaxInvalidations
    BY <1>1, <1>2
  <1> QED BY <1>1, <1>3 DEF CacheKey, CacheKeyset

\* A verification that stands still stays right.
LEMMA VerificationKept ==
  ASSUME NEW r, NEW g, NEW h, NEW old, NEW new, VerificationOk(r, g, old), GenerationsGrow(g, h), LoadsStay(old, new),
         \A i \in Issuers : GenerationOf(g, i) \in Nat
  PROVE  VerificationOk(r, h, new)
PROOF
  <1>1. KeyInHand(r, g) => KeyInHand(r, h)
    <2> SUFFICES ASSUME KeyInHand(r, g) PROVE KeyInHand(r, h)
      OBVIOUS
    <2> DEFINE i == r.policy.issuer
    <2>1. i \in Issuers /\ r.floor <= GenerationOf(g, i) /\ r.floor \in Nat
      BY DEF KeyInHand, VerificationOk
    <2>2. GenerationOf(g, i) <= GenerationOf(h, i) /\ GenerationOf(h, i) \in Nat /\ GenerationOf(g, i) \in Nat
      BY <2>1 DEF GenerationsGrow
    <2> HIDE DEF i
    <2>3. r.floor <= GenerationOf(h, i)
      BY <2>1, <2>2
    <2>4. r.key[2] <= h.next
      <3>1. r.key[2] \in Nat /\ r.key[2] <= g.next
        BY KeyParts DEF KeyInHand
      <3> QED BY <3>1 DEF GenerationsGrow
    <2> QED BY <2>1, <2>3, <2>4 DEF KeyInHand, i
  <1>2. r.st = "wait" => r.load \in DOMAIN new /\ ~new[r.load].done /\ new[r.load].key = r.key
    BY DEF VerificationOk, LoadsStay
  <1> QED BY <1>1, <1>2 DEF VerificationOk

\* The same of all verifications but those a step changes.
LEMMA VerificationsKept ==
  ASSUME GenerationsOk, VerificationsOk, GenerationsGrow(generations, generations'), LoadsStay(jwksLoads, jwksLoads'),
         NEW v \in Verifiers, verifying'[v] = verifying[v]
  PROVE  VerificationOk(verifying'[v], generations', jwksLoads')
PROOF
  <1>1. VerificationOk(verifying[v], generations, jwksLoads)
    BY DEF VerificationsOk
  <1>2. \A i \in Issuers : GenerationOf(generations, i) \in Nat
    BY GenerationIs DEF GenerationsOk
  <1>3. VerificationOk(verifying[v], generations', jwksLoads')
    BY <1>1, <1>2, VerificationKept
  <1> QED BY <1>3

\* Generations and loads that do not change.
LEMMA StillGenerations == GenerationsOk => GenerationsGrow(generations, generations)
PROOF
  <1> SUFFICES ASSUME GenerationsOk, NEW i \in Issuers
               PROVE GenerationOf(generations, i) <= GenerationOf(generations, i) /\ GenerationOf(generations, i) \in Nat
    <2>1. GenerationsOk => generations.next \in Nat /\ generations.next <= generations.next
      BY DEF GenerationsOk, GenerationTables
    <2> QED BY <2>1 DEF GenerationsGrow
  <1>1. GenerationOf(generations, i) \in Nat
    BY GenerationIs DEF GenerationsOk
  <1> QED BY <1>1

\* Loads that do not change stay what they are.
LEMMA StillLoads == \A loads : LoadsStay(loads, loads)
PROOF BY DEF LoadsStay

\* A new load at the end.
LEMMA LoadAdded ==
  ASSUME GenerationsOk, LoadsOk, NEW k \in CacheKeyset, k[2] <= generations.next, jwksLoads' = Append(jwksLoads, NewLoad(k)),
         UNCHANGED generations
  PROVE  /\ LoadsOk' /\ LoadsStay(jwksLoads, jwksLoads')
         /\ Len(jwksLoads) + 1 \in DOMAIN jwksLoads' /\ jwksLoads'[Len(jwksLoads) + 1] = NewLoad(k)
PROOF
  <1>1. NewLoad(k) \in LoadRecords /\ NewLoad(k).key = k /\ NewLoad(k).at = generations.next /\ ~NewLoad(k).done
    BY DEF NewLoad, LoadRecords, GenerationsOk, GenerationTables
  <1>2. jwksLoads \in Seq(LoadRecords) /\ jwksLoads' \in Seq(LoadRecords) /\ Len(jwksLoads) \in Nat
    BY <1>1 DEF LoadsOk
  <1>3. /\ Len(jwksLoads') = Len(jwksLoads) + 1 /\ DOMAIN jwksLoads' = 1 .. Len(jwksLoads) + 1 /\ DOMAIN jwksLoads = 1 .. Len(jwksLoads)
        /\ jwksLoads'[Len(jwksLoads) + 1] = NewLoad(k)
        /\ \A n \in DOMAIN jwksLoads : jwksLoads'[n] = jwksLoads[n]
    BY <1>1, <1>2
  <1>4. Len(jwksLoads) + 1 \in DOMAIN jwksLoads' /\ \A n \in DOMAIN jwksLoads' : n \in DOMAIN jwksLoads \/ n = Len(jwksLoads) + 1
    BY <1>2, <1>3
  <1>5. \A n \in DOMAIN jwksLoads : n \in DOMAIN jwksLoads'
    BY <1>2, <1>3
  <1>6. \A n \in DOMAIN jwksLoads' :
          ~jwksLoads'[n].done => jwksLoads'[n].key[2] <= jwksLoads'[n].at /\ jwksLoads'[n].at <= generations'.next
    <2> SUFFICES ASSUME NEW n \in DOMAIN jwksLoads', ~jwksLoads'[n].done
                 PROVE  jwksLoads'[n].key[2] <= jwksLoads'[n].at /\ jwksLoads'[n].at <= generations'.next
      OBVIOUS
    <2>1. CASE n \in DOMAIN jwksLoads
      BY <1>3, <2>1 DEF LoadsOk
    <2>2. CASE n = Len(jwksLoads) + 1
      <3>1. generations.next \in Nat
        BY DEF GenerationsOk, GenerationTables
      <3> QED BY <1>1, <1>3, <2>2, <3>1
    <2> QED BY <1>4, <2>1, <2>2
  <1>7. LoadsStay(jwksLoads, jwksLoads')
    BY <1>3, <1>5 DEF LoadsStay
  <1> QED BY <1>2, <1>3, <1>4, <1>6, <1>7 DEF LoadsOk

\* The removal of a key: its loads go on, but fill nothing.
LEMMA KeyForgotten ==
  ASSUME LoadsOk, EntriesOk, NEW k \in CacheKeyset, ForgetKey(k), UNCHANGED generations
  PROVE  LoadsOk' /\ EntriesOk' /\ LoadsStay(jwksLoads, jwksLoads')
PROOF
  <1>1. jwksCache' = [jwksCache EXCEPT ![k] = NoEntry] /\ jwksLoads' = DetachLoads(k)
    BY DEF ForgetKey
  <1>2. EntriesOk'
    BY <1>1 DEF EntriesOk, NoEntry
  <1>3. jwksLoads \in Seq(LoadRecords) /\ Len(jwksLoads) \in Nat /\ DOMAIN jwksLoads = 1 .. Len(jwksLoads)
        /\ \A n \in DOMAIN jwksLoads : jwksLoads[n] \in LoadRecords
    BY DEF LoadsOk
  <1>4. DOMAIN jwksLoads' = DOMAIN jwksLoads
    BY <1>1 DEF DetachLoads
  <1>5. ASSUME NEW n \in DOMAIN jwksLoads
        PROVE  /\ jwksLoads'[n] \in LoadRecords /\ jwksLoads'[n].key = jwksLoads[n].key /\ jwksLoads'[n].at = jwksLoads[n].at
               /\ jwksLoads'[n].done = jwksLoads[n].done
    <2> DEFINE l == jwksLoads[n]
    <2>1. l \in LoadRecords
      BY <1>3
    <2>2. jwksLoads'[n] = (IF n \in LiveFetches(k) THEN [l EXCEPT !.live = FALSE] ELSE l)
      BY <1>1 DEF DetachLoads
    <2> HIDE DEF l
    <2>3. [l EXCEPT !.live = FALSE] \in LoadRecords /\ [l EXCEPT !.live = FALSE].key = l.key
          /\ [l EXCEPT !.live = FALSE].at = l.at /\ [l EXCEPT !.live = FALSE].done = l.done
      BY <2>1 DEF LoadRecords
    <2>4. jwksLoads'[n] \in LoadRecords /\ jwksLoads'[n].key = l.key /\ jwksLoads'[n].at = l.at /\ jwksLoads'[n].done = l.done
      BY <2>1, <2>2, <2>3
    <2> QED BY <2>4 DEF l
  <1>6. jwksLoads' \in Seq(LoadRecords)
    <2>1. jwksLoads' = [n \in 1 .. Len(jwksLoads) |-> jwksLoads'[n]]
      BY <1>1, <1>3 DEF DetachLoads
    <2>2. jwksLoads' \in [1 .. Len(jwksLoads) -> LoadRecords]
      BY <1>3, <1>5, <2>1
    <2> QED BY <1>3, <2>2
  <1>7. LoadsOk'
    BY <1>4, <1>5, <1>6 DEF LoadsOk
  <1>8. LoadsStay(jwksLoads, jwksLoads')
    BY <1>4, <1>5 DEF LoadsStay
  <1> QED BY <1>2, <1>7, <1>8

\* A verification that has ended, right if what it ended on was.
LEMMA FinishedOk ==
  ASSUME NEW r, NEW ok, NEW g, NEW loads, r.floor \in Nat, ok => r.at \in Nat /\ r.floor <= r.at
  PROVE  VerificationOk(Finished(r, ok), g, loads)
PROOF
  <1> DEFINE f == Finished(r, ok)
  <1>1. /\ DOMAIN f = VerificationFields /\ f.st = "done" /\ f.at = r.at /\ f.floor = r.floor
        /\ f.result = (IF ok THEN "accepted" ELSE "refused")
    BY DEF Finished, IdleVerification, VerificationFields
  <1> HIDE DEF f
  <1>2. f.result = "accepted" => ok
    BY <1>1
  <1>3. VerificationOk(f, g, loads)
    BY <1>1, <1>2 DEF VerificationOk
  <1> QED BY <1>3 DEF f

\* One verification moves, and the tables stand still or grow.
LEMMA VerifierMoves ==
  ASSUME GenerationsOk, VerificationsOk, GenerationsGrow(generations, generations'), LoadsStay(jwksLoads, jwksLoads'),
         NEW v \in Verifiers, NEW r, verifying' = [verifying EXCEPT ![v] = r], VerificationOk(r, generations', jwksLoads')
  PROVE  VerificationsOk'
PROOF
  <1>1. DOMAIN verifying' = Verifiers /\ verifying'[v] = r /\ \A x \in Verifiers \ {v} : verifying'[x] = verifying[x]
    BY DEF VerificationsOk
  <1>2. \A x \in Verifiers \ {v} : VerificationOk(verifying'[x], generations', jwksLoads')
    BY <1>1, VerificationsKept
  <1>3. \A x \in Verifiers : VerificationOk(verifying'[x], generations', jwksLoads')
    BY <1>1, <1>2
  <1> QED BY <1>1, <1>3 DEF VerificationsOk

\* The generations stay right when nothing touches them.
LEMMA GenerationsStay ==
  ASSUME GenerationsOk, UNCHANGED <<generations, invalidating, covered>>
  PROVE  GenerationsOk' /\ GenerationsGrow(generations, generations')
PROOF
  <1>1. generations' = generations /\ invalidating' = invalidating /\ covered' = covered
    OBVIOUS
  <1>2. GenerationsOk'
    BY <1>1 DEF GenerationsOk
  <1> QED BY <1>1, <1>2, StillGenerations

\* verify* up to the first await: the key is read together with what is covered.
LEMMA StartSafe ==
  ASSUME TokensInv, NEW v \in Verifiers, StartVerification(v) PROVE TokensInv'
PROOF
  <1>1. PICK t \in TokensSeen, b \in {x \in PolicyBuilders : PolicyBuilds(x)}, entrance \in Entrances :
          LET typed == entrance.typed
              r == [IdleVerification EXCEPT !.token = t, !.policy = b, !.typed = typed]
          IN verifying' = [verifying EXCEPT ![v] =
               IF ~Admissible(t, b, typed) THEN Finished(r, FALSE)
               ELSE IF entrance.kind # "remote" THEN Finished(r, Accepted(t, b, typed, SourceKeys(entrance.kind, t), tokenNow))
               ELSE [r EXCEPT !.st = "lookup", !.key = CacheKey(b.issuer), !.stale = StaleOnFetchError,
                              !.floor = covered[b.issuer]]]
    BY DEF StartVerification
  <1> DEFINE r == [IdleVerification EXCEPT !.token = t, !.policy = b, !.typed = entrance.typed]
             ok == Accepted(t, b, entrance.typed, SourceKeys(entrance.kind, t), tokenNow)
             q == [r EXCEPT !.st = "lookup", !.key = CacheKey(b.issuer), !.stale = StaleOnFetchError, !.floor = covered[b.issuer]]
             next == IF ~Admissible(t, b, entrance.typed) THEN Finished(r, FALSE)
                     ELSE IF entrance.kind # "remote" THEN Finished(r, ok) ELSE q
  <1>2. UNCHANGED <<generations, jwksCache, jwksLoads, invalidating, covered>>
    BY DEF StartVerification
  <1>3. verifying' = [verifying EXCEPT ![v] = next]
    BY <1>1
  <1>4. b.issuer \in Issuers
    BY TokensAssumption DEF PolicyBuilds, RequiredPresent
  <1>5. DOMAIN r = VerificationFields /\ r.at = 0 /\ r.floor = 0 /\ r.result = "none" /\ r.policy = b
    BY DEF IdleVerification, VerificationFields
  <1> HIDE DEF r, ok
  <1>6. /\ DOMAIN q = VerificationFields /\ q.st = "lookup" /\ q.key = CacheKey(b.issuer) /\ q.floor = covered[b.issuer]
        /\ q.result = "none" /\ q.policy = b
    BY <1>5 DEF VerificationFields
  <1> HIDE DEF q
  <1>7. /\ covered[b.issuer] \in Nat /\ covered[b.issuer] <= GenerationOf(generations, b.issuer)
        /\ CacheKey(b.issuer) \in CacheKeyset /\ CacheKey(b.issuer)[2] = GenerationOf(generations, b.issuer)
        /\ CacheKey(b.issuer)[2] <= generations.next
    BY <1>4, CacheKeyIs DEF TokensInv, GenerationsOk
  <1>8. VerificationOk(q, generations, jwksLoads)
    BY <1>4, <1>6, <1>7 DEF VerificationOk, KeyInHand
  <1>9. \A x : VerificationOk(Finished(r, x), generations, jwksLoads)
    BY <1>5, FinishedOk
  <1>10. VerificationOk(next, generations, jwksLoads)
    BY <1>8, <1>9
  <1> HIDE DEF next
  <1>11. GenerationsOk' /\ GenerationsGrow(generations, generations') /\ LoadsStay(jwksLoads, jwksLoads')
    BY <1>2, GenerationsStay, StillLoads DEF TokensInv
  <1>12. VerificationsOk'
    BY <1>2, <1>3, <1>10, <1>11, VerifierMoves DEF TokensInv
  <1>13. EntriesOk' /\ LoadsOk'
    BY <1>2 DEF TokensInv, EntriesOk, LoadsOk
  <1> QED BY <1>11, <1>12, <1>13 DEF TokensInv

\* get_or_fetch: the entry, the load under way, or a new load.
LEMMA LookUpSafe ==
  ASSUME TokensInv, NEW v \in Verifiers, NEW expired \in BOOLEAN, LookUp(v, expired) PROVE TokensInv'
PROOF
  <1> DEFINE r == verifying[v]
             hit == jwksCache[r.key].has /\ ~expired
             loads == LiveFetches(r.key)
             n == IF loads = {} THEN Len(jwksLoads) + 1 ELSE CHOOSE x \in loads : TRUE
             have == [r EXCEPT !.st = "have", !.keys = jwksCache[r.key].keys, !.at = jwksCache[r.key].at]
             wait == [r EXCEPT !.st = "wait", !.load = n]
  <1>1. /\ r.st = "lookup"
        /\ verifying' = [verifying EXCEPT ![v] = IF hit THEN have ELSE wait]
        /\ jwksLoads' = IF hit \/ loads # {} THEN jwksLoads ELSE Append(jwksLoads, NewLoad(r.key))
        /\ UNCHANGED <<generations, jwksCache, invalidating, covered>>
    BY DEF LookUp
  <1>0. generations' = generations /\ jwksCache' = jwksCache /\ invalidating' = invalidating /\ covered' = covered
    BY <1>1
  <1>2. VerificationOk(r, generations, jwksLoads)
    BY DEF TokensInv, VerificationsOk
  <1>3. DOMAIN r = VerificationFields /\ r.floor \in Nat /\ KeyInHand(r, generations)
    BY <1>1, <1>2 DEF VerificationOk
  <1>4. r.key \in CacheKeyset /\ r.floor <= r.key[2] /\ r.key[2] \in Nat /\ r.result = "none"
    BY <1>3, KeyParts DEF KeyInHand
  <1>5. GenerationsOk' /\ GenerationsGrow(generations, generations')
    BY <1>1, GenerationsStay DEF TokensInv
  <1>6. EntriesOk'
    BY <1>0 DEF TokensInv, EntriesOk
  <1>7. CASE hit
    <2>1. jwksCache[r.key].at \in Nat /\ r.key[2] <= jwksCache[r.key].at
      BY <1>4, <1>7 DEF TokensInv, EntriesOk
    <2>2. verifying' = [verifying EXCEPT ![v] = have] /\ jwksLoads' = jwksLoads
      BY <1>1, <1>7
    <2>3. /\ DOMAIN have = VerificationFields /\ have.st = "have" /\ have.at = jwksCache[r.key].at /\ have.floor = r.floor
          /\ have.key = r.key /\ have.policy = r.policy /\ have.result = r.result
      BY <1>3 DEF VerificationFields
    <2> HIDE DEF have, r
    <2>4. r.floor <= jwksCache[r.key].at
      BY <1>3, <1>4, <2>1
    <2>5. VerificationOk(have, generations, jwksLoads)
      BY <1>3, <1>4, <2>1, <2>3, <2>4 DEF VerificationOk, KeyInHand
    <2>6. LoadsOk' /\ LoadsStay(jwksLoads, jwksLoads')
      BY <1>0, <2>2, StillLoads DEF TokensInv, LoadsOk
    <2>7. VerificationsOk'
      BY <1>0, <1>5, <2>2, <2>5, <2>6, VerifierMoves DEF TokensInv
    <2> QED BY <1>5, <1>6, <2>6, <2>7 DEF TokensInv
  <1>8. CASE ~hit
    <2>1. verifying' = [verifying EXCEPT ![v] = wait]
      BY <1>1, <1>8
    <2>2. /\ DOMAIN wait = VerificationFields /\ wait.st = "wait" /\ wait.load = n /\ wait.floor = r.floor
          /\ wait.key = r.key /\ wait.policy = r.policy /\ wait.result = r.result
      BY <1>3 DEF VerificationFields
    <2>3. LoadsOk' /\ LoadsStay(jwksLoads, jwksLoads') /\ n \in DOMAIN jwksLoads' /\ ~jwksLoads'[n].done /\ jwksLoads'[n].key = r.key
      <3>1. CASE loads = {}
        <4>1. jwksLoads' = Append(jwksLoads, NewLoad(r.key)) /\ n = Len(jwksLoads) + 1
          BY <1>1, <1>8, <3>1
        <4>2. r.key[2] <= generations.next
          BY <1>3 DEF KeyInHand
        <4>3. ~NewLoad(r.key).done /\ NewLoad(r.key).key = r.key
          BY DEF NewLoad
        <4> HIDE DEF r, n
        <4> QED BY <1>0, <1>4, <4>1, <4>2, <4>3, LoadAdded DEF TokensInv
      <3>2. CASE loads # {}
        <4>1. n \in loads /\ jwksLoads' = jwksLoads
          BY <1>1, <1>8, <3>2
        <4>2. n \in DOMAIN jwksLoads /\ ~jwksLoads[n].done /\ jwksLoads[n].key = r.key
          BY <4>1 DEF LiveFetches
        <4> HIDE DEF n
        <4> QED BY <1>0, <4>1, <4>2, StillLoads DEF TokensInv, LoadsOk
      <3> QED BY <3>1, <3>2
    <2> HIDE DEF wait, r, n
    <2>4. VerificationOk(wait, generations, jwksLoads')
      BY <1>3, <1>4, <2>2, <2>3 DEF VerificationOk, KeyInHand
    <2>5. VerificationsOk'
      BY <1>0, <1>5, <2>1, <2>3, <2>4, VerifierMoves DEF TokensInv
    <2> QED BY <1>5, <1>6, <2>3, <2>5 DEF TokensInv
  <1> QED BY <1>7, <1>8

\* with_refresh_ttl: a background load of an entry that is there.
LEMMA RefreshSafe ==
  ASSUME TokensInv, NEW k \in CacheKeyset, RefreshEntry(k) PROVE TokensInv'
PROOF
  <1>1. /\ generations' = generations /\ jwksCache' = jwksCache /\ invalidating' = invalidating /\ covered' = covered
        /\ verifying' = verifying /\ jwksLoads' = Append(jwksLoads, NewLoad(k)) /\ jwksCache[k].has
    BY DEF RefreshEntry
  <1>2. k[2] <= generations.next
    <2>1. jwksCache[k].at \in Nat /\ k[2] <= jwksCache[k].at /\ jwksCache[k].at <= generations.next
      BY <1>1 DEF TokensInv, EntriesOk
    <2>2. k[2] \in Nat /\ generations.next \in Nat
      BY KeyParts DEF TokensInv, GenerationsOk, GenerationTables
    <2> QED BY <2>1, <2>2
  <1>3. GenerationsOk' /\ GenerationsGrow(generations, generations')
    BY <1>1, GenerationsStay DEF TokensInv
  <1>4. LoadsOk' /\ LoadsStay(jwksLoads, jwksLoads')
    BY <1>1, <1>2, LoadAdded DEF TokensInv
  <1>5. VerificationsOk'
    BY <1>1, <1>3, <1>4, VerificationsKept DEF TokensInv, VerificationsOk
  <1>6. EntriesOk'
    BY <1>1 DEF TokensInv, EntriesOk
  <1> QED BY <1>3, <1>4, <1>5, <1>6 DEF TokensInv

\* jwks_decoding_key with a document: a second look reads the key anew, and an answer ends on the document held.
LEMMA DecideSafe ==
  ASSUME TokensInv, NEW v \in Verifiers, Decide(v) PROVE TokensInv'
PROOF
  <1> DEFINE r == verifying[v]
             i == r.policy.issuer
             ok == Accepted(r.token, r.policy, r.typed, DecodingKeyFor(r.keys, r.token.kid, r.token.alg, FALSE), tokenNow)
             st == IF MayRefresh(i) THEN "remove" ELSE "lookup"
             stale == StaleOnFetchError /\ ~MayRefresh(i)
             again == [r EXCEPT !.st = st, !.again = TRUE, !.key = CacheKey(i), !.stale = stale]
  <1>1. /\ verifying' = [verifying EXCEPT ![v] = again] \/ verifying' = [verifying EXCEPT ![v] = Finished(r, ok)]
        /\ r.st = "have"
        /\ generations' = generations /\ jwksCache' = jwksCache /\ invalidating' = invalidating /\ covered' = covered
        /\ jwksLoads' = jwksLoads
    BY DEF Decide
  <1>2. VerificationOk(r, generations, jwksLoads)
    BY DEF TokensInv, VerificationsOk
  <1>3. DOMAIN r = VerificationFields /\ r.floor \in Nat /\ KeyInHand(r, generations) /\ r.at \in Nat /\ r.floor <= r.at
    BY <1>1, <1>2 DEF VerificationOk
  <1>4. i \in Issuers /\ r.floor <= GenerationOf(generations, i) /\ r.result = "none"
    BY <1>3 DEF KeyInHand
  <1>5. st \in {"remove", "lookup"}
    OBVIOUS
  <1> HIDE DEF ok, st, stale, i
  <1>6. CacheKey(i) \in CacheKeyset /\ CacheKey(i)[2] = GenerationOf(generations, i) /\ CacheKey(i)[2] <= generations.next
    BY <1>4, CacheKeyIs DEF TokensInv
  <1>7. /\ DOMAIN again = VerificationFields /\ again.st = st /\ again.key = CacheKey(i) /\ again.floor = r.floor
        /\ again.policy = r.policy /\ again.result = r.result
    BY <1>3 DEF VerificationFields
  <1> HIDE DEF again
  <1>8. KeyInHand(again, generations)
    BY <1>4, <1>6, <1>7 DEF KeyInHand, i
  <1>9. VerificationOk(again, generations, jwksLoads)
    BY <1>3, <1>4, <1>5, <1>7, <1>8 DEF VerificationOk
  <1>10. VerificationOk(Finished(r, ok), generations, jwksLoads)
    BY <1>3, FinishedOk
  <1>11. GenerationsOk' /\ GenerationsGrow(generations, generations') /\ LoadsStay(jwksLoads, jwksLoads')
    BY <1>1, GenerationsStay, StillLoads DEF TokensInv
  <1> HIDE DEF r
  <1>12. VerificationsOk'
    BY <1>1, <1>9, <1>10, <1>11, VerifierMoves DEF TokensInv
  <1>13. EntriesOk' /\ LoadsOk'
    BY <1>1 DEF TokensInv, EntriesOk, LoadsOk
  <1> QED BY <1>11, <1>12, <1>13 DEF TokensInv

\* refresh_document_for_issuer removes what it had under the key it read.
LEMMA RemoveSafe ==
  ASSUME TokensInv, NEW v \in Verifiers, RemoveForRefresh(v) PROVE TokensInv'
PROOF
  <1> DEFINE r == verifying[v]
             next == [r EXCEPT !.st = "lookup"]
  <1>1. /\ r.st = "remove" /\ ForgetKey(r.key)
        /\ generations' = generations /\ invalidating' = invalidating /\ covered' = covered
    BY DEF RemoveForRefresh
  <1>2. VerificationOk(r, generations, jwksLoads)
    BY DEF TokensInv, VerificationsOk
  <1>3. DOMAIN r = VerificationFields /\ r.floor \in Nat /\ KeyInHand(r, generations)
    BY <1>1, <1>2 DEF VerificationOk
  <1>4. verifying' = [verifying EXCEPT ![v] = next]
    BY DEF RemoveForRefresh
  <1>5. /\ DOMAIN next = VerificationFields /\ next.st = "lookup" /\ next.key = r.key /\ next.floor = r.floor
        /\ next.policy = r.policy /\ next.result = r.result
    BY <1>3 DEF VerificationFields
  <1> HIDE DEF next, r
  <1>6. VerificationOk(next, generations, jwksLoads')
    BY <1>3, <1>5 DEF VerificationOk, KeyInHand
  <1>7. LoadsOk' /\ EntriesOk' /\ LoadsStay(jwksLoads, jwksLoads')
    BY <1>1, <1>3, KeyForgotten DEF TokensInv, KeyInHand
  <1>8. GenerationsOk' /\ GenerationsGrow(generations, generations')
    BY <1>1, GenerationsStay DEF TokensInv
  <1>9. VerificationsOk'
    BY <1>1, <1>4, <1>6, <1>7, <1>8, VerifierMoves DEF TokensInv
  <1> QED BY <1>7, <1>8, <1>9 DEF TokensInv

\* fetch_remote_jwks answered: what waited for this load has its document, or the old entry, or an error.
LEMMA FetchSafe ==
  ASSUME TokensInv, NEW n \in DOMAIN jwksLoads, NEW doc \in KeyDocuments, NEW kept \in BOOLEAN, FinishFetch(n, doc, kept)
  PROVE  TokensInv'
PROOF
  <1> DEFINE l == jwksLoads[n]
             good == DocumentValid(doc)
             entry == [has |-> TRUE, keys |-> doc.keys, at |-> l.at]
             over == [NewLoad(l.key) EXCEPT !.at = 0, !.done = TRUE]
             old == jwksCache[l.key]
  <1>1. /\ ~l.done /\ jwksLoads' = [jwksLoads EXCEPT ![n] = over]
        /\ jwksCache' = IF good /\ l.live THEN [jwksCache EXCEPT ![l.key] = entry] ELSE jwksCache
        /\ generations' = generations /\ invalidating' = invalidating /\ covered' = covered
    BY DEF FinishFetch
  <1>2. GenerationsOk' /\ GenerationsGrow(generations, generations')
    BY <1>1, GenerationsStay DEF TokensInv
  <1>3. jwksLoads \in Seq(LoadRecords) /\ l \in LoadRecords
    BY DEF TokensInv, LoadsOk
  <1>4. l.key \in CacheKeyset /\ l.at \in Nat /\ l.key[2] <= l.at /\ l.at <= generations.next /\ l.key[2] \in Nat
    BY <1>1, <1>3, KeyParts DEF TokensInv, LoadsOk, LoadRecords
  <1>5. over \in LoadRecords /\ over.done
    BY <1>4 DEF NewLoad, LoadRecords
  <1>6. LoadsOk'
    <2>1. jwksLoads' \in Seq(LoadRecords) /\ DOMAIN jwksLoads' = DOMAIN jwksLoads
      BY <1>1, <1>3, <1>5
    <2>2. jwksLoads'[n] = over /\ \A m \in DOMAIN jwksLoads \ {n} : jwksLoads'[m] = jwksLoads[m]
      BY <1>1
    <2> HIDE DEF l, over
    <2> QED BY <1>1, <1>5, <2>1, <2>2 DEF TokensInv, LoadsOk
  <1>7. EntriesOk'
    <2>1. CASE good /\ l.live
      <3>1. jwksCache' = [jwksCache EXCEPT ![l.key] = entry]
        BY <1>1, <2>1
      <3>2. entry.at = l.at
        OBVIOUS
      <3> HIDE DEF l, entry
      <3> QED BY <1>1, <1>4, <3>1, <3>2 DEF TokensInv, EntriesOk
    <2>2. CASE ~(good /\ l.live)
      BY <1>1, <2>2 DEF TokensInv, EntriesOk
    <2> QED BY <2>1, <2>2
  <1>8. old.has => old.at \in Nat /\ l.key[2] <= old.at
    BY <1>4 DEF TokensInv, EntriesOk
  <1>9. ASSUME NEW v \in Verifiers PROVE VerificationOk(verifying'[v], generations', jwksLoads')
    <2> DEFINE r == verifying[v]
               fresh == [r EXCEPT !.st = "have", !.keys = entry.keys, !.at = l.at, !.load = 0]
               stale == [r EXCEPT !.st = "have", !.keys = old.keys, !.at = old.at, !.load = 0]
    <2>1. verifying'[v] = IF r.st # "wait" \/ r.load # n THEN r
                          ELSE IF good THEN fresh ELSE IF r.stale /\ kept /\ old.has THEN stale ELSE Finished(r, FALSE)
      BY DEF FinishFetch
    <2>2. VerificationOk(r, generations, jwksLoads)
      BY DEF TokensInv, VerificationsOk
    <2>3. CASE r.st # "wait" \/ r.load # n
      <3>1. r.st = "wait" => r.load \in DOMAIN jwksLoads' /\ ~jwksLoads'[r.load].done /\ jwksLoads'[r.load].key = r.key
        BY <1>1, <2>2, <2>3 DEF VerificationOk
      <3>2. verifying'[v] = r
        BY <2>1, <2>3
      <3> HIDE DEF r
      <3>3. VerificationOk(r, generations, jwksLoads')
        BY <2>2, <3>1 DEF VerificationOk
      <3> QED BY <1>1, <3>2, <3>3
    <2>4. CASE r.st = "wait" /\ r.load = n
      <3>1. DOMAIN r = VerificationFields /\ r.floor \in Nat /\ KeyInHand(r, generations) /\ l.key = r.key
        BY <2>2, <2>4 DEF VerificationOk
      <3>2. r.floor <= l.key[2] /\ r.result = "none"
        BY <3>1 DEF KeyInHand
      <3>3. /\ DOMAIN fresh = VerificationFields /\ fresh.st = "have" /\ fresh.key = r.key /\ fresh.floor = r.floor
            /\ fresh.policy = r.policy /\ fresh.result = r.result /\ fresh.at = l.at
        BY <3>1 DEF VerificationFields
      <3>4. /\ DOMAIN stale = VerificationFields /\ stale.st = "have" /\ stale.key = r.key /\ stale.floor = r.floor
            /\ stale.policy = r.policy /\ stale.result = r.result /\ stale.at = old.at
        BY <3>1 DEF VerificationFields
      <3>5. verifying'[v] = fresh \/ (old.has /\ verifying'[v] = stale) \/ verifying'[v] = Finished(r, FALSE)
        BY <2>1, <2>4
      <3> HIDE DEF fresh, stale, r, l, old
      <3>6. r.floor <= l.at /\ (old.has => r.floor <= old.at)
        BY <1>4, <1>8, <3>1, <3>2
      <3>7. VerificationOk(fresh, generations, jwksLoads')
        BY <1>4, <3>1, <3>2, <3>3, <3>6 DEF VerificationOk, KeyInHand
      <3>8. old.has => VerificationOk(stale, generations, jwksLoads')
        BY <1>8, <3>1, <3>2, <3>4, <3>6 DEF VerificationOk, KeyInHand
      <3>9. VerificationOk(Finished(r, FALSE), generations, jwksLoads')
        BY <3>1, FinishedOk
      <3> QED BY <1>1, <3>5, <3>7, <3>8, <3>9
    <2> QED BY <2>3, <2>4
  <1>10. DOMAIN verifying' = Verifiers
    BY DEF FinishFetch
  <1>11. VerificationsOk'
    BY <1>9, <1>10 DEF VerificationsOk
  <1> QED BY <1>2, <1>6, <1>7, <1>11 DEF TokensInv

\* invalidate_issuer reads the key it will remove.
LEMMA ReadSafe ==
  ASSUME TokensInv, NEW w \in Invalidators, ReadPreviousKey(w) PROVE TokensInv'
PROOF
  <1>1. PICK i \in Issuers : invalidating' = [invalidating EXCEPT ![w] = [st |-> "bump", key |-> CacheKey(i), gen |-> 0]]
    BY DEF ReadPreviousKey
  <1>2. /\ generations' = generations /\ jwksCache' = jwksCache /\ jwksLoads' = jwksLoads /\ verifying' = verifying
        /\ covered' = covered
    BY DEF ReadPreviousKey
  <1> DEFINE q == [st |-> "bump", key |-> CacheKey(i), gen |-> 0]
  <1>3. q \in InvalidationRecords /\ q.st # "remove"
    BY CacheKeyIs DEF TokensInv, InvalidationRecords
  <1>4. invalidating' = [invalidating EXCEPT ![w] = q]
    BY <1>1
  <1> HIDE DEF q
  <1>5. GenerationsOk'
    <2>1. DOMAIN invalidating' = Invalidators /\ invalidating'[w] = q
          /\ \A x \in Invalidators \ {w} : invalidating'[x] = invalidating[x]
      BY <1>4 DEF TokensInv, GenerationsOk
    <2>2. \A x \in Invalidators :
            \/ invalidating'[x] = IdleInvalidation
            \/ /\ invalidating'[x] \in InvalidationRecords
               /\ invalidating'[x].st = "remove" => invalidating'[x].gen <= GenerationOf(generations, invalidating'[x].key[1])
      BY <1>3, <2>1 DEF TokensInv, GenerationsOk
    <2> QED BY <1>2, <2>1, <2>2 DEF TokensInv, GenerationsOk
  <1>6. GenerationsGrow(generations, generations') /\ LoadsStay(jwksLoads, jwksLoads')
    BY <1>2, StillGenerations, StillLoads DEF TokensInv
  <1>7. EntriesOk' /\ LoadsOk'
    BY <1>2 DEF TokensInv, EntriesOk, LoadsOk
  <1>8. VerificationsOk'
    BY <1>2, <1>6, VerificationsKept DEF TokensInv, VerificationsOk
  <1> QED BY <1>5, <1>7, <1>8 DEF TokensInv

\* The table after an invalidation: every issuer's generation grows, and the invalidated one has the newest.
LEMMA NextGenerationsGrow ==
  ASSUME NEW g \in GenerationTables, NEW i \in Issuers, g.default <= g.next, \A x \in Issuers : g.of[x] <= g.next,
         NEW h, h = NextGenerations(g, i)
  PROVE  /\ h \in GenerationTables /\ h.next = g.next + 1 /\ h.default <= h.next /\ \A x \in Issuers : h.of[x] <= h.next
         /\ GenerationsGrow(g, h) /\ GenerationOf(h, i) = h.next
PROOF
  <1> DEFINE full == Cardinality(g.known) >= MaxGenerations /\ i \notin g.known
  <1>1. /\ h.known = (IF full THEN {} ELSE g.known) \cup {i}
        /\ h.of = [x \in Issuers |-> IF x = i THEN g.next + 1 ELSE IF full THEN 0 ELSE g.of[x]]
        /\ h.default = (IF full THEN g.next + 1 ELSE g.default) /\ h.next = g.next + 1
        /\ h = [known |-> h.known, of |-> h.of, default |-> h.default, next |-> h.next]
    BY DEF NextGenerations
  <1> HIDE DEF full
  <1>2. g.known \subseteq Issuers /\ g.of \in [Issuers -> Nat] /\ g.default \in Nat /\ g.next \in Nat
    BY DEF GenerationTables
  <1>3. h.known \subseteq Issuers /\ i \in h.known
    BY <1>1, <1>2
  <1>4. \A x \in Issuers : h.of[x] \in Nat /\ h.of[x] <= h.next
    BY <1>1, <1>2
  <1>5. h.of \in [Issuers -> Nat]
    BY <1>1, <1>4
  <1>6. h.default \in Nat /\ h.default <= h.next /\ h.next \in Nat
    BY <1>1, <1>2
  <1>7. h \in GenerationTables
    BY <1>1, <1>3, <1>5, <1>6 DEF GenerationTables
  <1>8. GenerationOf(h, i) = h.next
    BY <1>1, <1>3 DEF GenerationOf
  <1>9. ASSUME NEW x \in Issuers PROVE GenerationOf(g, x) <= GenerationOf(h, x) /\ GenerationOf(h, x) \in Nat
    <2>1. GenerationOf(g, x) \in Nat /\ GenerationOf(g, x) <= g.next
      BY GenerationIs
    <2>2. CASE x = i
      BY <1>1, <1>2, <1>8, <2>1, <2>2
    <2>3. CASE x # i /\ full
      <3>1. GenerationOf(h, x) = g.next + 1
        BY <1>1, <2>3 DEF GenerationOf
      <3> QED BY <1>2, <2>1, <3>1
    <2>4. CASE x # i /\ ~full
      <3>1. GenerationOf(h, x) = GenerationOf(g, x)
        BY <1>1, <2>4 DEF GenerationOf
      <3> QED BY <2>1, <3>1
    <2> QED BY <2>2, <2>3, <2>4
  <1>10. GenerationsGrow(g, h)
    BY <1>1, <1>2, <1>9 DEF GenerationsGrow
  <1> QED BY <1>1, <1>4, <1>6, <1>7, <1>8, <1>10

\* invalidate_issuer, under the lock of the table.
LEMMA BumpSafe ==
  ASSUME TokensInv, NEW w \in Invalidators, BumpGeneration(w) PROVE TokensInv'
PROOF
  <1> DEFINE q == invalidating[w]
             i == q.key[1]
             p == [q EXCEPT !.st = "remove", !.gen = generations'.next]
  <1>1. /\ q.st = "bump" /\ generations.next < MaxInvalidations /\ generations' = NextGenerations(generations, i)
        /\ invalidating' = [invalidating EXCEPT ![w] = p]
        /\ jwksCache' = jwksCache /\ jwksLoads' = jwksLoads /\ verifying' = verifying /\ covered' = covered
    BY DEF BumpGeneration
  <1>2. q \in InvalidationRecords
    <2>1. IdleInvalidation.st = "idle"
      BY DEF IdleInvalidation
    <2> QED BY <1>1, <2>1 DEF TokensInv, GenerationsOk
  <1>3. i \in Issuers /\ q.key \in CacheKeyset
    BY <1>2, KeyParts DEF InvalidationRecords
  <1>4. generations \in GenerationTables /\ generations.default <= generations.next /\ generations.next \in Nat
        /\ MaxInvalidations \in Nat
    BY TokensAssumption DEF TokensInv, GenerationsOk, GenerationTables
  <1>5. /\ generations' \in GenerationTables /\ generations'.next = generations.next + 1 /\ generations'.default <= generations'.next
        /\ \A x \in Issuers : generations'.of[x] <= generations'.next
        /\ GenerationsGrow(generations, generations') /\ GenerationOf(generations', i) = generations'.next
    BY <1>1, <1>3, <1>4, NextGenerationsGrow DEF TokensInv, GenerationsOk
  <1>6. generations'.next <= MaxInvalidations /\ generations'.next \in Nat
    BY <1>1, <1>4, <1>5
  <1>7. p \in InvalidationRecords /\ p.gen = generations'.next /\ p.key = q.key
    BY <1>2, <1>6 DEF InvalidationRecords
  <1>8. p.gen <= GenerationOf(generations', p.key[1])
    BY <1>5, <1>6, <1>7
  <1> HIDE DEF p, q, i
  <1>9. \A x \in Issuers : GenerationOf(generations, x) \in Nat /\ GenerationOf(generations', x) \in Nat
                           /\ GenerationOf(generations, x) <= GenerationOf(generations', x)
    BY <1>4, <1>5, GenerationIs DEF GenerationsGrow
  <1>10. \A x \in Issuers : covered[x] <= GenerationOf(generations', x)
    <2>1. \A x \in Issuers : covered[x] \in Nat /\ covered[x] <= GenerationOf(generations, x)
      BY DEF TokensInv, GenerationsOk
    <2> QED BY <1>9, <2>1
  <1>11. ASSUME NEW x \in Invalidators
         PROVE  \/ invalidating'[x] = IdleInvalidation
                \/ /\ invalidating'[x] \in InvalidationRecords
                   /\ invalidating'[x].st = "remove" => invalidating'[x].gen <= GenerationOf(generations', invalidating'[x].key[1])
    <2>1. CASE x = w
      BY <1>1, <1>7, <1>8, <2>1 DEF TokensInv, GenerationsOk
    <2>2. CASE x # w /\ invalidating[x] = IdleInvalidation
      BY <1>1, <2>2 DEF TokensInv, GenerationsOk
    <2>3. CASE x # w /\ invalidating[x] # IdleInvalidation
      <3> DEFINE y == invalidating[x]
      <3>1. y \in InvalidationRecords /\ (y.st = "remove" => y.gen <= GenerationOf(generations, y.key[1]))
        BY <2>3 DEF TokensInv, GenerationsOk
      <3>2. y.gen \in Nat /\ y.key[1] \in Issuers
        BY <3>1, KeyParts DEF InvalidationRecords
      <3>3. invalidating'[x] = y
        BY <1>1, <2>3 DEF TokensInv, GenerationsOk
      <3> HIDE DEF y
      <3>4. y.st = "remove" => y.gen <= GenerationOf(generations', y.key[1])
        BY <1>9, <3>1, <3>2
      <3> QED BY <3>1, <3>3, <3>4
    <2> QED BY <2>1, <2>2, <2>3
  <1>12. GenerationsOk'
    <2>1. DOMAIN invalidating' = Invalidators /\ covered' \in [Issuers -> Nat]
      BY <1>1 DEF TokensInv, GenerationsOk
    <2> QED BY <1>1, <1>5, <1>6, <1>10, <1>11, <2>1 DEF GenerationsOk
  <1>13. EntriesOk'
    <2>1. \A k \in CacheKeyset : jwksCache[k].has => jwksCache[k].at \in Nat /\ k[2] <= jwksCache[k].at /\ jwksCache[k].at <= generations.next
      BY DEF TokensInv, EntriesOk
    <2>2. \A m \in Nat : m <= generations.next => m <= generations'.next
      BY <1>4, <1>5
    <2> QED BY <1>1, <2>1, <2>2 DEF TokensInv, EntriesOk
  <1>14. LoadsOk'
    <2>1. ASSUME NEW n \in DOMAIN jwksLoads, ~jwksLoads[n].done
          PROVE  jwksLoads[n].key[2] <= jwksLoads[n].at /\ jwksLoads[n].at <= generations'.next
      <3>0. jwksLoads[n] \in LoadRecords
        BY DEF TokensInv, LoadsOk
      <3>1. jwksLoads[n].at \in Nat
        BY <3>0 DEF LoadRecords
      <3>2. jwksLoads[n].key[2] <= jwksLoads[n].at /\ jwksLoads[n].at <= generations.next
        BY <2>1 DEF TokensInv, LoadsOk
      <3> QED BY <1>4, <1>5, <3>1, <3>2
    <2> QED BY <1>1, <2>1 DEF TokensInv, LoadsOk
  <1>15. LoadsStay(jwksLoads, jwksLoads')
    BY <1>1, StillLoads
  <1>16. VerificationsOk'
    BY <1>1, <1>5, <1>15, VerificationsKept DEF TokensInv, VerificationsOk
  <1> QED BY <1>12, <1>13, <1>14, <1>16 DEF TokensInv

\* invalidate_issuer ends: the removed key and the cleared cooldown, and from now on it covers the issuer.
LEMMA FinishInvalidationSafe ==
  ASSUME TokensInv, NEW w \in Invalidators, FinishInvalidation(w) PROVE TokensInv'
PROOF
  <1> DEFINE q == invalidating[w]
             i == q.key[1]
             most == IF covered[i] > q.gen THEN covered[i] ELSE q.gen
  <1>1. /\ q.st = "remove" /\ ForgetKey(q.key) /\ generations' = generations /\ verifying' = verifying
        /\ invalidating' = [invalidating EXCEPT ![w] = IdleInvalidation] /\ covered' = [covered EXCEPT ![i] = most]
    BY DEF FinishInvalidation
  <1>2. q \in InvalidationRecords /\ q.gen <= GenerationOf(generations, i)
    <2>1. IdleInvalidation.st = "idle"
      BY DEF IdleInvalidation
    <2> QED BY <1>1, <2>1 DEF TokensInv, GenerationsOk
  <1>3. i \in Issuers /\ q.key \in CacheKeyset /\ q.gen \in Nat
    BY <1>2, KeyParts DEF InvalidationRecords
  <1> HIDE DEF q, i
  <1>4. most \in Nat /\ most <= GenerationOf(generations, i)
    BY <1>2, <1>3 DEF TokensInv, GenerationsOk
  <1> HIDE DEF most
  <1>5. GenerationsOk'
    <2>1. covered' \in [Issuers -> Nat] /\ \A x \in Issuers : covered'[x] <= GenerationOf(generations, x)
      BY <1>1, <1>3, <1>4 DEF TokensInv, GenerationsOk
    <2>2. DOMAIN invalidating' = Invalidators /\ invalidating'[w] = IdleInvalidation
          /\ \A x \in Invalidators \ {w} : invalidating'[x] = invalidating[x]
      BY <1>1 DEF TokensInv, GenerationsOk
    <2>3. \A x \in Invalidators :
            \/ invalidating'[x] = IdleInvalidation
            \/ /\ invalidating'[x] \in InvalidationRecords
               /\ invalidating'[x].st = "remove" => invalidating'[x].gen <= GenerationOf(generations, invalidating'[x].key[1])
      BY <2>2 DEF TokensInv, GenerationsOk
    <2> QED BY <1>1, <2>1, <2>2, <2>3 DEF TokensInv, GenerationsOk
  <1>6. LoadsOk' /\ EntriesOk' /\ LoadsStay(jwksLoads, jwksLoads')
    BY <1>1, <1>3, KeyForgotten DEF TokensInv
  <1>7. GenerationsGrow(generations, generations')
    BY <1>1, StillGenerations DEF TokensInv
  <1>8. VerificationsOk'
    BY <1>1, <1>6, <1>7, VerificationsKept DEF TokensInv, VerificationsOk
  <1> QED BY <1>5, <1>6, <1>8 DEF TokensInv

\* A step that touches none of the tables.
LEMMA TokensStill ==
  ASSUME TokensInv, UNCHANGED <<generations, jwksCache, jwksLoads, verifying, invalidating, covered>> PROVE TokensInv'
PROOF
  <1>1. /\ generations' = generations /\ jwksCache' = jwksCache /\ jwksLoads' = jwksLoads /\ verifying' = verifying
        /\ invalidating' = invalidating /\ covered' = covered
    OBVIOUS
  <1> QED BY <1>1 DEF TokensInv, GenerationsOk, EntriesOk, LoadsOk, VerificationsOk

\* The source when it is built.
LEMMA TokensStarts == TokensInit => TokensInv
PROOF
  <1> SUFFICES ASSUME TokensInit PROVE TokensInv
    OBVIOUS
  <1>1. GenerationsOk
    <2>1. generations \in GenerationTables /\ generations.next = 0 /\ generations.default = 0
          /\ \A i \in Issuers : generations.of[i] = 0
      BY DEF TokensInit, GenerationTables
    <2>2. \A i \in Issuers : GenerationOf(generations, i) = 0
      BY <2>1 DEF GenerationOf, TokensInit
    <2>3. MaxInvalidations \in Nat
      BY TokensAssumption
    <2>4. covered = [i \in Issuers |-> 0] /\ invalidating = [w \in Invalidators |-> IdleInvalidation]
      BY DEF TokensInit
    <2>5. covered \in [Issuers -> Nat] /\ \A i \in Issuers : covered[i] <= GenerationOf(generations, i)
      BY <2>2, <2>4
    <2>6. DOMAIN invalidating = Invalidators /\ \A w \in Invalidators : invalidating[w] = IdleInvalidation
      BY <2>4
    <2>7. generations.next <= MaxInvalidations /\ generations.default <= generations.next
          /\ \A i \in Issuers : generations.of[i] <= generations.next
      BY <2>1, <2>3
    <2> QED BY <2>1, <2>5, <2>6, <2>7 DEF GenerationsOk
  <1>2. EntriesOk
    BY DEF TokensInit, EntriesOk, NoEntry
  <1>3. LoadsOk
    BY DEF TokensInit, LoadsOk
  <1>4. VerificationOk(IdleVerification, generations, jwksLoads)
    BY DEF VerificationOk, IdleVerification, VerificationFields
  <1>5. VerificationsOk
    BY <1>4 DEF TokensInit, VerificationsOk
  <1> QED BY <1>1, <1>2, <1>3, <1>5 DEF TokensInv

\* Every step keeps the invariant.
LEMMA TokensStep == TokensInv /\ [TokensNext]_tokenVars => TokensInv'
PROOF
  <1> SUFFICES ASSUME TokensInv, [TokensNext]_tokenVars PROVE TokensInv'
    OBVIOUS
  <1>1. CASE UNCHANGED tokenVars
    BY <1>1, TokensStill DEF tokenVars
  <1>2. CASE TokenTick
    BY <1>2, TokensStill DEF TokenTick
  <1>3. CASE \E v \in Verifiers : StartVerification(v) \/ LookUp(v, TRUE) \/ LookUp(v, FALSE) \/ Decide(v) \/ RemoveForRefresh(v)
    BY <1>3, StartSafe, LookUpSafe, DecideSafe, RemoveSafe
  <1>4. CASE \E w \in Invalidators : ReadPreviousKey(w) \/ BumpGeneration(w) \/ FinishInvalidation(w)
    BY <1>4, ReadSafe, BumpSafe, FinishInvalidationSafe
  <1>5. CASE \E n \in DOMAIN jwksLoads, doc \in KeyDocuments, kept \in BOOLEAN : FinishFetch(n, doc, kept)
    BY <1>5, FetchSafe
  <1>6. CASE \E k \in CacheKeyset : RefreshEntry(k)
    BY <1>6, RefreshSafe
  <1> QED BY <1>1, <1>2, <1>3, <1>4, <1>5, <1>6 DEF TokensNext

\* Once invalidate_issuer has returned, no later verification accepts by a document whose fetch
\* began before it (jwks/source.rs).
THEOREM InvalidationsHold == TokensSpec => []InvalidationHolds
PROOF
  <1>1. TokensInv => InvalidationHolds
    <2> SUFFICES ASSUME TokensInv, NEW v \in Verifiers, verifying[v].result = "accepted"
                 PROVE  verifying[v].at >= verifying[v].floor
      BY DEF InvalidationHolds
    <2>1. VerificationOk(verifying[v], generations, jwksLoads)
      BY DEF TokensInv, VerificationsOk
    <2>2. verifying[v].floor \in Nat /\ verifying[v].at \in Nat /\ verifying[v].floor <= verifying[v].at
      BY <2>1 DEF VerificationOk
    <2> QED BY <2>2
  <1> QED BY <1>1, TokensStarts, TokensStep, PTL DEF TokensSpec

-----------------------------------------------------------------------------
(* Decisions over snapshots                                                *)

AuthzSpec == AuthzInit /\ [][AuthzNext]_authzVars

\* The store's notes of when something last stood: what stands stands now.
StoreNoted ==
  /\ authzClock \in Nat /\ granted \subseteq Assignments /\ place \in Places
  /\ heldAt \in [Assignments -> Int] /\ stoodAt \in [Places -> Int]
  /\ \A a \in Assignments : heldAt[a] <= authzClock
  /\ \A p \in Places : stoodAt[p] <= authzClock
  /\ \A a \in granted : heldAt[a] = authzClock
  /\ stoodAt[place] = authzClock

\* What a snapshot says stood when it was fetched, and its stamp is at most HostSkew ahead of that.
SubjectStood(snap, held) ==
  snap # Unset =>
    /\ snap.assignments \subseteq Assignments /\ snap.fetched \in Int
    /\ \A a \in snap.assignments : held[a] >= snap.fetched - HostSkew
ResourceStood(snap, stood) ==
  snap # Unset =>
    /\ snap.fetched \in Int /\ DOMAIN snap.place = PlaceFields
    /\ \E p \in Places : /\ stood[p] >= snap.fetched - HostSkew
                         /\ snap.place.public = p.public /\ OrgOf(snap.parents, snap.place.org) = p.org

DecisionInv ==
  /\ StoreNoted /\ SubjectStood(subjectSnap, heldAt) /\ ResourceStood(resourceSnap, stoodAt)
  /\ DecisionsSound

\* What stood stays noted.
NotesGrow(old, new, S) == \A x \in S : old[x] \in Int /\ new[x] \in Int /\ old[x] <= new[x]

\* inject_org_parent_property: one organisation parent, or none.
LEMMA OrgOfOne ==
  ASSUME NEW own, NEW id
  PROVE  OrgOf({[type |-> "org", id |-> id]}, own) = id /\ OrgOf({}, own) = own
PROOF
  <1>1. {p.id : p \in {q \in {[type |-> "org", id |-> id]} : q.type = "org"}} = {id}
    <2> DEFINE e == [type |-> "org", id |-> id]
    <2>1. e.type = "org" /\ e.id = id
      OBVIOUS
    <2> HIDE DEF e
    <2>2. {q \in {e} : q.type = "org"} = {e}
      BY <2>1
    <2>3. {p.id : p \in {e}} = {id}
      BY <2>1
    <2> QED BY <2>2, <2>3 DEF e
  <1>2. {p.id : p \in {q \in {} : q.type = "org"}} = {}
    OBVIOUS
  <1>3. Cardinality({id}) = 1 /\ Cardinality({}) = 0
    BY FS_Singleton, FS_EmptySet
  <1>4. (CHOOSE o \in {id} : TRUE) = id
    OBVIOUS
  <1>5. OrgOf({[type |-> "org", id |-> id]}, own) = id
    BY <1>1, <1>3, <1>4 DEF OrgOf
  <1>6. OrgOf({}, own) = own
    BY <1>2, <1>3 DEF OrgOf
  <1> QED BY <1>5, <1>6

\* A snapshot stays what it is while time passes and the store changes.
LEMMA SnapshotsStay ==
  ASSUME SubjectStood(subjectSnap, heldAt), ResourceStood(resourceSnap, stoodAt),
         NotesGrow(heldAt, heldAt', Assignments), NotesGrow(stoodAt, stoodAt', Places)
  PROVE  SubjectStood(subjectSnap, heldAt') /\ ResourceStood(resourceSnap, stoodAt')
PROOF
  <1>1. HostSkew \in Nat
    BY AuthzAssumption
  <1>2. ASSUME subjectSnap # Unset PROVE \A a \in subjectSnap.assignments : heldAt'[a] >= subjectSnap.fetched - HostSkew
    <2> SUFFICES ASSUME NEW a \in subjectSnap.assignments PROVE heldAt'[a] >= subjectSnap.fetched - HostSkew
      OBVIOUS
    <2>1. a \in Assignments /\ heldAt[a] >= subjectSnap.fetched - HostSkew /\ subjectSnap.fetched \in Int
      BY <1>2 DEF SubjectStood
    <2>2. heldAt[a] \in Int /\ heldAt'[a] \in Int /\ heldAt[a] <= heldAt'[a]
      BY <2>1 DEF NotesGrow
    <2> QED BY <1>1, <2>1, <2>2
  <1>3. ASSUME resourceSnap # Unset
        PROVE  \E p \in Places : /\ stoodAt'[p] >= resourceSnap.fetched - HostSkew
                                 /\ resourceSnap.place.public = p.public /\ OrgOf(resourceSnap.parents, resourceSnap.place.org) = p.org
    <2>1. PICK p \in Places : /\ stoodAt[p] >= resourceSnap.fetched - HostSkew
                              /\ resourceSnap.place.public = p.public /\ OrgOf(resourceSnap.parents, resourceSnap.place.org) = p.org
      BY <1>3 DEF ResourceStood
    <2>2. stoodAt[p] \in Int /\ stoodAt'[p] \in Int /\ stoodAt[p] <= stoodAt'[p] /\ resourceSnap.fetched \in Int
      BY <1>3 DEF NotesGrow, ResourceStood
    <2>3. stoodAt'[p] >= resourceSnap.fetched - HostSkew
      BY <1>1, <2>1, <2>2
    <2> QED BY <2>1, <2>3
  <1> QED BY <1>2, <1>3 DEF SubjectStood, ResourceStood

\* The store's notes after a change or a tick.
LEMMA NoteKeeps ==
  ASSUME StoreNoted, Note, authzClock' \in Nat, authzClock <= authzClock', granted' \subseteq Assignments, place' \in Places
  PROVE  StoreNoted' /\ NotesGrow(heldAt, heldAt', Assignments) /\ NotesGrow(stoodAt, stoodAt', Places)
PROOF
  <1>1. authzClock \in Nat
    BY DEF StoreNoted
  <1>2. heldAt' = [a \in Assignments |-> IF a \in granted' \cup granted THEN authzClock' ELSE heldAt[a]]
        /\ stoodAt' = [p \in Places |-> IF p \in {place, place'} THEN authzClock' ELSE stoodAt[p]]
    BY DEF Note
  <1>3. \A a \in Assignments : heldAt[a] \in Int /\ heldAt[a] <= authzClock
    BY DEF StoreNoted
  <1>4. \A p \in Places : stoodAt[p] \in Int /\ stoodAt[p] <= authzClock
    BY DEF StoreNoted
  <1>5. \A a \in Assignments : heldAt'[a] \in Int /\ heldAt'[a] <= authzClock' /\ heldAt[a] <= heldAt'[a]
    BY <1>1, <1>2, <1>3
  <1>6. \A p \in Places : stoodAt'[p] \in Int /\ stoodAt'[p] <= authzClock' /\ stoodAt[p] <= stoodAt'[p]
    BY <1>1, <1>2, <1>4
  <1>7. heldAt' \in [Assignments -> Int] /\ stoodAt' \in [Places -> Int]
    BY <1>2, <1>5, <1>6
  <1>8. \A a \in granted' : heldAt'[a] = authzClock'
    BY <1>2
  <1>9. stoodAt'[place'] = authzClock'
    BY <1>2
  <1>10. StoreNoted'
    BY <1>5, <1>6, <1>7, <1>8, <1>9 DEF StoreNoted
  <1>11. NotesGrow(heldAt, heldAt', Assignments) /\ NotesGrow(stoodAt, stoodAt', Places)
    BY <1>3, <1>4, <1>5, <1>6 DEF NotesGrow
  <1> QED BY <1>10, <1>11

\* Nothing is decided yet: there is nothing to be sound about.
LEMMA Undecided == decision = NoDecision => DecisionsSound
PROOF BY DEF NoDecision, DecisionsSound, RevocationBounded, StepUpAgrees, Answered

\* The store changes, or time passes.
LEMMA StoreSafe ==
  ASSUME DecisionInv, ChangeStore \/ AdvanceClock PROVE DecisionInv'
PROOF
  <1>1. decision' = NoDecision /\ Note /\ subjectSnap' = subjectSnap /\ resourceSnap' = resourceSnap
    BY DEF ChangeStore, AdvanceClock
  <1>2. StoreNoted
    BY DEF DecisionInv
  <1>3. authzClock' \in Nat /\ authzClock <= authzClock'
    BY <1>2 DEF ChangeStore, AdvanceClock, StoreNoted
  <1>4. granted' \subseteq Assignments /\ place' \in Places
    BY <1>2 DEF ChangeStore, AdvanceClock, StoreNoted
  <1>5. StoreNoted' /\ NotesGrow(heldAt, heldAt', Assignments) /\ NotesGrow(stoodAt, stoodAt', Places)
    BY <1>1, <1>2, <1>3, <1>4, NoteKeeps
  <1>6. SubjectStood(subjectSnap, heldAt') /\ ResourceStood(resourceSnap, stoodAt')
    BY <1>5, SnapshotsStay DEF DecisionInv
  <1>7. DecisionsSound'
    BY <1>1 DEF NoDecision, DecisionsSound, RevocationBounded, StepUpAgrees, Answered
  <1> QED BY <1>1, <1>5, <1>6, <1>7 DEF DecisionInv

\* A host fetches the assignments of the subject.
LEMMA FetchSubjectSafe ==
  ASSUME DecisionInv, FetchSubject PROVE DecisionInv'
PROOF
  <1>1. PICK skew \in 0 .. HostSkew, subject \in Subjects :
          subjectSnap' = [subject |-> subject, assignments |-> granted, parents |-> SubjectParents(granted),
                          resourceScopes |-> ResourceScopes(granted), fetched |-> authzClock + skew]
    BY DEF FetchSubject
  <1>2. /\ granted' = granted /\ place' = place /\ resourceSnap' = resourceSnap /\ authzClock' = authzClock
        /\ heldAt' = heldAt /\ stoodAt' = stoodAt /\ decision' = NoDecision
    BY DEF FetchSubject
  <1>3. subjectSnap'.assignments = granted /\ subjectSnap'.fetched = authzClock + skew
    BY <1>1
  <1>4. SubjectStood(subjectSnap', heldAt)
    <2>1. HostSkew \in Nat /\ authzClock \in Nat /\ granted \subseteq Assignments /\ \A a \in granted : heldAt[a] = authzClock
      BY AuthzAssumption DEF DecisionInv, StoreNoted
    <2>2. authzClock >= authzClock + skew - HostSkew /\ authzClock + skew \in Int
      BY <2>1
    <2> QED BY <1>3, <2>1, <2>2 DEF SubjectStood
  <1>5. StoreNoted' /\ ResourceStood(resourceSnap', stoodAt')
    BY <1>2 DEF DecisionInv, StoreNoted
  <1>6. DecisionsSound'
    BY <1>2 DEF NoDecision, DecisionsSound, RevocationBounded, StepUpAgrees, Answered
  <1> QED BY <1>2, <1>4, <1>5, <1>6 DEF DecisionInv

\* A host fetches the resource, with its organisation as a parent or as a property.
LEMMA FetchResourceSafe ==
  ASSUME DecisionInv, FetchResource PROVE DecisionInv'
PROOF
  <1>1. PICK skew \in 0 .. HostSkew, byParent \in BOOLEAN :
          resourceSnap' =
            [place |-> IF byParent THEN [place EXCEPT !.org = Unset] ELSE place,
             parents |-> IF byParent /\ place.org # Unset THEN {[type |-> "org", id |-> place.org]} ELSE {},
             fetched |-> authzClock + skew]
    BY DEF FetchResource
  <1>2. /\ granted' = granted /\ place' = place /\ subjectSnap' = subjectSnap /\ authzClock' = authzClock
        /\ heldAt' = heldAt /\ stoodAt' = stoodAt /\ decision' = NoDecision
    BY DEF FetchResource
  <1> DEFINE said == IF byParent THEN [place EXCEPT !.org = Unset] ELSE place
             parents == IF byParent /\ place.org # Unset THEN {[type |-> "org", id |-> place.org]} ELSE {}
  <1>3. resourceSnap'.place = said /\ resourceSnap'.parents = parents /\ resourceSnap'.fetched = authzClock + skew
    BY <1>1
  <1>4. place \in Places /\ DOMAIN place = PlaceFields /\ stoodAt[place] = authzClock /\ authzClock \in Nat
        /\ HostSkew \in Nat
    BY AuthzAssumption DEF DecisionInv, StoreNoted
  <1>5. DOMAIN said = PlaceFields /\ said.public = place.public /\ said.org = (IF byParent THEN Unset ELSE place.org)
    BY <1>4 DEF PlaceFields
  <1>6. OrgOf(parents, said.org) = place.org
    <2> HIDE DEF said
    <2>1. CASE byParent /\ place.org # Unset
      BY <2>1, OrgOfOne
    <2>2. CASE ~(byParent /\ place.org # Unset)
      <3>1. OrgOf({}, said.org) = said.org
        BY OrgOfOne
      <3>2. said.org = place.org
        BY <1>5, <2>2
      <3> QED BY <2>2, <3>1, <3>2
    <2> QED BY <2>1, <2>2
  <1>7. stoodAt[place] >= authzClock + skew - HostSkew /\ authzClock + skew \in Int
    BY <1>4
  <1> HIDE DEF said, parents
  <1>8. ResourceStood(resourceSnap', stoodAt)
    BY <1>3, <1>4, <1>5, <1>6, <1>7 DEF ResourceStood
  <1>9. StoreNoted' /\ SubjectStood(subjectSnap', heldAt')
    BY <1>2 DEF DecisionInv, StoreNoted
  <1>10. DecisionsSound'
    BY <1>2 DEF NoDecision, DecisionsSound, RevocationBounded, StepUpAgrees, Answered
  <1> QED BY <1>2, <1>8, <1>9, <1>10 DEF DecisionInv

\* The assurance ladder and the numbers of its levels decide alike.
LEMMA LevelsAgree ==
  ASSUME NEW acr \in 0 .. RecentAuth, NEW required \in 0 .. RecentAuth
  PROVE  Satisfies(acr, required) <=> AcrClause(acr, required)
PROOF BY DEF Satisfies, AcrClause, Assurance, RecentAuth

\* A time that is recent, and the age of a session within a limit.
LEMMA AgesAgree ==
  ASSUME NEW at \in Nat \cup {Unset}, NEW limit \in Nat \cup {Unset}, NEW now \in Nat
  PROVE  (limit # Unset => RecentAt(at, now, limit)) <=> WithinAge(SessionAge(at, now), limit)
PROOF
  <1>1. Unset \notin Int
    BY AuthzAssumption
  <1>2. CASE limit = Unset
    BY <1>2 DEF WithinAge
  <1>3. CASE limit # Unset /\ at = Unset
    BY <1>3 DEF WithinAge, RecentAt, SessionAge
  <1>4. CASE limit \in Nat /\ at \in Nat
    <2>1. limit # Unset /\ at # Unset /\ now - at \in Int /\ now - at # Unset
      BY <1>1, <1>4
    <2>2. CASE now - at >= 0
      <3>1. SessionAge(at, now) = now - at
        BY <2>1, <2>2 DEF SessionAge
      <3>2. RecentAt(at, now, limit) <=> now - at <= limit
        BY <1>4, <2>1, <2>2 DEF RecentAt
      <3> QED BY <2>1, <3>1, <3>2 DEF WithinAge
    <2>3. CASE ~(now - at >= 0)
      <3>1. SessionAge(at, now) = Unset
        BY <2>1, <2>3 DEF SessionAge
      <3>2. ~RecentAt(at, now, limit)
        BY <1>4, <2>1, <2>3 DEF RecentAt
      <3> QED BY <2>1, <3>1, <3>2 DEF WithinAge
    <2> QED BY <2>2, <2>3
  <1> QED BY <1>2, <1>3, <1>4

\* StepUpEvaluator::evaluate_rule asks for nothing exactly when the guard's second half holds.
LEMMA ChallengesAgree ==
  ASSUME NEW rule, rule.acr \in 0 .. RecentAuth, {rule.authAge, rule.mfaAge} \subseteq Nat \cup {Unset},
         NEW s \in SessionContexts, NEW now \in Nat, NEW v, v = SessionValues(s, now)
  PROVE  StepUpChallenge(rule, s, now) = "none" <=>
           /\ v.present /\ AcrClause(v.acr, rule.acr)
           /\ WithinAge(v.authAge, rule.authAge) /\ WithinAge(v.mfaAge, rule.mfaAge)
           /\ rule.amr # {} => rule.amr \cap v.amr # {}
PROOF
  <1>1. CASE s = Unset
    <2>1. StepUpChallenge(rule, s, now) = "raise_acr"
      BY <1>1 DEF StepUpChallenge
    <2>2. v.present = FALSE
      BY <1>1 DEF SessionValues
    <2> QED BY <2>1, <2>2
  <1>2. CASE s # Unset
    <2>1. /\ v.present = TRUE /\ v.acr = s.acr /\ v.amr = s.amr
          /\ v.authAge = SessionAge(s.authTime, now) /\ v.mfaAge = SessionAge(s.mfaTime, now)
      BY <1>2 DEF SessionValues
    <2>2. s.acr \in 0 .. RecentAuth /\ s.authTime \in Nat \cup {Unset} /\ s.mfaTime \in Nat \cup {Unset}
      BY <1>2, StepUpAssumption
    <2>3. Satisfies(s.acr, rule.acr) <=> AcrClause(v.acr, rule.acr)
      BY <2>1, <2>2, LevelsAgree
    <2>4. (rule.authAge # Unset => RecentAt(s.authTime, now, rule.authAge)) <=> WithinAge(v.authAge, rule.authAge)
      BY <2>1, <2>2, AgesAgree
    <2>5. (rule.mfaAge # Unset => RecentAt(s.mfaTime, now, rule.mfaAge)) <=> WithinAge(v.mfaAge, rule.mfaAge)
      BY <2>1, <2>2, AgesAgree
    <2>6. StepUpChallenge(rule, s, now) = "none" <=>
            /\ Satisfies(s.acr, rule.acr)
            /\ rule.authAge # Unset => RecentAt(s.authTime, now, rule.authAge)
            /\ rule.mfaAge # Unset => RecentAt(s.mfaTime, now, rule.mfaAge)
            /\ rule.amr # {} => rule.amr \cap s.amr # {}
      BY <1>2 DEF StepUpChallenge
    <2> QED BY <2>1, <2>3, <2>4, <2>5, <2>6
  <1> QED BY <1>1, <1>2

\* The step-up evaluator and the guard generated into the policies decide alike, for every rule, session and token.
LEMMA StepUpsAgree ==
  ASSUME NEW act, StepUpRule(act) # Unset, NEW r \in AuthzRequests, NEW now \in Nat, NEW perms,
         NEW ctx, ctx = InternalContext(r, perms, now), ctx.tokenValid
  PROVE  StepUp(act, r.session, r.token, now) = "none" <=> StepUpGuard(StepUpRule(act), ctx)
PROOF
  <1> DEFINE rule == StepUpRule(act)
  <1>1. act \in DOMAIN AuthzConfig.stepUp /\ rule = AuthzConfig.stepUp[act]
    BY DEF StepUpRule
  <1>2. rule.acr \in 0 .. RecentAuth /\ {rule.authAge, rule.mfaAge} \subseteq Nat \cup {Unset}
    BY <1>1, StepUpAssumption
  <1>3. r.session \in SessionContexts
    BY DEF AuthzRequests
  <1>4. ctx.tokenPresent = (r.token # Unset) /\ ctx.session = SessionValues(r.session, now)
    BY DEF InternalContext
  <1> HIDE DEF rule
  <1>5. rule # Unset
    BY DEF rule
  <1>6. CASE r.token # Unset /\ ~rule.apiKeys
    <2>1. StepUp(act, r.session, r.token, now) = "none"
      BY <1>5, <1>6 DEF StepUp, rule
    <2>2. StepUpGuard(rule, ctx)
      BY <1>4, <1>6 DEF StepUpGuard
    <2> QED BY <2>1, <2>2 DEF rule
  <1>7. CASE ~(r.token # Unset /\ ~rule.apiKeys)
    <2>1. StepUp(act, r.session, r.token, now) = StepUpChallenge(rule, r.session, now)
      BY <1>5, <1>7 DEF StepUp, rule
    <2>2. PICK v : v = SessionValues(r.session, now)
      OBVIOUS
    <2>3. ctx.session = v
      BY <1>4, <2>2
    <2>4. StepUpChallenge(rule, r.session, now) = "none" <=>
            /\ v.present /\ AcrClause(v.acr, rule.acr)
            /\ WithinAge(v.authAge, rule.authAge) /\ WithinAge(v.mfaAge, rule.mfaAge)
            /\ rule.amr # {} => rule.amr \cap v.amr # {}
      BY <1>2, <1>3, <2>2, ChallengesAgree
    <2>5. StepUpGuard(rule, ctx) <=>
            /\ v.present /\ AcrClause(v.acr, rule.acr)
            /\ WithinAge(v.authAge, rule.authAge) /\ WithinAge(v.mfaAge, rule.mfaAge)
            /\ rule.amr # {} => rule.amr \cap v.amr # {}
      BY <1>4, <1>7, <2>3 DEF StepUpGuard
    <2> QED BY <2>1, <2>4, <2>5 DEF rule
  <1> QED BY <1>6, <1>7

\* A token never adds a permission.
LEMMA TokenAddsNothing ==
  ASSUME NEW t \in Tokens, t # Unset, NEW held, NEW org PROVE TokenPermissions(t, held, org) \subseteq held
PROOF
  <1>1. t.kind \in {"full", "strings", "fine"}
    BY AuthzAssumption
  <1> QED BY <1>1 DEF TokenPermissions

\* What the masks allow, some role gives.
LEMMA MaskRests ==
  ASSUME NEW act, NEW roles, NEW perms, perms \subseteq HeldPermissions(roles), NEW roleActions,
         PolicyDecision(act, perms, roles, roleActions) = "allow"
  PROVE  \E r \in roles : RoleGives(r, act)
PROOF
  <1>1. perms \cap PermissionAllow(act) # {} \/ roles \cap RoleAllow(act) # {}
    BY DEF PolicyDecision
  <1>2. CASE roles \cap RoleAllow(act) # {}
    BY <1>2 DEF RoleGives
  <1>3. CASE perms \cap PermissionAllow(act) # {}
    <2>1. PICK q \in perms : q \in PermissionAllow(act)
      BY <1>3
    <2>2. PICK r \in roles : q \in RolePermissions(r)
      BY <2>1 DEF HeldPermissions
    <2>3. act \in AuthzConfig.permissions[q].actions
      BY <2>1 DEF PermissionAllow
    <2>4. act \in UNION {AuthzConfig.permissions[x].actions : x \in RolePermissions(r)}
      BY <2>2, <2>3
    <2> QED BY <2>2, <2>4 DEF RoleGives
  <1> QED BY <1>1, <1>2, <1>3

\* A positive answer rests on the masks, or on a public resource.
LEMMA AnswerRests ==
  ASSUME NEW act, NEW e, NEW req, NEW perms, NEW roles, NEW now, Respond(act, e, req, perms, roles, now).allow
  PROVE  \/ PolicyDecision(act, perms, roles, req.token = Unset \/ req.token.kind = "full") = "allow"
         \/ PublicRead(act, e)
PROOF
  <1> DEFINE m == PolicyDecision(act, perms, roles, req.token = Unset \/ req.token.kind = "full")
  <1> SUFFICES ASSUME m # "allow", ~PublicRead(act, e) PROVE FALSE
    OBVIOUS
  <1>1. Respond(act, e, req, perms, roles, now) = [allow |-> FALSE, reason |-> "token_permission_ceiling"]
        \/ Respond(act, e, req, perms, roles, now) = [allow |-> FALSE, reason |-> m]
    BY DEF Respond
  <1> HIDE DEF m
  <1>2. Respond(act, e, req, perms, roles, now).allow = FALSE
    BY <1>1
  <1> QED BY <1>2

\* The context of a request is read from the subject's snapshot alone.
LEMMA ContextUnchanged ==
  ASSUME subjectSnap' = subjectSnap, NEW req, NEW perms, NEW t
  PROVE  InternalContext(req, perms, t)' = InternalContext(req, perms, t)
PROOF
  <1> QED BY DEF InternalContext, ResourceScopeRoles, OwnerOrgs

\* evaluate_batch_at: the answer rests on what the snapshots say, and those are recent enough.
LEMMA EvaluateSafe ==
  ASSUME DecisionInv, NEW req \in AuthzRequests, NEW acts, Evaluate(req, acts) PROVE DecisionInv'
PROOF
  <1> DEFINE now == authzClock
             e == Enriched(req.jwt)
             roles == CheckedRoles(now, req.jwt, e)
             held == HeldPermissions(roles)
             refusal == TokenRefusal(req.token, now, e.subject, e.resource.org)
             perms == IF req.token = Unset THEN held ELSE TokenPermissions(req.token, held, e.resource.org)
             answers == [act \in acts |-> IF refusal # "none" THEN [allow |-> FALSE, reason |-> refusal]
                                          ELSE Respond(act, e, req, perms, roles, now)]
  <1>1. /\ granted' = granted /\ place' = place /\ subjectSnap' = subjectSnap /\ resourceSnap' = resourceSnap
        /\ authzClock' = authzClock /\ heldAt' = heldAt /\ stoodAt' = stoodAt
    BY DEF Evaluate
  <1>2. decision' = IF EnrichError(req.subject, now) # "none" THEN [kind |-> "error", why |-> EnrichError(req.subject, now)]
                    ELSE [kind |-> "answer", at |-> now, req |-> req, answers |-> answers]
    BY DEF Evaluate
  <1>3. StoreNoted' /\ SubjectStood(subjectSnap', heldAt') /\ ResourceStood(resourceSnap', stoodAt')
    BY <1>1 DEF DecisionInv, StoreNoted
  <1>4. CASE EnrichError(req.subject, now) # "none"
    <2>1. decision'.kind = "error"
      BY <1>2, <1>4
    <2>2. DecisionsSound'
      BY <2>1 DEF DecisionsSound, RevocationBounded, StepUpAgrees, Answered
    <2> QED BY <1>3, <2>2 DEF DecisionInv
  <1>5. CASE EnrichError(req.subject, now) = "none"
    <2>1. /\ subjectSnap # Unset /\ resourceSnap # Unset
          /\ SnapshotFresh(subjectSnap.fetched, now) /\ SnapshotFresh(resourceSnap.fetched, now)
      BY <1>5 DEF EnrichError
    <2>2. now \in Nat /\ HostSkew \in Nat /\ SnapshotAge \in Nat
      BY AuthzAssumption DEF DecisionInv, StoreNoted
    <2>3. decision'.at = now /\ decision'.req = req /\ decision'.answers = answers
      BY <1>2, <1>5
    <2>4. PICK p \in Places : /\ stoodAt[p] >= resourceSnap.fetched - HostSkew
                              /\ resourceSnap.place.public = p.public /\ OrgOf(resourceSnap.parents, resourceSnap.place.org) = p.org
      BY <2>1 DEF DecisionInv, ResourceStood
    <2>5. stoodAt[p] >= now - SnapshotAge - HostSkew
      <3>1. stoodAt[p] \in Int /\ resourceSnap.fetched \in Int
        BY <2>1 DEF DecisionInv, StoreNoted, ResourceStood
      <3>2. now - resourceSnap.fetched <= SnapshotAge
        BY <2>1 DEF SnapshotFresh
      <3> QED BY <2>2, <2>4, <3>1, <3>2
    <2>6. \A a \in subjectSnap.assignments : a \in Assignments /\ heldAt[a] >= now - SnapshotAge - HostSkew
      <3> SUFFICES ASSUME NEW a \in subjectSnap.assignments PROVE a \in Assignments /\ heldAt[a] >= now - SnapshotAge - HostSkew
        OBVIOUS
      <3>1. a \in Assignments /\ heldAt[a] >= subjectSnap.fetched - HostSkew /\ subjectSnap.fetched \in Int
        BY <2>1 DEF DecisionInv, SubjectStood
      <3>2. heldAt[a] \in Int
        BY <3>1 DEF DecisionInv, StoreNoted
      <3>3. now - subjectSnap.fetched <= SnapshotAge
        BY <2>1 DEF SnapshotFresh
      <3> QED BY <2>2, <3>1, <3>2, <3>3
    <2>7. e.resource.org = p.org /\ e.resource.public = p.public
      <3>1. e.resource = [resourceSnap.place EXCEPT !.org = OrgOf(resourceSnap.parents, resourceSnap.place.org)]
        BY DEF Enriched
      <3>2. DOMAIN resourceSnap.place = PlaceFields
        BY <2>1 DEF DecisionInv, ResourceStood
      <3> HIDE DEF e
      <3> QED BY <2>4, <3>1, <3>2 DEF PlaceFields
    <2>8. perms \subseteq held
      <3>1. req.token \in Tokens
        BY DEF AuthzRequests
      <3> HIDE DEF held
      <3> QED BY <3>1, TokenAddsNothing
    <2>same. e.subject.type = req.subject.type /\ e.subject.id = req.subject.id
      <3>1. e.subject = subjectSnap.subject
        BY DEF Enriched
      <3> HIDE DEF e
      <3> QED BY <1>5, <3>1 DEF EnrichError
    <2> HIDE DEF e
    <2>9. \A r \in roles : \/ \E a \in subjectSnap.assignments : /\ a.role = r /\ ActiveAt(a, now) /\ CoversResource(a.scope, p.org)
                           \/ JwtRoles(req.jwt) # {}
                           \/ /\ req.subject.type = "role" /\ r = req.subject.id
                              /\ \A a \in subjectSnap.assignments : a.role = r => ~ActiveAt(a, now)
      <3> DEFINE active == {a \in subjectSnap.assignments : ActiveAt(a, now)}
      <3> SUFFICES ASSUME NEW r \in roles, JwtRoles(req.jwt) = {}
                   PROVE  \/ \E a \in subjectSnap.assignments : /\ a.role = r /\ ActiveAt(a, now) /\ CoversResource(a.scope, p.org)
                          \/ /\ req.subject.type = "role" /\ r = req.subject.id
                             /\ \A a \in subjectSnap.assignments : a.role = r => ~ActiveAt(a, now)
        OBVIOUS
      <3>1. r \in {a.role : a \in {b \in active : BelongsToSubject(b, e) /\ CoversResource(b.scope, p.org)}} \/ r \in OwnRole(active, e)
        BY <2>7 DEF CheckedRoles
      <3>2. CASE r \in OwnRole(active, e)
        <4>1. /\ e.subject.type = "role" /\ r = e.subject.id
              /\ \/ {a \in active : a.role = e.subject.id} = {}
                 \/ \E a \in {b \in active : b.role = e.subject.id} : CoversResource(a.scope, e.resource.org)
          BY <3>2 DEF OwnRole
        <4> QED BY <2>7, <2>same, <4>1
      <3> QED BY <3>1, <3>2
    <2> HIDE DEF roles, held, perms, refusal
    <2>10. ASSUME NEW act \in acts, answers[act].allow
           PROVE  \/ \E a \in Assignments : \E x \in Places :
                       /\ heldAt[a] >= now - SnapshotAge - HostSkew /\ stoodAt[x] >= now - SnapshotAge - HostSkew
                       /\ ActiveAt(a, now) /\ CoversResource(a.scope, x.org) /\ RoleGives(a.role, act)
                  \/ JwtRoles(req.jwt) # {}
                  \/ act = "read" /\ \E x \in Places : x.public /\ stoodAt[x] >= now - SnapshotAge - HostSkew
                  \/ /\ req.subject.type = "role" /\ RoleGives(req.subject.id, act)
                     /\ \A a \in subjectSnap.assignments : a.role = req.subject.id => ~ActiveAt(a, now)
      <3>1. Respond(act, e, req, perms, roles, now).allow
        <4>1. answers[act] = IF refusal # "none" THEN [allow |-> FALSE, reason |-> refusal] ELSE Respond(act, e, req, perms, roles, now)
          OBVIOUS
        <4>2. CASE refusal # "none"
          <5>1. answers[act].allow = FALSE
            BY <4>1, <4>2
          <5> QED BY <2>10, <5>1
        <4> QED BY <2>10, <4>1, <4>2
      <3>2. CASE PublicRead(act, e)
        BY <2>5, <2>7, <3>2 DEF PublicRead
      <3>3. CASE PolicyDecision(act, perms, roles, req.token = Unset \/ req.token.kind = "full") = "allow"
        <4>1. PICK r \in roles : RoleGives(r, act)
          BY <2>8, <3>3, MaskRests DEF held
        <4> QED BY <2>5, <2>6, <2>9, <4>1
      <3> QED BY <3>1, <3>2, <3>3, AnswerRests
    <2>11. DOMAIN answers = acts
      OBVIOUS
    <2> HIDE DEF answers
    <2>12. RevocationBounded'
      <3> SUFFICES ASSUME NEW act \in acts, answers[act].allow
                   PROVE  \/ \E a \in Assignments : \E x \in Places :
                               /\ heldAt[a] >= now - SnapshotAge - HostSkew /\ stoodAt[x] >= now - SnapshotAge - HostSkew
                               /\ ActiveAt(a, now) /\ CoversResource(a.scope, x.org) /\ RoleGives(a.role, act)
                          \/ JwtRoles(req.jwt) # {}
                          \/ act = "read" /\ \E x \in Places : x.public /\ stoodAt[x] >= now - SnapshotAge - HostSkew
                          \/ /\ req.subject.type = "role" /\ RoleGives(req.subject.id, act)
                             /\ \A a \in subjectSnap.assignments : a.role = req.subject.id => ~ActiveAt(a, now)
        BY <1>1, <2>3, <2>11 DEF RevocationBounded, Window
      <3> QED BY <2>10
    <2>13. StepUpAgrees'
      <3>1. PICK t \in Nat : t = now
        BY <2>2
      <3>2. InternalContext(req, {}, t)' = InternalContext(req, {}, t)
        BY <1>1, ContextUnchanged
      <3>3. decision'.at = t /\ decision'.req = req /\ decision'.answers = answers
        BY <2>3, <3>1
      <3> SUFFICES ASSUME NEW act \in acts, StepUpRule(act) # Unset, InternalContext(req, {}, t)'.tokenValid
                   PROVE  StepUp(act, req.session, req.token, t) = "none" <=> StepUpGuard(StepUpRule(act), InternalContext(req, {}, t)')
        BY <2>11, <3>3 DEF StepUpAgrees
      <3>4. PICK ctx : ctx = InternalContext(req, {}, t)
        OBVIOUS
      <3>5. ctx.tokenValid
        BY <3>2, <3>4
      <3>6. StepUp(act, req.session, req.token, t) = "none" <=> StepUpGuard(StepUpRule(act), ctx)
        BY <3>4, <3>5, StepUpsAgree
      <3> QED BY <3>2, <3>4, <3>6
    <2> QED BY <1>3, <2>12, <2>13 DEF DecisionInv, DecisionsSound
  <1> QED BY <1>4, <1>5

\* Every step keeps the invariant.
LEMMA DecisionStep == DecisionInv /\ [AuthzNext]_authzVars => DecisionInv'
PROOF
  <1> SUFFICES ASSUME DecisionInv, [AuthzNext]_authzVars PROVE DecisionInv'
    OBVIOUS
  <1>1. CASE UNCHANGED authzVars
    BY <1>1 DEF authzVars, DecisionInv, StoreNoted, DecisionsSound, RevocationBounded, StepUpAgrees, Answered, Window,
                InternalContext, ResourceScopeRoles, OwnerOrgs
  <1>2. CASE \E req \in RequestsAsked : Evaluate(req, Actions)
    BY <1>2, EvaluateSafe, AuthzAssumption
  <1> QED BY <1>1, <1>2, StoreSafe, FetchSubjectSafe, FetchResourceSafe DEF AuthzNext

\* An action is allowed only on grants that stood within the snapshot age and the lead of the host's
\* clock, and the two translations of step-up give the same answer (LocalEvaluator, policy_generator).
THEOREM DecisionsAreSound == AuthzSpec => []DecisionsSound
PROOF
  <1>1. AuthzInit => DecisionInv
    <2> SUFFICES ASSUME AuthzInit PROVE DecisionInv
      OBVIOUS
    <2>1. FirstPlace \in Places
      BY AuthzAssumption DEF FirstPlace
    <2>2. StoreNoted
      <3>1. /\ authzClock = 1 /\ granted = {} /\ place = FirstPlace /\ heldAt = [a \in Assignments |-> -1000]
            /\ stoodAt = [p \in Places |-> IF p = FirstPlace THEN 1 ELSE -1000]
        BY DEF AuthzInit
      <3> QED BY <2>1, <3>1 DEF StoreNoted
    <2>3. SubjectStood(subjectSnap, heldAt) /\ ResourceStood(resourceSnap, stoodAt)
      BY DEF AuthzInit, SubjectStood, ResourceStood
    <2>4. DecisionsSound
      BY Undecided DEF AuthzInit
    <2> QED BY <2>2, <2>3, <2>4 DEF DecisionInv
  <1>2. DecisionInv => DecisionsSound
    BY DEF DecisionInv
  <1> QED BY <1>1, <1>2, DecisionStep, PTL DEF AuthzSpec
=============================================================================
