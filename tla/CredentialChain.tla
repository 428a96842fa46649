-------------------------- MODULE CredentialChain --------------------------
(***************************************************************************)
(* The default credentials provider of aws-credentials: callers that find  *)
(* no cached credentials take the gate of KeyedSingleflight, walk the      *)
(* chain environment, profile, ECS, IMDS and cache what they find.  The    *)
(* profile is read by a command that runs on a blocking thread and shares  *)
(* ownership of the gate with its caller.                                  *)
(***************************************************************************)
EXTENDS Integers, FiniteSets

CONSTANTS Walkers, GateIds,       \* callers; allocations of a gate
          Skew, Fallback, StaticTtl, \* CREDENTIAL_REFRESH_SKEW, _FALLBACK, _CACHE_STATIC_TTL
          Lifetimes,              \* how long issued credentials live; 0: no expiry
          MaxCredTime, MaxWalks

ASSUME CredentialAssumption ==
  /\ Skew \in Nat /\ Fallback \in Nat /\ StaticTtl \in Nat \ {0}
  /\ Lifetimes \subseteq Nat /\ GateIds \subseteq Nat /\ "nobody" \notin Walkers

VARIABLES gateOf,     \* gates: the gate the map's weak reference names, or 0
          locked,     \* gate -> the walker that holds its mutex
          walker, command, \* each caller and the command it may have started
          cachedCred, credTime, walks

credVars == <<gateOf, locked, walker, command, cachedCred, credTime, walks>>

NoGate == 0
Nobody == "nobody"
NoCred == [expires |-> 0, until |-> 0]
IdleWalker == [pc |-> "idle", gate |-> NoGate, found |-> NoCred, detached |-> FALSE]
NoCommand == [state |-> "none", group |-> FALSE]

CredInit ==
  /\ gateOf = NoGate /\ locked = [g \in GateIds |-> Nobody]
  /\ walker = [w \in Walkers |-> IdleWalker] /\ command = [w \in Walkers |-> NoCommand]
  /\ cachedCred = NoCred /\ credTime = 0 /\ walks = 0

Move(w, pc) == walker' = [walker EXCEPT ![w].pc = pc]
WalkerAt(w, pc) == walker[w].pc = pc
Owners(g) == {w \in Walkers : walker[w].gate = g}

-----------------------------------------------------------------------------
(* KeyedSingleflight                                                       *)

\* lock: a gate somebody still owns is shared, otherwise a new one replaces it.
LookUpGate(w) ==
  /\ WalkerAt(w, "miss")
  /\ \E g \in GateIds :
       /\ IF gateOf # NoGate /\ Owners(gateOf) # {} THEN g = gateOf
          ELSE Owners(g) = {} /\ \A h \in GateIds : Owners(h) = {} => g <= h
       /\ gateOf' = g /\ walker' = [walker EXCEPT ![w].gate = g, ![w].pc = "lock"]
  /\ UNCHANGED <<locked, command, cachedCred, credTime, walks>>

TakeGate(w) ==
  /\ WalkerAt(w, "lock") /\ locked[walker[w].gate] = Nobody
  /\ locked' = [locked EXCEPT ![walker[w].gate] = w] /\ Move(w, "recheck")
  /\ UNCHANGED <<gateOf, command, cachedCred, credTime, walks>>

\* Drop of KeyedSingleflightGuard: the mutex, then the count of owners, then,
\* under the lock of the map, the entry if it is still this gate.
Unlock(w) ==
  /\ WalkerAt(w, "unlock") /\ locked' = [locked EXCEPT ![walker[w].gate] = Nobody] /\ Move(w, "count")
  /\ UNCHANGED <<gateOf, command, cachedCred, credTime, walks>>

CountOwners(w) ==
  /\ WalkerAt(w, "count")
  /\ walker' = [walker EXCEPT ![w] = IF Owners(@.gate) = {w} THEN [@ EXCEPT !.pc = "forget"] ELSE IdleWalker]
  /\ UNCHANGED <<gateOf, locked, command, cachedCred, credTime, walks>>

ForgetGate(w) ==
  /\ WalkerAt(w, "forget") /\ walker' = [walker EXCEPT ![w] = IdleWalker]
  /\ gateOf' = IF gateOf = walker[w].gate THEN NoGate ELSE gateOf
  /\ UNCHANGED <<locked, command, cachedCred, credTime, walks>>

-----------------------------------------------------------------------------
(* Credentials in time                                                     *)

\* metadata_refresh_after, credential_cache_ttl.  Environment credentials carry
\* no refresh time.
RefreshAfter(expires) == IF expires = 0 THEN credTime + Fallback ELSE expires - Skew
Issued(lifetime) ==
  LET expires == IF lifetime = 0 THEN 0 ELSE credTime + lifetime
  IN [expires |-> expires, until |-> RefreshAfter(expires)]
EnvironmentCred == [expires |-> 0, until |-> credTime + StaticTtl]

Served(c) == c # NoCred /\ credTime < c.until

-----------------------------------------------------------------------------
(* The chain                                                               *)

\* resolve_environment_credentials: half a pair is an error, not an absence.
FromEnvironment(keyId, secret) ==
  IF keyId /\ secret THEN {EnvironmentCred} ELSE {}
EnvironmentFails(keyId, secret) == keyId # secret

\* resolve_ecs_task_credentials_uri, validate_ecs_full_uri: "none", "ok", "error".
EcsTarget(full, relative) ==
  CASE full # "none" ->
         IF full = "https" \/ full = "local http" THEN "ok" ELSE "error"
    [] full = "none" /\ relative = "none" -> "none"
    [] full = "none" /\ relative = "path" -> "ok"
    [] full = "none" /\ relative = "authority" -> "error"

\* resolve_ecs_authorization_token: a named file must be readable, bounded,
\* text and not empty.
EcsTokenUsable(file) == file \in {"none", "token"}

\* resolve_ecs_task_credentials: what one look at the task metadata yields.
AskEcs(full, relative, file, answer) ==
  CASE EcsTarget(full, relative) = "none" -> "absent"
    [] EcsTarget(full, relative) = "error" -> "failed"
    [] EcsTarget(full, relative) = "ok" ->
         IF EcsTokenUsable(file) /\ answer = "credentials" THEN "found" ELSE "failed"

\* resolve_imds_credentials: a session token, the role's name, its credentials.
AskImds(disabled, answers) ==
  IF disabled THEN "absent"
  ELSE IF answers = <<"token", "role", "credentials">> THEN "found" ELSE "failed"

EcsReplies ==
  {AskEcs(full, relative, file, answer) :
     full \in {"none", "https", "local http", "remote http", "userinfo", "invalid"},
     relative \in {"none", "path", "authority"}, file \in {"none", "token", "broken"},
     answer \in {"credentials", "refused", "oversized", "incomplete"}}
ImdsReplies ==
  {AskImds(disabled, answers) : disabled \in BOOLEAN,
     answers \in {"token", "empty", "refused"} \X {"role", "nameless"} \X {"credentials", "incomplete"}}

\* resolve_profile_credentials once the command has ended in the given way.
ProfileReply(ending) == IF ending = "exported" THEN "found" ELSE "failed"

\* load_credentials up to the gate.
LoadCredentials(w) ==
  /\ WalkerAt(w, "idle") /\ walks < MaxWalks /\ walks' = walks + 1
  /\ IF Served(cachedCred) THEN UNCHANGED walker ELSE Move(w, "miss")
  /\ UNCHANGED <<gateOf, locked, command, cachedCred, credTime>>

\* The second look at the cache, under the gate.
Recheck(w) ==
  /\ WalkerAt(w, "recheck") /\ Move(w, IF Served(cachedCred) THEN "unlock" ELSE "environment")
  /\ UNCHANGED <<gateOf, locked, command, cachedCred, credTime, walks>>

Found(w, creds, otherwise) ==
  IF creds = {} THEN Move(w, otherwise)
  ELSE \E c \in creds : walker' = [walker EXCEPT ![w].pc = "store", ![w].found = c]

TryEnvironment(w) ==
  /\ WalkerAt(w, "environment")
  /\ \E keyId, secret \in BOOLEAN :
       IF EnvironmentFails(keyId, secret) THEN Move(w, "unlock")
       ELSE Found(w, FromEnvironment(keyId, secret), "profile")
  /\ UNCHANGED <<gateOf, locked, command, cachedCred, credTime, walks>>

\* should_try_profile_credentials, then run_bounded_command on a blocking thread.
StartCommand(w) ==
  /\ WalkerAt(w, "profile")
  /\ \/ Move(w, "ecs") /\ UNCHANGED command
     \/ /\ walker' = [walker EXCEPT ![w].pc = "command"]
        /\ command' = [command EXCEPT ![w] = [state |-> "running", group |-> TRUE]]
  /\ UNCHANGED <<gateOf, locked, cachedCred, credTime, walks>>

\* Mutant: a command whose group could not be signalled counts as gone.
TerminateAndReap_Trusting(w, killed, alive) == "reaped"

\* terminate_and_reap: killed says whether the signal reached the group, alive
\* whether the group still has members afterwards.
TerminateAndReap(w, killed, alive) ==
  IF killed \/ ~alive THEN "reaped" ELSE "failed"

\* CommandSupervisor::wait and finish: an exit, too much output or the deadline
\* all end in terminate_and_reap.
EndCommand(w) ==
  /\ command[w].state = "running"
  /\ \E killed, alive \in BOOLEAN, ending \in {"exported", "refused", "oversized", "timed out"} :
       LET result == TerminateAndReap(w, killed, alive)
           reply == IF result = "reaped" THEN ProfileReply(ending) ELSE "failed"
       IN /\ command' = [command EXCEPT ![w] = [state |-> result, group |-> ~killed /\ alive]]
          /\ IF walker[w].detached THEN Move(w, "unlock")
             ELSE \E l \in Lifetimes : Found(w, IF reply = "found" THEN {Issued(l)} ELSE {}, "ecs")
  /\ UNCHANGED <<gateOf, locked, cachedCred, credTime, walks>>

TryEcs(w) ==
  /\ WalkerAt(w, "ecs")
  /\ \E reply \in EcsReplies, l \in Lifetimes : Found(w, IF reply = "found" THEN {Issued(l)} ELSE {}, "imds")
  /\ UNCHANGED <<gateOf, locked, command, cachedCred, credTime, walks>>

TryImds(w) ==
  /\ WalkerAt(w, "imds")
  /\ \E reply \in ImdsReplies, l \in Lifetimes : Found(w, IF reply = "found" THEN {Issued(l)} ELSE {}, "unlock")
  /\ UNCHANGED <<gateOf, locked, command, cachedCred, credTime, walks>>

\* store_cached_credentials: credentials due for a refresh are not kept.
StoreCredentials(w) ==
  /\ WalkerAt(w, "store") /\ Move(w, "unlock")
  /\ cachedCred' = IF credTime < walker[w].found.until THEN walker[w].found ELSE NoCred
  /\ UNCHANGED <<gateOf, locked, command, credTime, walks>>

\* The caller's future is dropped while it waits.  A running command keeps the
\* ownership it was given.
CancelWalk(w) ==
  /\ walks < MaxWalks /\ walks' = walks + 1 /\ ~walker[w].detached
  /\ \/ WalkerAt(w, "lock") /\ walker' = [walker EXCEPT ![w] = IdleWalker]
     \/ walker[w].pc \in {"ecs", "imds"} /\ Move(w, "unlock")
     \/ WalkerAt(w, "command") /\ walker' = [walker EXCEPT ![w].detached = TRUE]
  /\ UNCHANGED <<gateOf, locked, command, cachedCred, credTime>>

CredTick ==
  /\ credTime < MaxCredTime /\ credTime' = credTime + 1
  /\ UNCHANGED <<gateOf, locked, walker, command, cachedCred, walks>>

CredNext ==
  \/ \E w \in Walkers :
       \/ LoadCredentials(w) \/ LookUpGate(w) \/ TakeGate(w) \/ Recheck(w) \/ TryEnvironment(w)
       \/ StartCommand(w) \/ EndCommand(w) \/ TryEcs(w) \/ TryImds(w) \/ StoreCredentials(w)
       \/ Unlock(w) \/ CountOwners(w) \/ ForgetGate(w) \/ CancelWalk(w)
  \/ CredTick

-----------------------------------------------------------------------------
(* Properties                                                              *)

Walking == {"environment", "profile", "command", "ecs", "imds", "store"}

\* A cached answer is never within the refresh skew of its expiry, however many
\* callers resolved and stored credentials in between (metadata_refresh_after,
\* credential_cache_ttl).
CacheKeepsSkew == (Served(cachedCred) /\ cachedCred.expires # 0) => credTime + Skew < cachedCred.expires

\* A walker, and a command whose caller was cancelled, holds the mutex of the
\* gate it entered by until the command has ended
\* (resolve_profile_credentials_async: "canceling its async waiter cannot
\* release the gate before the command exits"); and a command reported as
\* finished leaves no process of its group behind (terminate_and_reap).
GateCoversCommand ==
  \A w \in Walkers :
    /\ walker[w].pc \in Walking => locked[walker[w].gate] = w
    /\ command[w].state = "running" => WalkerAt(w, "command")
    /\ command[w].state = "reaped" => ~command[w].group

\* No credential is served near its expiry, and no command outlives the gate it was started under
\* (resolve, cache_credentials, resolve_profile_credentials_async).
ChainSound == GateCoversCommand /\ CacheKeepsSkew

=============================================================================
