----------------------------- MODULE DiskJournal -----------------------------
(***************************************************************************)
(* The disk buffer of buffered-writes: every mutation appends one frame    *)
(* with the whole retention state and syncs it; a journal that is full is  *)
(* replaced by a checkpoint; opening the journal restores the last         *)
(* complete frame.  The retention state is the sequence of mutations in    *)
(* it.                                                                     *)
(***************************************************************************)
EXTENDS Integers, Sequences, FiniteSets, SequencesExt

CONSTANTS
  Mutations,      \* identities of requests that change the retention state
  MaxFrames,      \* frames that fit max_journal_bytes
  MaxDiskFaults   \* I/O errors, crashes and power losses of one behaviour

ASSUME DiskAssumption == MaxFrames \in Nat \ {0} /\ MaxDiskFaults \in Nat

VARIABLES
  journal,    \* the journal file as the operating system shows it
  shadow,     \* other files its directory entry may still name after a power loss
  provider,   \* DiskJournalInner and the operation it runs
  diskAcked,  \* mutations whose caller was told they succeeded
  diskFaults

diskVars == <<journal, shadow, provider, diskAcked, diskFaults>>

NoOp == "none"

\* synced: frames that survive a power loss; settled: so does the header.
Absent == [header |-> "none", settled |-> FALSE, frames |-> <<>>, synced |-> 0]

Closed(state) == [pc |-> "down", state |-> state, corrupt |-> FALSE, failed |-> FALSE, op |-> NoOp]

DiskInit ==
  /\ journal = Absent /\ shadow = {} /\ provider = Closed(<<>>)
  /\ diskAcked = {} /\ diskFaults = 0

-----------------------------------------------------------------------------
(* Recovery                                                                *)

\* restore_frames: scans to the first frame that is not complete.
Intact(frames) ==
  {n \in 0 .. Len(frames) : \A i \in 1 .. n : frames[i].form = "complete"}

\* Mutant: the first checkpoint is restored.
Recover_FirstFrame(file) ==
  [ok |-> file.header # "torn", state |-> IF file.frames = <<>> THEN <<>> ELSE file.frames[1].state,
   corrupt |-> FALSE, kept |-> Len(file.frames)]

\* recover_journal: a torn header refuses, an incomplete tail is cut off, a
\* corrupt one stays and blocks mutations.
Recover(file) ==
  LET n == CHOOSE x \in Intact(file.frames) : \A y \in Intact(file.frames) : y <= x
  IN [ok |-> file.header # "torn",
      state |-> IF n = 0 THEN <<>> ELSE file.frames[n].state,
      corrupt |-> n < Len(file.frames) /\ file.frames[n + 1].form = "garbage",
      kept |-> n]

\* A file's first n frames, all of them on the disk, and the same with damage
\* to the last.
CutAt(file, n) == [file EXCEPT !.frames = SubSeq(@, 1, n), !.synced = n, !.settled = TRUE]
Damaged(file, n, form) == [CutAt(file, n) EXCEPT !.frames[n].form = form]

\* What a power loss may leave of a file.
Images(file) ==
  IF ~file.settled
  THEN {Absent} \cup {[Absent EXCEPT !.header = h, !.settled = TRUE] : h \in {"torn", "ok"}}
  ELSE {CutAt(file, n) : n \in file.synced .. Len(file.frames)}
       \cup {Damaged(file, n, form) : n \in file.synced + 1 .. Len(file.frames), form \in {"torn", "garbage"}}

AfterPowerLoss == UNION {Images(file) : file \in {journal} \cup shadow}

DiskFault == diskFaults < MaxDiskFaults /\ diskFaults' = diskFaults + 1

\* open_with_max_bytes: takes the writer lock, recovers, syncs the directory.
OpenJournal ==
  LET r == Recover(journal)
      cut == r.kept < Len(journal.frames) /\ ~r.corrupt
  IN /\ provider.pc = "down" /\ r.ok
     /\ IF journal.header = "none"
        THEN /\ provider' = [Closed(<<>>) EXCEPT !.pc = "header"]
             /\ UNCHANGED <<journal, shadow>>
        ELSE /\ provider' = [Closed(r.state) EXCEPT !.pc = "ready", !.corrupt = r.corrupt]
             /\ journal' = IF cut THEN CutAt(journal, r.kept) ELSE journal
             /\ shadow' = {}
     /\ UNCHANGED <<diskAcked, diskFaults>>

\* ensure_journal_initialized on an empty file.
WriteHeader ==
  /\ provider.pc = "header"
  /\ journal' = [journal EXCEPT !.header = "ok"] /\ shadow' = {Absent}
  /\ provider' = [provider EXCEPT !.pc = "headersync"]
  /\ UNCHANGED <<diskAcked, diskFaults>>

SyncHeader ==
  /\ provider.pc = "headersync"
  /\ journal' = [journal EXCEPT !.settled = TRUE] /\ shadow' = {}
  /\ provider' = [provider EXCEPT !.pc = "ready"]
  /\ UNCHANGED <<diskAcked, diskFaults>>

-----------------------------------------------------------------------------
(* Mutations                                                               *)

Usable == provider.pc = "ready" /\ ~provider.corrupt /\ ~provider.failed
HasRoom == Len(journal.frames) + 1 <= MaxFrames

\* update_state up to prepare_append.
UpdateState(m) ==
  /\ Usable /\ m \notin ToSet(provider.state)
  /\ provider' = [provider EXCEPT !.op = m, !.pc = IF HasRoom THEN "frame" ELSE "compact"]
  /\ UNCHANGED <<journal, shadow, diskAcked, diskFaults>>

\* write_frame: the frame's header, then its payload.
WriteFrame ==
  /\ provider.pc = "frame"
  /\ journal' = [journal EXCEPT !.frames =
                   Append(@, [state |-> Append(provider.state, provider.op), form |-> "torn"])]
  /\ provider' = [provider EXCEPT !.pc = "payload"]
  /\ UNCHANGED <<shadow, diskAcked, diskFaults>>

WritePayload ==
  /\ provider.pc = "payload"
  /\ journal' = [journal EXCEPT !.frames[Len(journal.frames)].form = "complete"]
  /\ provider' = [provider EXCEPT !.pc = "sync"]
  /\ UNCHANGED <<shadow, diskAcked, diskFaults>>

\* The frame is durable and becomes the state; its caller may be gone.
SyncFrame ==
  /\ provider.pc = "sync"
  /\ journal' = [journal EXCEPT !.synced = Len(journal.frames), !.settled = TRUE]
  /\ provider' = [provider EXCEPT !.pc = "ready", !.state = Append(@, provider.op), !.op = NoOp]
  /\ diskAcked' \in {diskAcked, diskAcked \cup {provider.op}}
  /\ UNCHANGED <<shadow, diskFaults>>

\* Any step fails: failed_commit blocks mutations until the journal is opened
\* again.  What was written stays.
WriteFails ==
  /\ provider.pc \in {"frame", "payload", "sync", "compact", "dirsync"} /\ DiskFault
  /\ provider' = [provider EXCEPT !.pc = "ready", !.op = NoOp, !.failed = TRUE]
  /\ UNCHANGED <<journal, shadow, diskAcked>>

\* compact_now.
CompactNow ==
  /\ Usable /\ journal.frames # <<>>
  /\ provider' = [provider EXCEPT !.pc = "compact"]
  /\ UNCHANGED <<journal, shadow, diskAcked, diskFaults>>

\* replace_checkpoint: a synced file with one frame is renamed over the journal.
ReplaceCheckpoint ==
  /\ provider.pc = "compact"
  /\ journal' = [header |-> "ok", settled |-> TRUE, synced |-> 1,
                 frames |-> <<[state |-> provider.state, form |-> "complete"]>>]
  /\ shadow' = {journal}
  /\ provider' = [provider EXCEPT !.pc = "dirsync"]
  /\ UNCHANGED <<diskAcked, diskFaults>>

\* sync_directory, then the append that needed the room, or Full.
SyncDirectory ==
  /\ provider.pc = "dirsync" /\ shadow' = {}
  /\ provider' = IF provider.op # NoOp /\ HasRoom THEN [provider EXCEPT !.pc = "frame"]
                 ELSE [provider EXCEPT !.pc = "ready", !.op = NoOp]
  /\ UNCHANGED <<journal, diskAcked, diskFaults>>

-----------------------------------------------------------------------------
(* Stops                                                                   *)

\* The last owner drops the provider, or the process dies: the file stays as
\* the operating system has it.
StopProvider ==
  /\ provider.pc # "down"
  /\ \/ provider.pc = "ready" /\ UNCHANGED diskFaults
     \/ DiskFault
  /\ provider' = Closed(provider.state)
  /\ UNCHANGED <<journal, shadow, diskAcked>>

PowerLoss ==
  /\ DiskFault /\ journal' \in AfterPowerLoss /\ shadow' = {}
  /\ provider' = Closed(provider.state)
  /\ UNCHANGED diskAcked

DiskNext ==
  \/ OpenJournal \/ WriteHeader \/ SyncHeader \/ \E m \in Mutations : UpdateState(m)
  \/ WriteFrame \/ WritePayload \/ SyncFrame \/ WriteFails
  \/ CompactNow \/ ReplaceCheckpoint \/ SyncDirectory \/ StopProvider \/ PowerLoss

-----------------------------------------------------------------------------
(* Properties                                                              *)

Register == INSTANCE DurableRegister
  WITH Requests <- Mutations, history <- provider.state, acked <- diskAcked

\* The journal is a durable register: mutations take effect in one order, none
\* twice, and recovery yields a prefix with all acknowledged ones
\* (update_state, restore_frames).
DiskIsRegister == Register!RegisterSpec
=============================================================================
