--------------------------- MODULE DurableRegister ---------------------------
(***************************************************************************)
(* What a durable buffer provider promises: mutations take effect one      *)
(* after another, an acknowledged mutation stays, and one that was never   *)
(* acknowledged may still take effect or be forgotten by a crash.          *)
(***************************************************************************)
EXTENDS Sequences, SequencesExt

CONSTANT Requests
VARIABLES history, acked

RegisterVars == <<history, acked>>

RegisterInit == history = <<>> /\ acked = {}

TakeEffect(m) ==
  /\ m \notin ToSet(history)
  /\ history' = Append(history, m)
  /\ acked' \in {acked, acked \cup {m}}

\* A crash forgets a suffix nobody was told of.
Forget ==
  /\ \E n \in 0 .. Len(history) :
       /\ history' = SubSeq(history, 1, n)
       /\ acked \subseteq ToSet(SubSeq(history, 1, n))
  /\ UNCHANGED acked

RegisterNext == (\E m \in Requests : TakeEffect(m)) \/ Forget
RegisterSpec == RegisterInit /\ [][RegisterNext]_RegisterVars
=============================================================================
