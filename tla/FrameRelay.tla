---------------------------- MODULE FrameRelay -----------------------------
(***************************************************************************)
(* What the exchange of Word-RAM banks promises to the movie: frames go    *)
(* through Sub (made), the bank (given), Main (read) and the screen (seen) *)
(* in order, each exactly once.  Sub is at most one frame ahead of the     *)
(* bank Main holds, no bank is given before Main has read the last one,    *)
(* and after the last frame the movie starts again.                        *)
(***************************************************************************)
EXTENDS Integers

CONSTANT FrameCounts

VARIABLES frames, made, given, read, seen

vars == <<frames, made, given, read, seen>>

Init ==
  /\ frames \in FrameCounts
  /\ made = 0 /\ given = 0 /\ read = 0 /\ seen = 0

Make ==
  /\ made < frames /\ made = given
  /\ made' = made + 1
  /\ UNCHANGED <<frames, given, read, seen>>

Give ==
  /\ given < made /\ given = read
  /\ given' = given + 1
  /\ UNCHANGED <<frames, made, read, seen>>

Read ==
  /\ read < given /\ read = seen
  /\ read' = read + 1
  /\ UNCHANGED <<frames, made, given, seen>>

Show ==
  /\ seen < read
  /\ seen' = seen + 1
  /\ UNCHANGED <<frames, made, given, read>>

Restart ==
  /\ seen = frames
  /\ made' = 0 /\ given' = 0 /\ read' = 0 /\ seen' = 0
  /\ UNCHANGED frames

Next == Make \/ Give \/ Read \/ Show \/ Restart

Spec == Init /\ [][Next]_vars

FairSpec == Spec /\ WF_vars(Next)
=============================================================================
