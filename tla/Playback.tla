------------------------------ MODULE Playback ------------------------------
(***************************************************************************)
(* Main's display and Sub's sound over whole movies and replays.  The two  *)
(* meet where Main takes a frame, for Sub expands the next frame, sound    *)
(* first, after that; module Handoff has the hand-over itself.  The beam   *)
(* and the PCM chip share the clock.                                       *)
(***************************************************************************)
EXTENDS Display, WaveRing

vars == <<displayVars, soundVars>>

Init == DisplayInit /\ SoundInit

\* Main can take a frame once Sub has expanded it.
TakeFrame == Build /\ wrote > frame /\ UNCHANGED soundVars

MainStep == (Load \/ Show) /\ UNCHANGED soundVars

\* The first timed sector arrives after the flip of frame 0.
StartSound == frame = 1 /\ pc = "build" /\ PcmOn /\ UNCHANGED displayVars

\* process_frame of the frame after the one that Main has.
Expand ==
  /\ wrote <= LastFrame
  /\ wrote <= IF pc = "build" THEN frame ELSE frame + 1
  /\ IF wrote \in Dropped THEN LoseChunk ELSE WriteChunk
  /\ UNCHANGED displayVars

Prepare == Prefill /\ UNCHANGED displayVars

Beam ==
  \/ VBlankStart /\ IF pc = "done" THEN UNCHANGED soundVars ELSE PlayOn
  \/ (VBlankEnd \/ Drift \/ Turn) /\ UNCHANGED soundVars

Replay == Rewind /\ SoundRestart

Sub == Prepare \/ StartSound \/ Expand

Next == TakeFrame \/ MainStep \/ Sub \/ Beam \/ Replay

Spec == Init /\ [][Next]_vars

\* Both processors run and the beam moves.
FairSpec ==
  /\ Spec
  /\ WF_vars(TakeFrame \/ MainStep \/ Replay) /\ WF_vars(Sub) /\ WF_vars(Beam)

\* A movie always ends, and with it the next one: no split of the patterns
\* leaves a run that fits no budget.
MovieEnds == []<>(pc = "done")

\* While chunks are still to come, the chip has not overtaken the writer by so
\* much that the distance, taken on the ring, would count as a lead.
NotLapped == running /\ wrote <= LastFrame => ahead > SyncMax - Ring
=============================================================================
