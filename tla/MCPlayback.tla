----------------------------- MODULE MCPlayback -----------------------------
(***************************************************************************)
(* Movies of four frames.  A VBlank has six words, a CPU write costs one,  *)
(* the bundle takes three with its guard and a palette two more, so the    *)
(* last VBlank of a frame with a palette leaves one word for patterns.     *)
(* The palette switches at frames 1 and 2.  A ring of 48 samples, five for *)
(* a frame and two in a VBlank, starts 15 ahead; the sound of frame 2 is   *)
(* lost.                                                                   *)
(*                                                                         *)
(* The stopwatch turns over after four VBlanks and a half, where the real  *)
(* one takes seven and a half, and the clock owes two VBlanks at most, so  *)
(* that stalls of Main of up to five reach both limits.  The run about the *)
(* stopwatch has the real seven, and one short load.                       *)
(***************************************************************************)
EXTENDS Playback

Run(len, word) == [len |-> len, word |-> word]

MCSwitches == << [frame |-> 1, seg |-> "s1"], [frame |-> 2, seg |-> "s2"] >>

\* Nothing; exactly one budget; one word more; two runs, the second split; one
\* and a half budgets, by normal DMA and from Word-RAM.
MCRunSets == { <<>>,
               <<Run(5, TRUE)>>,
               <<Run(6, TRUE)>>,
               <<Run(2, TRUE), Run(4, FALSE)>>,
               <<Run(9, FALSE)>>,
               <<Run(9, TRUE)>> }

\* One run that is one budget.
MCShortLoad == { <<Run(5, TRUE)>> }
=============================================================================
