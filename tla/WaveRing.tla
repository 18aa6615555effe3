------------------------------ MODULE WaveRing ------------------------------
(***************************************************************************)
(* The wave memory of the PCM chip (src/boot/movieplay_sp.s): Sub appends  *)
(* the sound of each frame that it expands, the chip plays on by itself,   *)
(* and the writer jumps when the distance between them, measured on the    *)
(* ring from the high byte of the chip's position, is out of bounds.       *)
(***************************************************************************)
EXTENDS Integers

CONSTANTS
  Ring,      \* WAVE_RING_END
  Lead,      \* SYNC_LEAD
  SyncMin, SyncMax,
  Page,      \* 0x100: the chip's position is read without its low byte
  Samples,   \* audio_bytes of a frame
  Rate,      \* samples played in a VBlank
  PreFrames, \* h_audio_pre_sec
  Dropped    \* frames whose control block is rejected, its sound with it

ASSUME WaveRingAssumption ==
  /\ Ring \in Nat /\ Page \in 1 .. Ring /\ Ring % Page = 0
  /\ Lead \in 0 .. Ring - 1 /\ SyncMin \in Nat /\ SyncMax \in 0 .. Ring - 1
  /\ Samples \in Nat \ {0} /\ Rate \in Nat \ {0} /\ PreFrames \in Nat
  \* safe_audio_prefetch; a chunk and a VBlank are far shorter than the ring.
  /\ Lead + PreFrames * Samples <= SyncMax
  /\ SyncMax + Samples + Page <= Ring /\ Rate <= SyncMax

VARIABLES
  running, \* pcm_running
  write,   \* write_ptr
  play,    \* where the chip is
  ahead,   \* history: samples written and not played, less those overtaken
           \* (no lower than -Ring)
  wrote    \* frames that Sub is done with

soundVars == <<running, write, play, ahead, wrote>>

SoundInit ==
  /\ running = FALSE /\ write = Lead /\ play = 0 /\ ahead = 0 /\ wrote = 0

\* PCM_PLAY_H
PlayPage == play - (play % Page)

\* arm_audio_lp, and frame 0's own chunk, unless its block is rejected
Queued == (IF 0 \in Dropped THEN PreFrames ELSE PreFrames + 1) * Samples

Prefill ==
  /\ ~running /\ wrote = 0
  /\ write' = (write + Queued) % Ring
  /\ ahead' = Queued
  /\ wrote' = 1
  /\ UNCHANGED <<running, play>>

\* pcm_on: the channel starts at SYNC_LEAD.
PcmOn ==
  /\ ~running /\ wrote = 1
  /\ running' = TRUE
  /\ play' = Lead
  /\ UNCHANGED <<write, ahead, wrote>>

\* write_wave_chunk, wwc_live_sync
InBounds_Bug(lead) == TRUE
InBounds(lead) == lead >= SyncMin /\ lead <= SyncMax

WriteChunk ==
  /\ running
  /\ IF InBounds((write - PlayPage) % Ring)
     THEN /\ write' = (write + Samples) % Ring
          /\ ahead' = ahead + Samples
     ELSE /\ write' = (PlayPage + Lead + Samples) % Ring
          /\ ahead' = PlayPage - play + Lead + Samples
  /\ wrote' = wrote + 1
  /\ UNCHANGED <<running, play>>

\* process_frame drops a control block with a foreign frame_seq: the writer
\* stays where it is and the frame counts as done.
LoseChunk ==
  /\ running
  /\ wrote' = wrote + 1
  /\ UNCHANGED <<running, write, play, ahead>>

\* The chip plays through one VBlank period.
PlayOn ==
  /\ play' = IF running THEN (play + Rate) % Ring ELSE play
  /\ ahead' = IF running /\ ahead >= Rate - Ring THEN ahead - Rate ELSE ahead
  /\ UNCHANGED <<running, write, wrote>>

\* stream_start; the chip's position stays what it was.
SoundRestart ==
  /\ running' = FALSE /\ write' = Lead /\ ahead' = 0 /\ wrote' = 0
  /\ UNCHANGED play

----------------------------------------------------------------------------
\* After every chunk, whatever chunks were lost before it, the chip has sound
\* to play, none of it further off than the ring is long, and the chunk is not
\* behind it but for what the missing low byte hides: also when the chip had
\* overtaken the writer, which shows only as a distance that is too large.
SoundAhead ==
  [][wrote' > wrote /\ running /\ wrote \notin Dropped =>
       ahead' > Samples - Page /\ ahead' <= Ring]_soundVars
=============================================================================
