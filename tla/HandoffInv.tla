----------------------------- MODULE HandoffInv ----------------------------
(***************************************************************************)
(* The inductive invariant of Handoff: where Main can be at each point of  *)
(* Sub's program, how many frames each has counted there, and what each    *)
(* bank holds.  HandoffProofs proves it; MCHandoff checks it.              *)
(***************************************************************************)
EXTENDS Handoff

Building == {"build_names", "build_patterns", "return_bank"}

\* CMD_STREAM is asserted through the whole startup, CMD_SWAP from the request
\* to the answer, and COMCMD1 from the end of the stage copy to its release.
Streaming ==
  \/ mpc \in {"wait_ready", "copy_stage", "ack_stage", "stage_taken", "start_playback"}
  \/ mpc \in Building \cup {"play_loop", "publish"} /\ frame_no = 0

MainOK ==
  /\ cmd0 = IF Streaming THEN "stream"
            ELSE IF swap_request_pending = 1 /\ mpc # "swap_clear" THEN "swap" ELSE "none"
  /\ cmd1 = 1 <=> mpc = "stage_taken"
  /\ swap_request_pending = 1 =>
       mpc \in {"publish", "play_loop", "swap_wait", "swap_clear"} /\ frame_no > 0
  /\ mpc \in {"swap_wait", "swap_clear"} => swap_request_pending = 1
  /\ mpc = "play_loop" => (started = 1 <=> frame_no # 0)
  /\ mpc \in Building \cup {"publish", "start_playback", "start_wait", "swap_wait",
                        "swap_clear"} => started = 1
  /\ mpc \in {"start_playback", "start_wait"} => frame_no = 0
  /\ mpc = "publish" /\ swap_request_pending = 1 => frame_no < frames - 1
  /\ mpc = "play_loop" /\ swap_request_pending = 1 => frame_no < frames

\* The answers that Main can be waiting for, or looking at, while it has asked.
Asked == swap_request_pending = 1 /\ mpc \in {"publish", "play_loop", "swap_wait"}

\* Main's part of the loop between two exchanges of the timed stream.
InLoop ==
  \/ mpc \in Building \cup {"publish", "play_loop", "swap_wait"} /\ frame_no > 0
  \/ mpc = "start_wait"
  \/ mpc = "swap_clear" /\ answer = "ready"

SubOK ==
  /\ spc = "command" => mpc \in {"boot", "wait_ready"} /\ stat0 = "none"
  /\ spc \in {"stream_start", "offer_stage", "stage_answer"} =>
       mpc = "wait_ready" /\ stat0 \in {"none", "stream"}
  /\ spc = "wait_stage" =>
       mpc \in {"wait_ready", "copy_stage", "ack_stage", "stage_taken"} /\ stat0 = "stage"
  /\ spc = "stage_back" => mpc = "stage_taken" /\ stat0 = "stage"
  /\ spc = "load_wr0" => mpc \in {"stage_taken", "wait_ready"} /\ stat0 = "none"
  /\ spc \in {"swap_wr", "load_wr1", "swap_wr_back", "frame0", "frame0_handoff",
              "frame0_ready"} =>
       mpc = "wait_ready" /\ stat0 = "none"
  /\ spc = "frame0_wait" =>
       /\ stat0 = "ready"
       /\ \/ mpc = "wait_ready"
          \/ /\ mpc \in Building \cup {"play_loop", "publish", "start_playback", "start_wait"}
             /\ frame_no = 0
  /\ spc = "startup_ready" => mpc = "start_wait" /\ stat0 = "ready"
  /\ spc \in {"stream_loop", "expand", "wait_swap", "movie_end"} =>
       InLoop /\ stat0 = "none"
  /\ spc \in {"swap_ready", "swap_end"} => Asked /\ stat0 = "none"
  /\ spc = "wait_release" =>
       (Asked \/ (mpc = "swap_clear" /\ answer = "ready")) /\ stat0 = "ready"
  /\ spc = "end_wait" =>
       (Asked \/ (mpc = "swap_clear" /\ answer = "end")) /\ stat0 = "end"
  /\ spc \in {"end_mute", "wait_replay"} =>
       /\ (mpc = "swap_clear" /\ answer = "end") \/ mpc \in {"tail", "wait_ready"}
       /\ stat0 = "none"

\* Sub has given Given frames to Main since the movie started.
HasGiven == {"frame0_ready", "frame0_wait", "startup_ready", "stream_loop", "expand",
             "wait_swap", "swap_ready", "wait_release", "movie_end"}
Given == frame_idx - (IF spc \in {"expand", "wait_swap"} THEN 1 ELSE 0)

\* Main is at the frame Sub gave last, or, with the answer to its request still
\* unseen, at the one before.
CountOK ==
  /\ spc \in HasGiven => Given >= 1
  /\ spc \in {"frame0_handoff", "frame0_ready", "frame0_wait", "startup_ready"} =>
       frame_idx = 1
  /\ spc \in {"startup_ready", "stream_loop", "expand", "wait_swap", "movie_end"} =>
       IF mpc \in {"play_loop", "swap_wait"} THEN frame_no = Given
                                             ELSE frame_no = Given - 1
  /\ spc \in {"swap_ready", "wait_release"} =>
       IF mpc = "publish" THEN frame_no = Given - 2 ELSE frame_no = Given - 1
  /\ spc = "movie_end" => frame_idx = frames
  /\ spc \in {"swap_end", "end_wait", "end_mute", "wait_replay"} =>
       /\ frame_idx = frames
       /\ mpc # "publish" /\ (mpc # "wait_ready" => frame_no = frames)
  /\ mpc = "boot" => spc = "command" /\ frame_no = 0 /\ frame_idx = 0

\* A bank that holds frame n for Main: all of it, or the block that the
\* frame_seq check rejected, with nothing to load.
Holds(b, n) ==
  \/ ctrl[b] = n /\ loads[b] = n
  \/ ctrl[b] = Foreign /\ loads[b] = NoRuns

DataOK ==
  /\ spc \in HasGiven => Holds(mainBank, Given - 1)
  /\ spc = "frame0_handoff" => Holds(subBank, 0)
  /\ spc = "expand" => ctrl[subBank] = frame_idx - 1
  /\ spc = "wait_swap" => Holds(subBank, frame_idx - 1)
  /\ mpc = "build_patterns" => names = ctrl[mainBank] /\ fadeCram = ctrl[mainBank]
  /\ mpc \in {"return_bank", "publish"} =>
       \/ names = frame_no /\ patterns = frame_no /\ fadeCram = frame_no
       \/ names = Foreign /\ patterns = NoRuns /\ fadeCram = Foreign

\* The two preloads are in different banks, and stay with their parity through
\* every exchange.
WordOK ==
  /\ spc = "swap_wr" => word[subBank] = 0
  /\ spc = "load_wr1" => word[mainBank] = 0
  /\ spc = "swap_wr_back" => word[mainBank] = 0 /\ word[subBank] = 1
  /\ spc \in {"frame0", "frame0_handoff"} => word[subBank] = 0 /\ word[mainBank] = 1
  /\ spc \in HasGiven =>
       /\ word_owned_bank = Parity(Given)
       /\ word[subBank] = Parity(Given) /\ word[mainBank] = Parity(Given - 1)

StageOK ==
  /\ spc = "offer_stage" => loads[subBank] = Stage
  /\ spc \in {"stage_answer", "wait_stage"} => loads[mainBank] = Stage
  /\ mpc = "ack_stage" => patterns = Stage

Playing == {"startup_ready", "stream_loop", "expand", "wait_swap", "swap_ready",
            "wait_release", "movie_end", "swap_end", "end_wait", "end_mute"}

SoundOK ==
  /\ pcm_on = 1 => spc \in Playing
  /\ spc \in Playing \/ mpc \in {"start_playback", "start_wait"} =>
       shown \notin {Junk, Black}

\* At every point of its program each CPU knows, from the words it has seen, where
\* the other one can be; every property of Handoff but its liveness follows.
Inv == /\ TypeOK /\ MainOK /\ SubOK /\ CountOK
       /\ DataOK /\ WordOK /\ StageOK /\ SoundOK
=============================================================================
