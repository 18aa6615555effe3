------------------------------ MODULE Handoff ------------------------------
(***************************************************************************)
(* The two CPUs of the player and the one thing they share: two physical   *)
(* Word-RAM banks, of which Main reads one and Sub writes the other, and   *)
(* the gate-array words that arrange the exchange (COMCMD0 and COMCMD1,    *)
(* written by Main; COMSTAT0, written by Sub).                             *)
(*                                                                         *)
(* Main is src/boot/movieplay_ip.s, Sub is src/boot/movieplay_sp.s.  Each  *)
(* action is one stretch of a CPU's program between two accesses to what   *)
(* the other CPU can see; a polling loop is the guard of the action that   *)
(* leaves it.  What fills a bank (CD reads, ring buffers) is in other      *)
(* modules: here a bank holds the name of the frame, or of the boot data,  *)
(* that was last written in it.                                            *)
(*                                                                         *)
(* An operator Action_Bug is Action with a plausible bug in it.  Nothing   *)
(* uses it but the mutation runs that PROJECT.json lists.                  *)
(***************************************************************************)
EXTENDS Integers

CONSTANT FrameCounts   \* the movie lengths considered

ASSUME FrameCountsAssumption == FrameCounts \subseteq Nat \ {0}

(* What a part of a bank can hold, besides the frames 0, 1, 2, ... *)
Junk    == -1    \* nothing meant for Main
Stage   == -2    \* the boot stage: dictionary and VRAM sidecar
Foreign == -3    \* a control block whose frame_seq is not the expected one
NoRuns  == -4    \* O_NRUN = 0: nothing to load
Black   == -5    \* on the screen: the player's own frame -1

VARIABLES
  frames,              \* h_frames, fixed by the stream's header
  cmd0, cmd1, stat0,   \* the gate-array words
  mainBank,            \* the physical bank mapped to Main (MEMMODE.RET)
  ctrl,                \* per bank: the control block at CTRL_SCR
  loads,               \* per bank: the run records at O_LOADS (front of the bank)
  word,                \* per bank: the parity whose WordBuf it holds
  mpc, frame_no, started, swap_request_pending, answer,
  names, patterns, fadeCram, shown,
  spc, frame_idx, word_owned_bank,
  pcm_on               \* the channel sounds (PCM_ONOFF)

regs     == <<cmd0, cmd1, stat0>>
banks    == <<ctrl, loads, word>>
build    == <<names, patterns, fadeCram, shown>>
mainLoop == <<frame_no, started, swap_request_pending, answer>>
subLoop  == <<frame_idx, word_owned_bank, pcm_on>>
mainVars == <<mpc, mainLoop, build>>
subVars  == <<spc, subLoop>>
vars     == <<frames, regs, mainBank, banks, mainVars, subVars>>

Bank    == {0, 1}
subBank == 1 - mainBank
Content == {Junk, Stage, Foreign, NoRuns, Black} \cup Nat
Parity(n) == n % 2

MainPc == {"boot", "wait_ready", "copy_stage", "ack_stage", "stage_taken",
           "play_loop", "swap_wait", "swap_clear", "build_names",
           "build_patterns", "return_bank", "publish", "start_playback",
           "start_wait", "tail"}
SubPc  == {"command", "stream_start", "offer_stage", "stage_answer",
           "wait_stage", "stage_back", "load_wr0", "swap_wr", "load_wr1",
           "swap_wr_back", "frame0", "frame0_handoff", "frame0_ready",
           "frame0_wait", "startup_ready", "stream_loop", "expand",
           "wait_swap", "swap_ready", "wait_release", "movie_end", "swap_end",
           "end_wait", "end_mute", "wait_replay"}

TypeOK ==
  /\ frames \in FrameCounts
  /\ cmd0 \in {"none", "stream", "swap"}
  /\ cmd1 \in {0, 1}
  /\ stat0 \in {"none", "stream", "stage", "ready", "end"}
  /\ mainBank \in Bank
  /\ ctrl \in [Bank -> Content]
  /\ loads \in [Bank -> Content]
  /\ word \in [Bank -> {Junk, 0, 1}]
  /\ mpc \in MainPc
  /\ frame_no \in 0 .. frames
  /\ started \in {0, 1}
  /\ swap_request_pending \in {0, 1}
  /\ answer \in {"none", "ready", "end"}
  /\ names \in Content /\ patterns \in Content
  /\ fadeCram \in Content /\ shown \in Content
  /\ spc \in SubPc
  /\ frame_idx \in 0 .. frames
  /\ word_owned_bank \in {0, 1}
  /\ pcm_on \in {0, 1}

Init ==
  /\ frames \in FrameCounts
  /\ cmd0 = "none" /\ cmd1 = 0 /\ stat0 = "none"
  /\ mainBank \in Bank
  /\ ctrl = [b \in Bank |-> Junk]
  /\ loads = [b \in Bank |-> Junk]
  /\ word = [b \in Bank |-> Junk]
  /\ mpc = "boot" /\ frame_no = 0 /\ answer = "none"
  /\ started = 0 /\ swap_request_pending = 0
  /\ names = Junk /\ patterns = Junk /\ fadeCram = Junk /\ shown = Junk
  /\ spc = "command" /\ frame_idx = 0 /\ word_owned_bank = 0
  /\ pcm_on = 0

----------------------------------------------------------------------------
(* Main *)

MainGoes(from, to) == mpc = from /\ mpc' = to

\* cmd_wait_startup, cmd_wait_ready: assert CMD_STREAM, keep it asserted.
RequestStream ==
  /\ mpc \in {"boot", "tail"} /\ mpc' = "wait_ready"
  /\ cmd0' = "stream"
  /\ UNCHANGED <<frames, cmd1, stat0, mainBank, banks, mainLoop, build, subVars>>

SeeBootStage ==
  /\ MainGoes("wait_ready", "copy_stage")
  /\ stat0 = "stage"
  /\ UNCHANGED <<frames, regs, mainBank, banks, mainLoop, build, subVars>>

\* consume_boot_stage: the dictionary and the sidecar leave the bank.
CopyBootStage ==
  /\ MainGoes("copy_stage", "ack_stage")
  /\ patterns' = loads[mainBank]
  /\ UNCHANGED <<frames, regs, mainBank, banks, mainLoop, names, fadeCram,
                 shown, subVars>>

AckBootStage ==
  /\ MainGoes("ack_stage", "stage_taken")
  /\ cmd1' = 1
  /\ UNCHANGED <<frames, cmd0, stat0, mainBank, banks, mainLoop, build, subVars>>

BootStageTaken ==
  /\ MainGoes("stage_taken", "wait_ready")
  /\ stat0 = "none"
  /\ cmd1' = 0
  /\ UNCHANGED <<frames, cmd0, stat0, mainBank, banks, mainLoop, build, subVars>>

SeeFrame0Ready_NoReset ==
  /\ MainGoes("wait_ready", "play_loop")
  /\ stat0 = "ready"
  /\ shown' = Black
  /\ started' = 0 /\ swap_request_pending' = 0
  /\ UNCHANGED <<frames, regs, mainBank, banks, frame_no, answer, names,
                 patterns, fadeCram, subVars>>

\* Frame 0 is in Main's bank: show_frame_minus_one, reset the frame loop.
SeeFrame0Ready ==
  /\ MainGoes("wait_ready", "play_loop")
  /\ stat0 = "ready"
  /\ shown' = Black
  /\ frame_no' = 0 /\ started' = 0 /\ swap_request_pending' = 0
  /\ UNCHANGED <<frames, regs, mainBank, banks, answer, names, patterns,
                 fadeCram, subVars>>

\* play_loop: frame 0 is already here; a later frame needs an exchange, which
\* build_frame may have requested already.
PlayLoop ==
  /\ mpc = "play_loop"
  /\ \/ /\ started = 0
        /\ started' = 1 /\ mpc' = "build_names"
        /\ UNCHANGED <<cmd0, swap_request_pending>>
     \/ /\ started = 1 /\ swap_request_pending = 0
        /\ cmd0' = "swap" /\ swap_request_pending' = 1
        /\ mpc' = "swap_wait" /\ UNCHANGED started
     \/ /\ started = 1 /\ swap_request_pending = 1
        /\ mpc' = "swap_wait"
        /\ UNCHANGED <<cmd0, started, swap_request_pending>>
  /\ UNCHANGED <<frames, cmd1, stat0, mainBank, banks, frame_no, answer, build,
                 subVars>>

\* swap_finish_or_end
SwapAnswered ==
  /\ MainGoes("swap_wait", "swap_clear")
  /\ stat0 \in {"ready", "end"}
  /\ answer' = stat0
  /\ cmd0' = "none"
  /\ UNCHANGED <<frames, cmd1, stat0, mainBank, banks, frame_no, started,
                 swap_request_pending, build, subVars>>

SwapFinished ==
  /\ mpc = "swap_clear"
  /\ stat0 = "none"
  /\ swap_request_pending' = 0
  /\ mpc' = IF answer = "end" THEN "tail" ELSE "build_names"
  /\ UNCHANGED <<frames, regs, mainBank, banks, frame_no, started, answer,
                 build, subVars>>

BuildNames_ReturnsBank ==
  /\ MainGoes("build_names", "build_patterns")
  /\ names' = ctrl[mainBank]
  /\ fadeCram' = ctrl[mainBank]
  /\ IF frame_no # 0 /\ frame_no < frames - 1
       THEN cmd0' = "swap" /\ swap_request_pending' = 1
       ELSE UNCHANGED <<cmd0, swap_request_pending>>
  /\ UNCHANGED <<frames, cmd1, stat0, mainBank, banks, frame_no, started,
                 answer, patterns, shown, subVars>>

\* build_frame: name updates and the inline CRAM image come from CTRL_SCR ...
BuildNames ==
  /\ MainGoes("build_names", "build_patterns")
  /\ names' = ctrl[mainBank]
  /\ fadeCram' = ctrl[mainBank]
  /\ UNCHANGED <<frames, regs, mainBank, banks, mainLoop, patterns, shown, subVars>>

\* ... and the patterns from O_LOADS, some VBlanks later.
BuildPatterns ==
  /\ MainGoes("build_patterns", "return_bank")
  /\ patterns' = loads[mainBank]
  /\ UNCHANGED <<frames, regs, mainBank, banks, mainLoop, names, fadeCram,
                 shown, subVars>>

\* bf_flip: swap_begin, except for the first and the final frame.
ReturnBank ==
  /\ MainGoes("return_bank", "publish")
  /\ IF frame_no # 0 /\ frame_no < frames - 1
       THEN cmd0' = "swap" /\ swap_request_pending' = 1
       ELSE UNCHANGED <<cmd0, swap_request_pending>>
  /\ UNCHANGED <<frames, cmd1, stat0, mainBank, banks, frame_no, started, answer,
                 build, subVars>>

\* bf_publish_frame, commit_frame, and the end of play_loop's body.
Publish ==
  /\ mpc = "publish"
  /\ shown' = names
  /\ IF frame_no = 0
       THEN mpc' = "start_playback" /\ UNCHANGED frame_no
       ELSE mpc' = "play_loop" /\ frame_no' = frame_no + 1
  /\ UNCHANGED <<frames, regs, mainBank, banks, started, swap_request_pending,
                 answer, names, patterns, fadeCram, subVars>>

StartPlayback ==
  /\ MainGoes("start_playback", "start_wait")
  /\ cmd0' = "none"
  /\ UNCHANGED <<frames, cmd1, stat0, mainBank, banks, mainLoop, build, subVars>>

PlaybackStarted_NoWait ==
  /\ MainGoes("start_wait", "play_loop")
  /\ frame_no' = frame_no + 1
  /\ UNCHANGED <<frames, regs, mainBank, banks, started, swap_request_pending,
                 answer, build, subVars>>

PlaybackStarted ==
  /\ MainGoes("start_wait", "play_loop")
  /\ stat0 = "none"
  /\ frame_no' = frame_no + 1
  /\ UNCHANGED <<frames, regs, mainBank, banks, started, swap_request_pending,
                 answer, build, subVars>>

MainNext ==
  \/ RequestStream \/ SeeBootStage \/ CopyBootStage \/ AckBootStage
  \/ BootStageTaken \/ SeeFrame0Ready \/ PlayLoop \/ SwapAnswered
  \/ SwapFinished \/ BuildNames \/ BuildPatterns \/ ReturnBank \/ Publish
  \/ StartPlayback \/ PlaybackStarted

----------------------------------------------------------------------------
(* Sub *)

SubGoes(from, to) == spc = from /\ spc' = to

\* bchg #0,(MEMMODE+1) and swap_settle, somewhere in Sub's program.
Exchange(from, to) ==
  /\ SubGoes(from, to)
  /\ mainBank' = 1 - mainBank

\* command_loop, do_stream
AcceptStream ==
  /\ SubGoes("command", "stream_start")
  /\ cmd0 = "stream"
  /\ stat0' = "stream"
  /\ UNCHANGED <<frames, cmd0, cmd1, mainBank, banks, mainVars, subLoop>>

\* stream_start up to CDC_STOP: the boot stage overlays the front of the bank.
LoadStage ==
  /\ SubGoes("stream_start", "offer_stage")
  /\ loads' = [loads EXCEPT ![subBank] = Stage]
  /\ word' = [word EXCEPT ![subBank] = Junk]
  /\ pcm_on' = 0
  /\ UNCHANGED <<frames, regs, mainBank, ctrl, mainVars, frame_idx, word_owned_bank>>

GiveStage_NoExchange ==
  /\ SubGoes("offer_stage", "stage_answer")
  /\ UNCHANGED <<frames, regs, mainBank, banks, mainVars, subLoop>>

GiveStage ==
  /\ Exchange("offer_stage", "stage_answer")
  /\ UNCHANGED <<frames, regs, banks, mainVars, subLoop>>

OfferStage ==
  /\ SubGoes("stage_answer", "wait_stage")
  /\ stat0' = "stage"
  /\ UNCHANGED <<frames, cmd0, cmd1, mainBank, banks, mainVars, subLoop>>

TakeStageBack ==
  /\ Exchange("wait_stage", "stage_back")
  /\ cmd1 # 0
  /\ UNCHANGED <<frames, regs, banks, mainVars, subLoop>>

StageReturned ==
  /\ SubGoes("stage_back", "load_wr0")
  /\ stat0' = "none"
  /\ UNCHANGED <<frames, cmd0, cmd1, mainBank, banks, mainVars, subLoop>>

\* Real time, not a handshake: nothing tells Sub that Main has sampled the
\* COMSTAT0 = 0 of StageReturned.  Main polls it every few microseconds; Sub
\* reads several sectors of 13 ms each before it next writes COMSTAT0.
StageAnswerSampled == mpc # "stage_taken"

\* The two WordBuf preloads, each into its own bank, and two exchanges.
LoadWr(parity, from, to) ==
  /\ SubGoes(from, to)
  /\ StageAnswerSampled
  /\ word' = [word EXCEPT ![subBank] = parity]
  /\ UNCHANGED <<frames, regs, mainBank, ctrl, loads, mainVars, subLoop>>

SwapWr(from, to) ==
  /\ Exchange(from, to)
  /\ UNCHANGED <<frames, regs, banks, mainVars, subLoop>>

\* routing_prepare, the BODY arm and expand_frame for frame 0.
ExpandFrame0 ==
  /\ SubGoes("frame0", "frame0_handoff")
  /\ ctrl' = [ctrl EXCEPT ![subBank] = 0]
  /\ loads' = [loads EXCEPT ![subBank] = 0]
  /\ frame_idx' = 1
  /\ UNCHANGED <<frames, regs, mainBank, word, mainVars, word_owned_bank, pcm_on>>

GiveFrame0_KeepsOwner ==
  /\ Exchange("frame0_handoff", "frame0_ready")
  /\ UNCHANGED <<frames, regs, banks, mainVars, subLoop>>

GiveFrame0 ==
  /\ Exchange("frame0_handoff", "frame0_ready")
  /\ word_owned_bank' = 1
  /\ UNCHANGED <<frames, regs, banks, mainVars, frame_idx, pcm_on>>

Frame0Ready ==
  /\ SubGoes("frame0_ready", "frame0_wait")
  /\ stat0' = "ready"
  /\ UNCHANGED <<frames, cmd0, cmd1, mainBank, banks, mainVars, subLoop>>

StartTimedSuffix_NoWait ==
  /\ SubGoes("frame0_wait", "startup_ready")
  /\ pcm_on' = 1
  /\ UNCHANGED <<frames, regs, mainBank, banks, mainVars, frame_idx, word_owned_bank>>

\* timed_suffix_start .. arm_frame1: PCM starts with the first timed sector.
StartTimedSuffix ==
  /\ SubGoes("frame0_wait", "startup_ready")
  /\ cmd0 = "none"
  /\ pcm_on' = 1
  /\ UNCHANGED <<frames, regs, mainBank, banks, mainVars, frame_idx, word_owned_bank>>

StartupReady ==
  /\ SubGoes("startup_ready", "stream_loop")
  /\ stat0' = "none"
  /\ UNCHANGED <<frames, cmd0, cmd1, mainBank, banks, mainVars, subLoop>>

ProcessFrame_OneMore ==
  /\ SubGoes("stream_loop", "expand")
  /\ frame_idx <= frames
  /\ frame_idx' = frame_idx + 1
  /\ ctrl' = [ctrl EXCEPT ![subBank] = frame_idx]
  /\ UNCHANGED <<frames, regs, mainBank, loads, word, mainVars,
                 word_owned_bank, pcm_on>>

\* stream_loop, process_frame, fetch_control, and the frame_seq check: a
\* mismatch clears O_NRUN and O_NLOAD and leaves the fetched block in CTRL_SCR.
ProcessFrame ==
  /\ spc = "stream_loop"
  /\ frame_idx < frames
  /\ frame_idx' = frame_idx + 1
  /\ \/ /\ spc' = "expand"
        /\ ctrl' = [ctrl EXCEPT ![subBank] = frame_idx]
        /\ UNCHANGED loads
     \/ /\ spc' = "wait_swap"
        /\ ctrl' = [ctrl EXCEPT ![subBank] = Foreign]
        /\ loads' = [loads EXCEPT ![subBank] = NoRuns]
  /\ UNCHANGED <<frames, regs, mainBank, word, mainVars, word_owned_bank, pcm_on>>

ExpandFrame ==
  /\ SubGoes("expand", "wait_swap")
  /\ loads' = [loads EXCEPT ![subBank] = frame_idx - 1]
  /\ UNCHANGED <<frames, regs, mainBank, ctrl, word, mainVars, subLoop>>

GiveFrame ==
  /\ Exchange("wait_swap", "swap_ready")
  /\ cmd0 = "swap"
  /\ word_owned_bank' = 1 - word_owned_bank
  /\ UNCHANGED <<frames, regs, banks, mainVars, frame_idx, pcm_on>>

FrameReady ==
  /\ SubGoes("swap_ready", "wait_release")
  /\ stat0' = "ready"
  /\ UNCHANGED <<frames, cmd0, cmd1, mainBank, banks, mainVars, subLoop>>

FrameReleased_NoWait ==
  /\ SubGoes("wait_release", "stream_loop")
  /\ stat0' = "none"
  /\ UNCHANGED <<frames, cmd0, cmd1, mainBank, banks, mainVars, subLoop>>

FrameReleased ==
  /\ SubGoes("wait_release", "stream_loop")
  /\ cmd0 = "none"
  /\ stat0' = "none"
  /\ UNCHANGED <<frames, cmd0, cmd1, mainBank, banks, mainVars, subLoop>>

\* stream_loop after the last frame, movie_end
MovieEnd ==
  /\ SubGoes("stream_loop", "movie_end")
  /\ frame_idx >= frames
  /\ UNCHANGED <<frames, regs, mainBank, banks, mainVars, subLoop>>

ExchangeAtEnd ==
  /\ Exchange("movie_end", "swap_end")
  /\ cmd0 = "swap"
  /\ UNCHANGED <<frames, regs, banks, mainVars, subLoop>>

AnswerEnd ==
  /\ SubGoes("swap_end", "end_wait")
  /\ stat0' = "end"
  /\ UNCHANGED <<frames, cmd0, cmd1, mainBank, banks, mainVars, subLoop>>

EndReleased ==
  /\ SubGoes("end_wait", "end_mute")
  /\ cmd0 = "none"
  /\ stat0' = "none"
  /\ UNCHANGED <<frames, cmd0, cmd1, mainBank, banks, mainVars, subLoop>>

\* The release comes first and the mute after it: Main may already be in its tail,
\* or ask for the replay, while the channel still sounds.
MuteAtEnd ==
  /\ SubGoes("end_mute", "wait_replay")
  /\ pcm_on' = 0
  /\ UNCHANGED <<frames, regs, mainBank, banks, mainVars, frame_idx, word_owned_bank>>

Replay ==
  /\ SubGoes("wait_replay", "stream_start")
  /\ cmd0 = "stream"
  /\ UNCHANGED <<frames, regs, mainBank, banks, mainVars, subLoop>>

SubNext ==
  \/ AcceptStream \/ LoadStage \/ GiveStage \/ OfferStage \/ TakeStageBack
  \/ StageReturned
  \/ LoadWr(0, "load_wr0", "swap_wr") \/ SwapWr("swap_wr", "load_wr1")
  \/ LoadWr(1, "load_wr1", "swap_wr_back") \/ SwapWr("swap_wr_back", "frame0")
  \/ ExpandFrame0 \/ GiveFrame0 \/ Frame0Ready \/ StartTimedSuffix \/ StartupReady
  \/ ProcessFrame \/ ExpandFrame \/ GiveFrame \/ FrameReady \/ FrameReleased
  \/ MovieEnd \/ ExchangeAtEnd \/ AnswerEnd \/ EndReleased \/ MuteAtEnd \/ Replay

Next == MainNext \/ SubNext

Spec == Init /\ [][Next]_vars

\* Both CPUs run: each one, when it is not in a polling loop, goes on.
FairSpec == Spec /\ WF_vars(MainNext) /\ WF_vars(SubNext)
----------------------------------------------------------------------------
(* Properties *)

MainReads == {"copy_stage", "build_names", "build_patterns", "return_bank"}

\* Sub never exchanges the banks while Main still reads its own: bchg is only
\* reached behind a handshake, and Main asserts CMD_SWAP after its last access.
BankQuiet == [][mainBank' # mainBank => mpc \notin MainReads]_vars

\* What Main publishes as frame n was written by Sub as frame n: the name
\* updates, the patterns and the CRAM image come from one and the same control
\* block, although Main counts frame_no, Sub counts frame_idx, neither tells
\* the other, and the bank is already Sub's when the image is published.
FrameCoherent ==
  mpc = "publish" =>
    \/ names = frame_no /\ patterns = frame_no /\ fadeCram = frame_no
    \/ names = Foreign /\ patterns = NoRuns /\ fadeCram = Foreign

\* A run that points into WordBuf is read from the buffer of the frame's own
\* parity, in whichever physical bank the movie's length has put it, and Sub's
\* word_owned_bank names the parity of the bank it really writes.
WordBufOfParity ==
  /\ mpc = "build_patterns" => word[mainBank] = Parity(frame_no)
  /\ spc \in {"stream_loop", "expand", "wait_swap"} => word[subBank] = word_owned_bank

\* Sub between a stream command and its answer that frame 0 is ready and shown.
StartingUp == {"stream_start", "offer_stage", "stage_answer", "wait_stage", "stage_back",
               "load_wr0", "swap_wr", "load_wr1", "swap_wr_back", "frame0",
               "frame0_handoff", "frame0_ready", "frame0_wait"}

\* The sound runs only while the movie is seen: it starts behind the flip of frame 0,
\* and it is off before Main puts the black frame -1 up again and before Sub starts
\* over, although Sub releases Main at the end before it mutes (movieplay_sp.s:1155,
\* 1156), and although no word tells Main that it has.
SoundOnlyWithPicture ==
  pcm_on = 1 =>
    /\ shown \notin {Junk, Black}
    /\ spc \notin StartingUp

\* The boot stage that Main copies is the stage Sub loaded, not a frame.
StageIntact == mpc = "ack_stage" => patterns = Stage

\* MOVIE.md: a frame whose frame_seq does not match holds the previous frame.
MismatchHoldsFrame ==
  [][mpc = "publish" /\ patterns = NoRuns => shown' = shown]_vars

----------------------------------------------------------------------------
(* The hand-over implements the frame relay.  CMD_STREAM is asserted from the
   (re)start until frame 0 is on the screen; the counters of the movie that
   ended are stale while it is. *)

Startup == cmd0 = "stream"
One(b)  == IF b THEN 1 ELSE 0

Relay == INSTANCE FrameRelay WITH
  made  <- IF Startup
             THEN One(spc \in {"frame0_handoff", "frame0_ready", "frame0_wait"})
             ELSE frame_idx - One(spc = "expand"),
  given <- IF Startup
             THEN One(spc \in {"frame0_ready", "frame0_wait"})
             ELSE frame_idx - One(spc \in {"expand", "wait_swap"}),
  read  <- IF Startup
             THEN One(mpc \in {"return_bank", "publish", "start_playback"})
             ELSE frame_no + One(mpc \in {"return_bank", "publish", "start_wait"}),
  seen  <- IF Startup
             THEN One(mpc = "start_playback")
             ELSE frame_no + One(mpc = "start_wait")

\* Every frame is made, handed over, read and shown in order and exactly once,
\* the movie reaches its end, and it starts again.
ImplementsRelay == Relay!FairSpec
=============================================================================
