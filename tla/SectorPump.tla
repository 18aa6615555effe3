---------------------------- MODULE SectorPump -----------------------------
(***************************************************************************)
(* Where a timed BODY sector goes: the sector pump of the Sub CPU          *)
(* (pump1_core, pump_poll_core, word_accept_guard, process_frame of        *)
(* src/boot/movieplay_sp.s).  Sectors arrive in the order of the routing   *)
(* table; each frame's slot is control, then WordBuf, then PrgBuf sectors, *)
(* then padding up to the CD time of the slot.  Control goes to the APPLY  *)
(* ring, WordBuf sectors to the buffer of the frame's parity in the bank   *)
(* of that parity, or to a pending sector while Main has that bank.        *)
(*                                                                         *)
(* The routing table comes from the encoder: plan is one that its replay   *)
(* (replay_frozen_schedule of src/tools/wordbuf_ring.py) accepts.  The     *)
(* hand-over of banks, in full in Handoff, is reduced here to what paces   *)
(* the pump.  The CD delivers when it is asked; lost sectors are in CdRead.*)
(*                                                                         *)
(* A sector holds two units: half a sector is the grain of what a frame    *)
(* takes.  An operator Action_Bug is Action with a plausible bug in it,    *)
(* used by the mutation runs of PROJECT.json only.                         *)
(***************************************************************************)
EXTENDS Integers, FiniteSets

CONSTANTS
  Frames,          \* h_frames: the timed frames are 1 .. Frames - 1
  Candidates,      \* routing tables considered, before PlanOK
  Period,          \* PC_CADENCE_PERIOD: 1, or 2 for 24 fps
  SecBase, SecRem, \* per cadence step: sectors of a frame, whole and rest
  SecMod,          \* the rest is a fraction of SecMod
  ApplySize, RingSize, WordCap,   \* capacities, in units
  PrgCap,          \* the encoder's PrgBuf ceiling
  PreBuf,          \* PrgBuf contents when the timed stream starts
  WordBoot         \* WordBuf contents of each parity then

Timed     == 1 .. Frames - 1
Unit      == 2
Guard     == 2 * Unit      \* the 0x1000 bytes pump_poll_core keeps free
MaxSlot   == 5             \* MAX_SLOT_SECTORS
MaxWord   == 4             \* MAX_WORD_STAGE_SECTORS
Pending   == 3             \* WORD_PENDING0, 1 and 3
Parity(f) == f % 2
One(b)    == IF b THEN 1 ELSE 0

Table ==
  [len : [Timed -> Nat], ctrl : [Timed -> Nat], word : [Timed -> Nat],
   prg : [Timed -> Nat], wordUse : [Timed -> Nat], prgUse : [Timed -> Nat]]

ASSUME SectorPumpAssumption ==
  /\ Frames \in Nat /\ Frames >= 2
  /\ Period \in {1, 2} /\ SecMod \in Nat \ {0}
  /\ SecBase \in [0 .. Period - 1 -> Nat \ {0}]
  /\ SecRem \in [0 .. Period - 1 -> 0 .. SecMod - 1]
  /\ {ApplySize, RingSize, WordCap, PrgCap, PreBuf} \subseteq Nat
  /\ PreBuf <= PrgCap /\ PrgCap <= RingSize - Guard /\ PreBuf % Unit = 0
  /\ ApplySize > Guard
  /\ WordBoot \in [{0, 1} -> 0 .. WordCap]
  /\ Candidates \subseteq Table
  \* a frame's control fits APPLY beside the half sector left of the frame
  \* before: at most 11 KB of an APPLY_SIZE of 32 KB or more
  /\ \A p \in Candidates : \A f \in Timed : Unit * p.ctrl[f] + 1 < ApplySize

----------------------------------------------------------------------------
(* The encoder's replay of a routing table p: per timed frame its control
   length (len), its control, WordBuf and PrgBuf sectors (ctrl, word, prg) and
   what it takes from the two buffers (wordUse, prgUse). *)

\* rate_deltas: the CD sectors due up to the end of slot f, and in slot f.
Due[f \in 0 .. Frames - 1] ==
  IF f = 0 THEN 0
  ELSE Due[f - 1] + SecBase[(f - 1) % Period] * SecMod + SecRem[(f - 1) % Period]

SlotTime(f) == (Due[f] \div SecMod) - (Due[f - 1] \div SecMod)

\* control_sector_schedule: as few sectors as the first f blocks need.
JustInTime(len) ==
  LET sum[f \in 0 .. Frames - 1] == IF f = 0 THEN 0 ELSE sum[f - 1] + len[f]
      sectors(f) == (sum[f] + Unit - 1) \div Unit
  IN  [f \in Timed |-> sectors(f) - sectors(f - 1)]

PrgAfter(p) ==
  LET level[f \in 0 .. Frames - 1] ==
        IF f = 0 THEN PreBuf ELSE level[f - 1] + Unit * p.prg[f] - p.prgUse[f]
  IN  level

\* A frame adds to and takes from the buffer of its own parity only.
WordAfter(p) ==
  LET level[f \in -1 .. Frames - 1] ==
        IF f <= 0 THEN WordBoot[Parity(f + 2)]
                  ELSE level[f - 2] + Unit * p.word[f] - p.wordUse[f]
  IN  level

PlanOK(p) ==
  LET prg == PrgAfter(p)  wordLevel == WordAfter(p) IN
  /\ p.ctrl = JustInTime(p.len)
  /\ \A f \in Timed :
       /\ p.word[f] <= MaxWord
       /\ p.ctrl[f] + p.word[f] + p.prg[f] <= MaxSlot
       /\ p.ctrl[f] + p.word[f] + p.prg[f] <= SlotTime(f)   \* rate_lead_peak = 0
       /\ prg[f - 1] >= p.prgUse[f]
       /\ prg[f] + p.prgUse[f] <= PrgCap
       /\ wordLevel[f - 2] >= p.wordUse[f]
       /\ wordLevel[f] + p.wordUse[f] <= WordCap
  \* what was routed to a WordBuf is what the frames take from it
  /\ wordLevel[Frames - 1] = 0 /\ wordLevel[Frames - 2] = 0

----------------------------------------------------------------------------
VARIABLES
  plan,
  drain_frame, drain_k, cur_fsec, sec_acc, sec_phase, lead,   \* the cursor
  pump,            \* pump1_core: "idle", "p1_top" or "p1_read"
  frame_idx, word_owned_bank,
  word_pending_count, word_pending_frame,
  word_level,      \* per parity: units written and not yet expanded
  ring, apply,     \* units in PrgBuf and in APPLY
  spc,             \* the Sub CPU outside the pump
  main,            \* Main: building, asking for a bank, or given one
  read_no          \* the last frame whose patterns Main has loaded

slot    == <<cur_fsec, sec_acc, sec_phase, lead>>
cursor  == <<drain_frame, drain_k, slot, pump>>
pending == <<word_pending_count, word_pending_frame>>
buffers == <<word_level, ring, apply>>
player  == <<frame_idx, word_owned_bank, spc, main, read_no>>
vars    == <<plan, cursor, pending, buffers, player>>

\* timed_suffix_start: frame 0 is on the screen, the BODY read is issued.
Init ==
  /\ plan \in {p \in Candidates : PlanOK(p)}
  /\ drain_frame = 1 /\ drain_k = 0 /\ pump = "idle"
  /\ cur_fsec = 0 /\ sec_acc = 0 /\ sec_phase = 0 /\ lead = 0
  /\ frame_idx = 1 /\ word_owned_bank = 1
  /\ word_pending_count = 0 /\ word_pending_frame = 0
  /\ word_level = WordBoot /\ ring = PreBuf /\ apply = 0
  /\ spc = "arm_frame1" /\ main = "start_wait" /\ read_no = 0

Total(f) == plan.ctrl[f] + plan.word[f] + plan.prg[f]

----------------------------------------------------------------------------
(* pump1_core *)

\* p1_top in mid-slot, and at the end of the stream
SlotGoesOn ==
  /\ pump = "p1_top" /\ (drain_frame >= Frames \/ drain_k # 0)
  /\ pump' = IF drain_frame >= Frames THEN "idle" ELSE "p1_read"
  /\ UNCHANGED <<plan, drain_frame, drain_k, slot, pending, buffers, player>>

\* p1_top at a slot's head: how many sectors the slot has.  A slot with none
\* is passed over.
SlotHead ==
  /\ pump = "p1_top" /\ drain_frame < Frames /\ drain_k = 0
  /\ LET acc   == sec_acc + SecRem[sec_phase]
         carry == One(acc >= SecMod)
         delta == SecBase[sec_phase] + carry
         due   == delta - lead
         fsec  == IF Total(drain_frame) >= due THEN Total(drain_frame) ELSE due
     IN /\ sec_acc' = acc - carry * SecMod
        /\ sec_phase' = (sec_phase + 1) % Period
        /\ cur_fsec' = fsec
        /\ lead' = lead + fsec - delta
        /\ IF fsec = 0
             THEN drain_frame' = drain_frame + 1 /\ UNCHANGED pump
             ELSE pump' = "p1_read" /\ UNCHANGED drain_frame
  /\ UNCHANGED <<plan, drain_k, pending, buffers, player>>

ForControl == drain_k < plan.ctrl[drain_frame]
ForWord    == ~ForControl /\ drain_k < plan.ctrl[drain_frame] + plan.word[drain_frame]
ForRing    == ~ForControl /\ ~ForWord /\ drain_k < Total(drain_frame)
ForPad     == drain_k >= Total(drain_frame)

Owned == Parity(drain_frame) = word_owned_bank

WordAcceptGuard_OneAtATime ==
  /\ drain_frame >= frame_idx
  /\ IF Owned
       THEN /\ word_pending_count = 0
            /\ word_level[Parity(drain_frame)] + Unit <= WordCap
       ELSE /\ word_pending_count < Pending
            /\ word_pending_count # 0 => word_pending_frame = drain_frame
            /\ word_level[Parity(drain_frame)] + Unit <= WordCap

WordAcceptGuard ==
  /\ drain_frame >= frame_idx
  /\ IF Owned
       THEN /\ word_pending_count = 0
            /\ word_level[Parity(drain_frame)] + Unit <= WordCap
       ELSE /\ word_pending_count < Pending
            /\ word_pending_count # 0 => word_pending_frame = drain_frame
            /\ word_level[Parity(drain_frame)] + Unit * (word_pending_count + 1)
                 <= WordCap

\* drain1 and p1_adv
Advance ==
  /\ pump = "p1_read" /\ pump' = "idle"
  /\ IF drain_k + 1 < cur_fsec
       THEN drain_k' = drain_k + 1 /\ UNCHANGED drain_frame
       ELSE drain_k' = 0 /\ drain_frame' = drain_frame + 1
  /\ UNCHANGED <<plan, slot, player>>

ToApply ==
  /\ Advance /\ ForControl
  /\ apply' = apply + Unit
  /\ UNCHANGED <<pending, word_level, ring>>

\* A WordBuf sector without room is not read.
ToWord ==
  /\ pump = "p1_read" /\ ForWord
  /\ IF ~WordAcceptGuard
       THEN /\ pump' = "idle"
            /\ UNCHANGED <<plan, drain_frame, drain_k, slot, pending, word_level, player>>
       ELSE /\ Advance
            /\ IF Owned
                 THEN /\ word_level' = [word_level EXCEPT ![Parity(drain_frame)] = @ + Unit]
                      /\ UNCHANGED pending
                 ELSE /\ word_pending_count' = word_pending_count + 1
                      /\ word_pending_frame' = IF word_pending_count = 0
                                                 THEN drain_frame ELSE word_pending_frame
                      /\ UNCHANGED word_level
  /\ UNCHANGED <<ring, apply>>

ToRing ==
  /\ Advance /\ ForRing
  /\ ring' = ring + Unit
  /\ UNCHANGED <<pending, word_level, apply>>

ToPad ==
  /\ Advance /\ ForPad
  /\ UNCHANGED <<pending, buffers>>

Pump1 ==
  \/ SlotGoesOn \/ SlotHead \/ ToApply \/ ToWord \/ ToRing \/ ToPad

----------------------------------------------------------------------------
(* pump_poll_core *)

CallPump ==
  /\ pump = "idle" /\ pump' = "p1_top"
  /\ UNCHANGED <<plan, drain_frame, drain_k, slot, pending, buffers, player>>

\* The raw route of the cursor decides which buffer must have room.  The ring
\* occupancies are the differences of two pointers.
PollGuard_NoWordGuard ==
  /\ drain_frame < Frames
  /\ ForControl => apply % ApplySize < ApplySize - Guard
  /\ ForRing => ring % RingSize < RingSize - Guard

PollGuard_NoRingGuard ==
  /\ drain_frame < Frames
  /\ ForControl => apply % ApplySize < ApplySize - Guard
  /\ ForWord => WordAcceptGuard

PollGuard ==
  /\ drain_frame < Frames
  /\ ForControl => apply % ApplySize < ApplySize - Guard
  /\ ForWord => WordAcceptGuard
  /\ ForRing => ring % RingSize < RingSize - Guard

\* Between the runs of an expansion, and while Sub waits for Main: when Main
\* asks for the bank, it gets it before another sector is read.
PumpPoll ==
  /\ \/ spc = "expand"
     \/ spc = "wait_swap" /\ main # "asking"
     \/ spc = "wait_release" /\ main = "given"
  /\ PollGuard
  /\ CallPump

----------------------------------------------------------------------------
(* The Sub CPU *)

SubGoes(from, to) == pump = "idle" /\ spc = from /\ spc' = to

ArmFrame1 == spc = "arm_frame1" /\ drain_frame < 2 /\ CallPump

StartupReady ==
  /\ SubGoes("arm_frame1", "pf_pump") /\ drain_frame >= 2
  /\ main' = "started"
  /\ UNCHANGED <<plan, cursor, pending, buffers, frame_idx, word_owned_bank, read_no>>

FrameDrained_ControlOnly ==
  \/ drain_frame > frame_idx
  \/ drain_frame = frame_idx /\ drain_k >= plan.ctrl[frame_idx]

FrameDrained_AnySlot ==
  \/ drain_frame > frame_idx
  \/ drain_k >= plan.ctrl[frame_idx] + plan.word[frame_idx]

\* pf_pump: the frame's control and its WordBuf prefix are in.
FrameDrained ==
  \/ drain_frame > frame_idx
  \/ drain_frame = frame_idx /\ drain_k >= plan.ctrl[frame_idx] + plan.word[frame_idx]

PumpFrame ==
  /\ spc = "pf_pump" /\ frame_idx < Frames /\ ~FrameDrained
  /\ CallPump

\* pf_ready, fetch_control
FetchControl ==
  /\ SubGoes("pf_pump", "expand") /\ frame_idx < Frames /\ FrameDrained
  /\ frame_idx' = frame_idx + 1
  /\ apply' = apply - plan.len[frame_idx]
  /\ UNCHANGED <<plan, cursor, pending, word_level, ring, word_owned_bank,
                 main, read_no>>

\* expand_frame of frame_idx - 1
ExpandFrame ==
  /\ SubGoes("expand", "wait_swap")
  /\ LET f == frame_idx - 1 IN
       /\ ring' = ring - plan.prgUse[f]
       /\ word_level' = [word_level EXCEPT ![Parity(f)] = @ - plan.wordUse[f]]
  /\ UNCHANGED <<plan, cursor, pending, apply, frame_idx, word_owned_bank,
                 main, read_no>>

GiveBank_KeepsOwner ==
  /\ SubGoes("wait_swap", "flush") /\ main = "asking" /\ main' = "given"
  /\ UNCHANGED <<plan, cursor, pending, buffers, frame_idx, word_owned_bank,
                 read_no>>

GiveBank ==
  /\ SubGoes("wait_swap", "flush") /\ main = "asking" /\ main' = "given"
  /\ word_owned_bank' = 1 - word_owned_bank
  /\ UNCHANGED <<plan, cursor, pending, buffers, frame_idx, read_no>>

FlushPending ==
  /\ SubGoes("flush", "wait_release")
  /\ word_level' = [word_level EXCEPT
       ![Parity(word_pending_frame)] = @ + Unit * word_pending_count]
  /\ word_pending_count' = 0
  /\ UNCHANGED <<plan, cursor, word_pending_frame, ring, apply, frame_idx,
                 word_owned_bank, main, read_no>>

BankReleased ==
  /\ SubGoes("wait_release", "pf_pump") /\ main = "released" /\ main' = "reading"
  /\ UNCHANGED <<plan, cursor, pending, buffers, frame_idx, word_owned_bank, read_no>>

MovieEnd ==
  /\ SubGoes("pf_pump", "movie_end") /\ frame_idx >= Frames
  /\ UNCHANGED <<plan, cursor, pending, buffers, frame_idx, word_owned_bank,
                 main, read_no>>

\* movie_end, and the replay's stream_start .. timed_suffix_start: what they
\* leave alone is cur_fsec and the stale word_pending_frame.
Replay ==
  /\ SubGoes("movie_end", "arm_frame1") /\ main = "asking" /\ main' = "start_wait"
  /\ drain_frame' = 1 /\ drain_k' = 0
  /\ sec_acc' = 0 /\ sec_phase' = 0 /\ lead' = 0
  /\ frame_idx' = 1 /\ word_owned_bank' = 1 /\ read_no' = 0
  /\ word_pending_count' = 0
  /\ word_level' = WordBoot /\ ring' = PreBuf /\ apply' = 0
  /\ UNCHANGED <<plan, pump, cur_fsec, word_pending_frame>>

Sub ==
  \/ Pump1 \/ PumpPoll \/ ArmFrame1 \/ StartupReady \/ PumpFrame \/ FetchControl
  \/ ExpandFrame \/ GiveBank \/ FlushPending \/ BankReleased \/ MovieEnd \/ Replay

----------------------------------------------------------------------------
(* Main *)

\* play_loop after frame 0: the first request.
AskFirst ==
  /\ main = "started" /\ main' = "asking"
  /\ UNCHANGED <<plan, cursor, pending, buffers, frame_idx, word_owned_bank,
                 spc, read_no>>

\* swap_finish_or_end: READY seen, the command cleared.
Release ==
  /\ main = "given" /\ main' = "released"
  /\ UNCHANGED <<plan, cursor, pending, buffers, frame_idx, word_owned_bank,
                 spc, read_no>>

\* build_frame's transfers end and swap_begin asks for the next bank.
ReadPatterns ==
  /\ main = "reading" /\ main' = "asking"
  /\ read_no' = read_no + 1
  /\ UNCHANGED <<plan, cursor, pending, buffers, frame_idx, word_owned_bank, spc>>

Main == AskFirst \/ Release \/ ReadPatterns

Next == Sub \/ Main

Spec == Init /\ [][Next]_vars

\* Sub, whose polls find a sector ready as long as the disc turns, and Main.
FairSpec == Spec /\ WF_vars(Sub) /\ WF_vars(Main)

----------------------------------------------------------------------------
(* Properties *)

Expanding == frame_idx - 1

\* Nothing a frame takes is still on the disc when the frame takes it: its
\* control block when it is fetched, its PrgBuf and WordBuf patterns when it is
\* expanded, however the read-ahead went.
NoUnderrun ==
  /\ apply >= 0
  /\ spc = "expand" =>
       /\ ring >= plan.prgUse[Expanding]
       /\ word_level[Parity(Expanding)] >= plan.wordUse[Expanding]

\* Neither the control ring nor PrgBuf is ever full: head = tail would read as
\* an empty ring.
RingsBounded == apply < ApplySize /\ ring < RingSize

\* A WordBuf has room for what is in it and for what is pending for it, although
\* pending sectors are accepted before the bank that they go to is there.
Waiting(b) == IF word_pending_count # 0 /\ Parity(word_pending_frame) = b
                THEN Unit * word_pending_count ELSE 0

WordBounded == \A b \in {0, 1} : word_level[b] + Waiting(b) <= WordCap

\* Pending sectors wait for the bank of their own parity, and are committed to
\* it by the first exchange that brings it: word_owned_bank says so.
PendingOwned ==
  word_pending_count # 0 =>
    (Parity(word_pending_frame) = word_owned_bank) = (spc = "flush")

\* Every slot has as many sectors as the encoder wrote for it: its rate is
\* accumulated once per slot, and no borrowed lead is left inside one, or the
\* slots after it would be counted wrong.
SlotLayout ==
  pump = "p1_read" \/ drain_k # 0 =>
    cur_fsec = SlotTime(drain_frame) /\ lead = 0

\* Neither the guards nor the waits stop the movie for good.
MovieCompletes == []<>(spc = "movie_end")

\* "... so its capacity proof cannot reuse patterns before Main has consumed
\* the current bank" (pf_pump): a WordBuf holds all patterns that Main has not
\* loaded yet.
Unread(b) ==
  LET expanded == {f \in read_no + 1 .. frame_idx - 1 - One(spc = "expand") :
                     Parity(f) = b}
      use[S \in SUBSET expanded] ==
        IF S = {} THEN 0
        ELSE LET f == CHOOSE x \in S : TRUE IN plan.wordUse[f] + use[S \ {f}]
  IN  word_level[b] + use[expanded]

WordUnreadKept == \A b \in {0, 1} : Unread(b) <= WordCap
=============================================================================
