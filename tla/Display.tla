------------------------------- MODULE Display ------------------------------
(***************************************************************************)
(* Main shows a movie (src/boot/movieplay_ip.s, build_frame): it loads the *)
(* patterns of a frame within the word budget of each VBlank, publishes    *)
(* the frame in the VBlank that the 24 fps clock asks for, and keeps that  *)
(* clock.                                                                  *)
(*                                                                         *)
(* Time is counted in VBlanks since the last flip.  Inside a VBlank, room  *)
(* is what can still be written before it ends, in the words the budget    *)
(* counts in: transfers use it up, and so does the time that passes        *)
(* between them.                                                           *)
(*                                                                         *)
(* Main times a frame by a stopwatch that turns over after Range VBlanks   *)
(* and about a half: from then on it shows too little, and how much it is  *)
(* off by depends on where in a VBlank it turned.                          *)
(*                                                                         *)
(* Left out: the scroll frames, which add words to the bundle; what a      *)
(* debug build does besides, also after the last pattern; the fixed        *)
(* cadences, which have no clock to keep.                                  *)
(***************************************************************************)
EXTENDS Integers, Sequences

CONSTANTS
  VBudget,   \* md_vbudget: words of one VBlank
  Cost,      \* CPU_VDP_WORD_COST: a word that the CPU writes
  Bundle,    \* md_nt_flip_reserve_words: name table, HUD, guard
  Guard,     \* NT_FLIP_GUARD_WORDS: the part of it that nothing is written for
  CramCost,  \* 64 * CPU_VDP_WORD_COST
  DebtMax,   \* 0xFF
  LastFrame,
  Switches,  \* M-PALIDX: sequence of [frame, seg], frames increasing
  RunSets,   \* sequences of runs [len, word] that a frame may load
  Range,     \* whole VBlanks in a turn of the stopwatch: 4096 ticks of 543
  MaxStall,  \* bound: a frame is ready this many VBlanks after the last flip
  MaxLate    \* bound: no stall while the movie is this late

ASSUME DisplayAssumption ==
  /\ VBudget \in Nat /\ Cost \in Nat \ {0} /\ Guard \in Nat \ {0}
  /\ Bundle \in Nat /\ CramCost \in Nat /\ Guard < Bundle
  /\ Bundle + CramCost <= VBudget /\ Cost < VBudget
  /\ LastFrame \in Nat \ {0} /\ DebtMax \in Nat
  /\ Range \in Nat /\ MaxStall \in Nat /\ MaxLate \in Nat /\ 4 <= Range
  /\ Switches \in Seq([frame : Nat \ {0}, seg : STRING \ {"none", "inline"}])
  /\ \A i, j \in 1 .. Len(Switches) :
       i < j => Switches[i].frame < Switches[j].frame
  /\ RunSets \subseteq Seq([len : Nat \ {0}, word : BOOLEAN])

VARIABLES
  pc,       \* build, start, refill, head, pats, tail, wait, next, nexthead or
            \* done
  frame,    \* frame_no
  beam,     \* "active", "blank"
  room,     \* words this VBlank still has
  since,    \* VBlanks begun since the VBlank of the last flip, Range + 1 for
            \* more than Range
  seen,     \* those that the stopwatch shows since pace_flip_tick; -1 from a
            \* turn to the next VBlank
  runs,     \* records of O_LOADS to go
  left,     \* words to go of the run that is being split, or 0
  d7,       \* budget left
  fromHead, \* vbudget_from_head
  tvb,      \* pattern_transfer_vblanks
  held,     \* vbudget_held_reserve
  fade,     \* frame_type: the block brings its own CRAM
  target, phase, debt, \* pace_target_vblanks, pace_phase, pace_cadence_debt
  pal,      \* palidx_ptr
  seg,      \* dbg_seg
  source,   \* cram_source: "none", "inline" or a palette
  cram,     \* what CRAM holds
  begun,    \* history: since, when the frame's first budget was opened
  late,     \* history: VBlanks behind the 2, 3, 2, 3 clock at the last flip
            \* (at least: as since counts them)
  forgiven, \* history: VBlanks cut off at DebtMax
  blind     \* history: a flip of this movie was timed over a turn

loadVars    == <<runs, left>>
budgetVars  == <<d7, fromHead, held, begun>>
clockVars   == <<target, phase, debt, late, forgiven, blind>>
paletteVars == <<pal, seg, source, cram>>
beamVars    == <<beam, room, since, seen>>

mainVars    == <<pc, frame, fade, tvb, loadVars, budgetVars, clockVars,
                 paletteVars>>
displayVars == <<mainVars, beamVars>>

DisplayInit ==
  /\ pc = "build" /\ frame = 0 /\ beam = "active" /\ room = 0
  /\ since = 2 /\ seen = 2
  /\ runs = <<>> /\ left = 0 /\ d7 = 0 /\ fromHead = FALSE /\ tvb = 0
  /\ held = 0 /\ fade = FALSE
  /\ target = 2 /\ phase = 0 /\ debt = 0   \* prime_fixed_cadence
  /\ pal = 1 /\ seg = "s0" /\ source = "none" /\ cram = "s0"
  /\ begun = 0 /\ late = 0 /\ forgiven = 0 /\ blind = FALSE

----------------------------------------------------------------------------
(* The beam *)

\* wait_fixed_flip: past the end of VBlank target - 1, by the stopwatch.  After
\* a turn the point may come up to a VBlank sooner.
Armed == seen >= target \/ (seen = target - 1 /\ beam = "active")

MayArm ==
  \/ Armed
  \/ /\ seen # since
     /\ seen = target - 1 \/ (seen = target - 2 /\ beam = "active")

\* Main polls the beam or the stopwatch, or has only a few instructions to
\* go: it acts before the beam does.  The code between the last pattern and
\* the wait is shorter than the active display.
Prompt ==
  \/ pc \in {"start", "refill", "pats", "tail", "next"}
  \/ pc = "wait" /\ Armed

VBlankStart ==
  /\ beam = "active" /\ ~Prompt
  /\ pc = "build" => since < MaxStall /\ late < MaxLate
  /\ pc # "done" => seen < Range
  /\ beam' = "blank" /\ room' = VBudget
  /\ IF pc = "done"
     THEN UNCHANGED <<since, seen>>
     ELSE /\ since' = IF since <= Range THEN since + 1 ELSE since
          /\ seen' = seen + 1
  /\ UNCHANGED mainVars

\* The stopwatch turns over: the first time in the active display after Range
\* VBlanks, then after a VBlank more or less.
Turn ==
  /\ pc # "done" /\ ~Prompt
  /\ \/ seen = Range /\ beam = "active"
     \/ seen # since /\ seen >= Range - 1
  /\ seen' = -1
  /\ UNCHANGED <<mainVars, beam, room, since>>

\* A VBlank does not end under words that its budget covers.
VBlankEnd ==
  /\ beam = "blank"
  /\ \/ room = 0
     \/ pc \in {"build", "refill", "next", "done"}
     \/ pc = "start" /\ room < VBudget
     \/ pc = "wait" /\ ~Armed
     \/ pc \in {"tail", "wait"} /\ ~fromHead
  /\ beam' = "active" /\ room' = 0
  /\ UNCHANGED <<mainVars, since, seen>>

\* Time passes while nothing is written; after the patterns, at most the
\* guard's worth.
Drift ==
  /\ beam = "blank" /\ room > 0
  /\ \/ pc = "build"
     \/ pc \in {"tail", "wait"} /\ (fromHead => room > d7 - Guard)
  /\ room' = room - 1
  /\ UNCHANGED <<mainVars, beam, since, seen>>

----------------------------------------------------------------------------
(* Patterns *)

\* The next entry of the palette table is reached.
Due == pal <= Len(Switches) /\ Switches[pal].frame <= frame

\* pattern_final_reserve_words
Reserve == Bundle + (IF fade \/ Due THEN CramCost ELSE 0)

Build ==
  /\ pc = "build"
  /\ runs' \in RunSets
  /\ fade' \in (IF frame = 0 THEN {FALSE} ELSE BOOLEAN)
  /\ tvb' = IF runs' = <<>> THEN 0 ELSE 1
  /\ pc' = IF runs' = <<>> THEN "tail" ELSE "start"
  /\ fromHead' = FALSE /\ held' = 0 /\ left' = 0 /\ begun' = 0
  /\ UNCHANGED <<frame, d7, clockVars, paletteVars, beamVars>>

Opened(reserve) ==
  /\ pc' = "pats" /\ fromHead' = TRUE
  /\ d7' = VBudget - reserve /\ held' = reserve
  /\ begun' = IF tvb = 1 THEN since ELSE begun

\* bf_start_vbudget: only the first line of a VBlank has the whole budget.
Start ==
  /\ pc = "start"
  /\ IF beam = "blank" /\ room = VBudget
     THEN Opened(0)
     ELSE pc' = "refill" /\ UNCHANGED budgetVars
  /\ UNCHANGED <<frame, tvb, fade, loadVars, clockVars, paletteVars, beamVars>>

\* wait_vb_start: out of this VBlank, then into the next.
AwaitActive ==
  /\ pc \in {"refill", "next"} /\ beam = "active"
  /\ pc' = IF pc = "refill" THEN "head" ELSE "nexthead"
  /\ UNCHANGED <<frame, tvb, fade, loadVars, budgetVars, clockVars,
                 paletteVars, beamVars>>

\* bf_refill_vbudget: the budget that is also the deadline keeps back what
\* the flip will need.
HeldBack_Bug == 0
HeldBack == IF tvb = target THEN Reserve ELSE 0

Refill ==
  /\ pc = "head" /\ beam = "blank"
  /\ Opened(HeldBack)
  /\ UNCHANGED <<frame, tvb, fade, loadVars, clockVars, paletteVars, beamVars>>

\* What a run of the given length costs, and what it uses.
RunCost_Bug(len) == len
RunCost(len) == len + Cost

Whole ==
  /\ pc = "pats" /\ runs # <<>> /\ left = 0
  /\ RunCost(Head(runs).len) <= d7
  /\ d7' = d7 - RunCost(Head(runs).len)
  /\ room' = room - (Head(runs).len + Cost)
  /\ runs' = Tail(runs)
  /\ UNCHANGED <<pc, frame, left, fromHead, tvb, held, fade, begun, beam,
                 since, seen, clockVars, paletteVars>>

\* bf_split_run
Split ==
  /\ pc = "pats" /\ runs # <<>> /\ left = 0
  /\ RunCost(Head(runs).len) > d7
  /\ left' = Head(runs).len
  /\ UNCHANGED <<pc, frame, runs, tvb, fade, budgetVars, clockVars,
                 paletteVars, beamVars>>

\* A chunk from Word-RAM needs a repair by the CPU as well.
Repair == IF Head(runs).word THEN Cost ELSE 0

\* bf_chunk
Chunk ==
  /\ pc = "pats" /\ left > 0 /\ d7 > Repair
  /\ LET n == IF d7 - Repair < left THEN d7 - Repair ELSE left
     IN  /\ left' = left - n
         /\ d7' = d7 - n - Repair
         /\ room' = room - n - Repair
         /\ runs' = IF n = left THEN Tail(runs) ELSE runs
  /\ UNCHANGED <<pc, frame, fromHead, tvb, held, fade, begun, beam, since,
                 seen, clockVars, paletteVars>>

\* bf_next_vbudget
NextBudget_Bug ==
  /\ pc = "pats" /\ left > 0 /\ d7 <= Repair
  /\ tvb' = IF tvb < target THEN tvb + 1 ELSE tvb
  /\ pc' = "refill"
  /\ UNCHANGED <<frame, fade, loadVars, budgetVars, clockVars, paletteVars,
                 beamVars>>

NextBudget ==
  /\ pc = "pats" /\ left > 0 /\ d7 <= Repair
  /\ tvb' = tvb + 1
  /\ pc' = "refill"
  /\ UNCHANGED <<frame, fade, loadVars, budgetVars, clockVars, paletteVars,
                 beamVars>>

\* bf_flip: what was kept back is for the flip.
Loaded ==
  /\ pc = "pats" /\ runs = <<>>
  /\ d7' = d7 + held /\ held' = 0
  /\ pc' = "tail"
  /\ UNCHANGED <<frame, fromHead, tvb, fade, begun, loadVars, clockVars,
                 paletteVars, beamVars>>

----------------------------------------------------------------------------
(* Palette, flip, clock *)

\* The entries of the table that the walk passes.
Crossed_Bug == {i \in pal .. Len(Switches) : Switches[i].frame = frame}
Crossed == {i \in pal .. Len(Switches) : Switches[i].frame <= frame}

\* The CRAM source: a fade's own, or the last entry passed.
Source ==
  /\ pc = "tail"
  /\ pc' = "wait"
  /\ \/ fade /\ source' = "inline" /\ UNCHANGED <<pal, seg>>
     \/ ~fade /\ Crossed = {} /\ source' = "none" /\ UNCHANGED <<pal, seg>>
     \/ /\ ~fade
        /\ \E i \in Crossed :
             /\ \A j \in Crossed : j <= i
             /\ pal' = i + 1
             /\ seg' = Switches[i].seg
             /\ source' = Switches[i].seg
  /\ UNCHANGED <<frame, tvb, fade, cram, loadVars, budgetVars, clockVars,
                 beamVars>>

FlipCost == Bundle + (IF source # "none" THEN CramCost ELSE 0)

\* bf_wait_fixed_flip_vblank: the VBlank whose budget was counted from its
\* head has enough left.  The test of the line number is left out: the words
\* left already stand for the time left.
Shares == fromHead /\ d7 >= FlipCost /\ beam = "blank"

Miss ==
  /\ pc = "wait" /\ MayArm /\ ~Shares
  /\ pc' = "next"
  /\ UNCHANGED <<frame, tvb, fade, loadVars, budgetVars, clockVars,
                 paletteVars, beamVars>>

\* The 24 fps clock: odd frames two VBlanks after the frame before, even
\* ones three.
Ideal == IF frame % 2 = 1 THEN 2 ELSE 3

\* The VBlanks that the stopwatch makes of the time since the last flip,
\* rounded: exact, unless it turned.
Measured == IF seen = since THEN {since} ELSE {seen, seen + 1}

\* pace_periodic_commit, after frame 0: what is owed when the frame is shown;
\* only a step of three is shortened.
Over(m)  == IF m > target THEN m - target ELSE 0
Total(m) == IF debt + Over(m) > DebtMax THEN DebtMax ELSE debt + Over(m)

Commit_Bug(total) ==
  /\ phase' = 1 - phase
  /\ IF phase = 0 /\ total = 0
     THEN target' = 3 /\ debt' = 0
     ELSE target' = 2 /\ debt' = IF total = 0 THEN 0 ELSE total - 1

Commit(total) ==
  /\ phase' = 1 - phase
  /\ IF phase = 0 /\ total = 0
     THEN target' = 3 /\ debt' = 0
     ELSE target' = 2 /\ debt' = IF phase = 0 THEN total - 1 ELSE total

Pace ==
  \E m \in Measured :
    /\ Commit(Total(m))
    /\ late' = late + since - Ideal
    /\ forgiven' = forgiven + (debt + Over(m) - Total(m))
    /\ blind' = (blind \/ seen # since)

\* The bundle is written, then the clock is set.
Flip ==
  /\ \/ pc = "wait" /\ MayArm /\ Shares
     \/ pc = "nexthead" /\ beam = "blank"
  /\ room' = room - (FlipCost - Guard)
  /\ cram' = IF source = "none" THEN cram ELSE source
  /\ IF frame = 0 THEN UNCHANGED clockVars ELSE Pace
  /\ frame' = frame + 1
  /\ pc' = IF frame = LastFrame THEN "done" ELSE "build"
  /\ since' = 0 /\ seen' = 0
  /\ UNCHANGED <<tvb, fade, pal, seg, source, beam, loadVars, budgetVars>>

\* movie_end_md and the restart: frame 0 may be shown at once.
Rewind ==
  /\ pc = "done"
  /\ pc' = "build" /\ frame' = 0 /\ since' = 2 /\ seen' = 2
  /\ pal' = 1 /\ seg' = "s0" /\ cram' = "s0"
  /\ target' = 2 /\ phase' = 0 /\ debt' = 0 /\ late' = 0 /\ forgiven' = 0
  /\ blind' = FALSE
  /\ UNCHANGED <<tvb, fade, source, beam, room, loadVars, budgetVars>>

Load == Start \/ Refill \/ Whole \/ Split \/ Chunk \/ NextBudget \/ Loaded
Show == AwaitActive \/ Source \/ Miss \/ Flip

----------------------------------------------------------------------------
(* Properties *)

\* Nothing is written after the end of a VBlank: not by a run that is split
\* over several of them, not by a flip that shares the last one.
BlankFits == room >= 0

\* A frame is never early; and patterns that were begun in the first VBlank
\* and took no more VBlanks than the frame has never make the flip late,
\* because the last of those kept enough back.
OnTime ==
  [][frame' = frame + 1 /\ frame > 0 =>
       /\ since >= target
       /\ begun = 1 /\ tvb \in 1 .. target => since = target]_displayVars

\* What the clock owes, the step that is being shortened and what exceeded the
\* largest debt.
Owed == debt + forgiven + IF phase = 1 /\ target = 2 THEN 1 ELSE 0

\* The clock never owes more than the movie is late, and it owes all of it as
\* long as no frame of the movie was timed over a turn of the stopwatch.
DebtIsLateness == late >= Owed /\ (~blind => late = Owed)

\* "Each whole late VBlank becomes recovery debt" (CONFIG.md:282-283; "a late
\* flip creates whole-VBlank debt", movieplay_ip.s:1567), however late it is.
LatenessBecomesDebt == late = Owed

\* Whatever the frames between, a normal frame leaves the palette of the last
\* switch at or before it, unless a fade has put its own into CRAM.
Reached == {i \in 1 .. Len(Switches) : Switches[i].frame < frame}
PaletteFollows ==
  pc \in {"build", "done"} /\ frame > 0 /\ ~fade =>
    /\ \A i \in Reached : (\A j \in Reached : j <= i) => seg = Switches[i].seg
    /\ Reached = {} => seg = "s0"
    /\ cram \in {seg, "inline"}
=============================================================================
