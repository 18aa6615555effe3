# TLA+ models of the Mega-CD full-motion-video player and its encoder

This project models the parts of this repository whose correctness depends on
order, timing and shared state. On the player: the two CPUs exchanging Word-RAM
banks, the CD reader that recovers lost sectors, the sector pump that has to fit the
encoder's routing table, and the display and the sound that keep time by themselves.
In the encoder: the allocation of VRAM slots, replayed by the packer and by the
player. On the host: the processes that share reservations, directories and stems.
TLC checks the models on small instances; TLAPS proves most of the safety properties
for every value of the constants.

Paths below are those of the repository, as `src/...`. `PROJECT.json` maps each
definition to the lines it stands for, lists the runs, the mutants (a plausible
bug per property, which the run must find), the hazards and the theorems.

## 1. Inventory

The player is two 68000 programs. **Main** (`src/boot/movieplay_ip.s`) builds and
shows frames; **Sub** (`src/boot/movieplay_sp.s`, with the boot-time extension
`movieplay_sp_ext.s`) reads the CD, fills buffers, expands frames and plays sound.
They share two 128 KiB banks of Word-RAM in 1M mode, of which Main has one and
Sub the other, and the gate-array words COMCMDn (Main to Sub) and COMSTATn (Sub to
Main). The **encoder** (`src/tools/*.py`) computes off-line everything the player
relies on: where each sector goes, that no buffer overflows or runs dry, and that
each frame fits its VBlanks.

| component | state | operations | interacts by | what makes it correct |
|---|---|---|---|---|
| Bank hand-over (Main and Sub) | COMCMD0/1, COMSTAT0, MEMMODE.RET, the contents of two banks, `frame_no`, `frame_idx`, `started`, `swap_request_pending`, `word_owned_bank` | startup with boot stage, frame 0, timed loop with early bank return, movie end, replay | polled words, bank exchange | no exchange under a reader; each frame is shown whole, in order, once; no deadlock |
| CD reader (Sub) | drive position, CDC buffer, `prev_msf`, `base_msf`, `stream_remaining` | `issue_file_readn`, `drain1`, `reseek_readn`, stop and resume around the boot stage | BIOS calls | the caller gets the exact file whatever was lost; the read ends |
| Sector pump (Sub) | cursor (`drain_frame`, `drain_k`), slot (`cur_fsec`, `sec_acc`, `sec_phase`, `lead`), ring, APPLY and WordBuf pointers, pending sectors | `pump1_core`, `pump_poll_core`, `word_accept_guard`, `flush_word_pending` | called between all other steps of Sub | no underrun, no overfull ring, the right bank, no stop |
| Frame expansion (Sub) | `n_run`, run records at O_LOADS, buffer tails | `fetch_control`, `expand_frame` | reads the rings, writes the bank | takes from each buffer what the encoder counted |
| Frame building (Main) | VBlank budget, pacing counters, palette index, scroll window, NT staging | `build_frame`, `bf_dma`, `pace_*`, `commit_frame` | reads the bank, VDP | fits the VBlanks; cadence debt repaid; image and palette change together |
| PCM and ADPCM (Sub) | write position, lead over the play position | `write_wave_chunk`, `pcm_on` | RF5C164 wave ring | the writer never meets the reader |
| Boot extension (Sub) | ring pointers, routing table in both banks | `routing_prepare` | called once per start | rejects a table the pump cannot follow |
| Boot block and regions | none that outlives it | hardware start-up | - | - |
| Encoder schedules | per-frame control, WordBuf and PrgBuf sectors | `control_sector_schedule`, `schedule_payload_ring`, `rate_match_sectors`, `select_update_lists` | routing table read by the pump | the player following the table never underruns |
| WordBuf planner | per-parity levels, chosen sources | `plan_*`, `replay_frozen_schedule` | packer | a replay of the plan stays within capacity |
| Routing codec | - | `cavc_routing.py` | player's `p1_top` | decode is the inverse of encode |
| Tile allocation, pattern supply | VRAM slots, residency, prefetch | `tile_alloc.py`, `pattern_supply.py`, `raw_prefetch.py` | packer | a slot on the screen is never overwritten |
| Updates, scroll, fades | previous name table, windows | `shadow_updates.py`, `scroll_plan.py`, `fade_frames.py` | Main's parser | Main's screen equals the encoder's shadow |
| Physical budget | per-frame words and VBlanks | `physical_budget.py` | Main's budget | same splitting as Main |
| Packer, simulator, colour | whole-movie arrays | `pack_stream.py`, `sim.py`, palettes, quantisers | files | numerical quality |
| Host tokens | lock files per slot | `resource_tokens.py` | other processes | all or nothing; nothing kept on failure |
| tmpfs workspace, artifact cache | directories, lease and completion records | `tmpfs_workspace.py`, `sim_artifact_cache.py` | other processes, crashes | nothing leased is evicted; nothing incomplete is used |
| Parallel runner | stages of several profiles | `parallel_run.py` | processes, tokens | stages in order; failure stops only its profile |
| Build, configuration, release | files | `player_constants.py`, `encode_config.py`, ... | - | validation |
| Checkers, analysis, rendering, benches, harness, skills | reports | - | - | - |

The hard behaviours are these. Two CPUs poll words of each other, and each
transition must be seen before the word changes again. Main gives its bank back
before its frame is on the screen. The CD does not wait: Sub reads ahead into
buffers while a frame is expanded and while Main is late, and the patterns for a
bank may arrive while Main has that bank. Sectors are lost. Counters on both sides
survive a replay. The encoder proves the capacities in one place and the player
relies on them in another. And a few host processes share slots and directories
that a crash can leave behind. `PROJECT.json` lists each hazard at its line.

## 2. Plan

| order | module | contents | state |
|---|---|---|---|
| 1 | `FrameRelay` | abstract: frames are made, given, read and shown in order and once | done |
| 2 | `Handoff`, `HandoffInv`, `MCHandoff` | the bank exchange; implements `FrameRelay`; its inductive invariant | done |
| 3 | `HandoffProofs` | `[]Inv`, the safety properties, safety refinement | done |
| 4 | `CdRead`, `MCCdRead`, `CdReadProofs` | the finite read with lost sectors; exact file for any length, depth and losses | done |
| 5 | `SectorPump`, `MCSectorPump`, `SectorPumpProofs` | the pump against every accepted routing table; pending ownership and WordBuf capacity | done |
| 6 | `Workspace`, `MCWorkspace`, `WorkspaceProofs` | leases, eviction, completion markers and the hand-off to the pipeline parent, with kills anywhere; what is leased stays, what is promised is free | done |
| 7 | `Jobs`, `MCJobs`, `JobsProofs` | the slots and stems that stages reserve, with processes that die | done |
| 8 | `TileAlloc`, `TileStream`, `MCTileStream`, `TileStreamProofs`, `TileDisplayProofs` | VRAM slots in the encoder, the packer's replay and the player's loads; lockstep, the screen | done |
| 9 | `Display`, `WaveRing`, `Playback`, `MCPlayback`, `PlaybackProofs` | Main's VBlank budgets, clock and palette walk; Sub's wave ring; both under one beam | done |
| 10 | `RingAddr` | WordBuf and PrgBuf addresses and the wrap, refining the levels of `SectorPump` | open |
| 11 | `Routing`, `Schedule` | routing codec against the player's decoder; greedy schedules against reference definitions | open |
| 12 | - | the scroll rebase of Main | open |

`Playback` composes `Display` with `WaveRing`; `TileStream` extends `TileAlloc`;
`Handoff` and `FrameRelay` are joined by the refinement `Relay`. `Handoff` and
`Playback` share the events "Main takes a frame" and "a frame is published": the first
has what goes through the banks and no time, the second the time and no banks.

## 3. What is modelled

### Handoff: two programs and two banks

An action is one stretch of a CPU's program between two accesses to something the
other CPU can see. `mpc` and `spc` name the place in Main's and Sub's program
after the labels of the source; a polling loop is not an action but the guard of
the action that leaves it. `cmd0`, `cmd1` and `stat0` are COMCMD0, COMCMD1 and
COMSTAT0; `mainBank` is MEMMODE.RET, the bank mapped to Main. The contents of a
bank have three parts, as in the source: the control block (`ctrl`, at CTRL_SCR),
the run records (`loads`, at O_LOADS, overlaid by the boot stage) and the WordBuf of
a parity (`word`). Data is abstracted to the frame it was written for; `Foreign`
stands for a control block with another `frame_seq`.

Modelled in order are the startup (`RequestStream` ... `SeeFrame0Ready` against
`AcceptStream` ... `Frame0Ready`, with the boot stage given and taken back and the
two WordBuf preloads), frame 0 (`StartPlayback`, `StartTimedSuffix`,
`StartupReady`), the loop (`PlayLoop`, `SwapAnswered`, `SwapFinished`, `BuildNames`,
`BuildPatterns`, `ReturnBank`, `Publish` against `ProcessFrame`, `ExpandFrame`,
`GiveFrame`, `FrameReady`, `FrameReleased`), the end (`MovieEnd` ... `EndReleased`,
`MuteAtEnd`: the release of the end comes before the mute) and the replay.

Two points deserve attention.

* `StageAnswerSampled` is a real-time assumption. Sub clears COMSTAT0 when it has
  taken the boot stage back and does not wait until Main has seen that. Main polls
  every few microseconds, and Sub reads several sectors of 13 ms before it writes
  COMSTAT0 again. Without the guard TLC finds a deadlock; it is listed as a hazard.
* The echo of unknown commands in `command_loop`, the error states (`bad_header`)
  and the diagnostics ISO_HOLD and DESYNC_DUMP are left out.

`FrameRelay` is the abstract specification. `Relay` in `Handoff` maps the two
programs to its four counters: CMD_STREAM is asserted for exactly as long as the
counters of the movie that ended are stale.

### CdRead: one finite read

`DriveReads` and `DriveOverruns` are the drive and the CDC, which are outside the
repository and modelled as the BIOS calls see them: consecutive sectors, a
buffer of `CdcDepth`, a loss when it is full. `TransferFails` is `drain1`'s own
loss, after 20000 failed CDC_TRN. `FirstSector`, `NextSector` and `Gap` are the
three branches of the MSF test, `StopForStage` and `ResumeAfterStage` the interval
in which Main owns the boot stage, `IssueFileRead` the replay. MSFs are counted in
sectors; the BCD digits are not modelled.

### SectorPump: the pump and the encoder's promise

`plan` is a routing table that `PlanOK` accepts, where `PlanOK` is
`replay_frozen_schedule` with `control_sector_schedule` and `rate_deltas`, that is,
the encoder's proof that its table is safe. The pump is modelled from `p1_top` to
`p1_adv`: `SlotHead` computes a slot's share of CD time, `ToApply`, `ToWord`,
`ToRing` and `ToPad` route one sector, and `WordAcceptGuard` and `PollGuard` are the
guards that stop the read-ahead. `PumpPoll` may run between any two runs of an
expansion and while Sub waits for Main. The frame loop is reduced to what paces the
pump: `FetchControl`, `ExpandFrame`, `GiveBank`, `FlushPending`, `BankReleased` for
Sub and `AskFirst`, `Release`, `ReadPatterns` for Main.

Buffers are levels, in half sectors. Ring occupancy is a level where the code
takes the difference of two pointers, hence `% RingSize` in `PollGuard`: a full
ring would look empty. `expand_frame` frees PrgBuf and WordBuf space while it goes;
`ExpandFrame` frees it at the end, so a guard may refuse a sector here that the code
already accepts, and occupancy is never underestimated. The CD gives a sector
whenever it is asked: how long Sub waits is not part of the model, and losses are in
`CdRead`. A control block with a foreign `frame_seq` is in `Handoff` only: what its
unexpanded runs leave behind in the buffers is a hazard without a property yet.

### Workspace: directories that several processes share

`tmpfs_workspace.py` keeps directories under one root, evicts the oldest that no live
process leases when it needs room, and marks a simulation's output complete when it is.
The processes are encoder runs (`Sims`, `sim.py`), tools that read one entry and write
another (`Tools`), and pipeline parents that take over their child's lease before it
ends (`Parents`, `parallel_run.py`, whose poll of the child and wait for the lock,
lines 216-219, are one step in `Pin`). Every operation runs under a flock (`lock`), but an
action is one file operation: a directory is torn before it is gone (`Tear`,
`Unlinked`), a marker is written after the directory (`Grant`, `Publish`), and `Crash`
may come between any two. A process may start with the pid of a dead one that left
leases. Data is `whole` or not; validating it (`load_complete`) is exact.

### Jobs: reservations of several processes

Each job of the parallel runner takes its profile's stem, and runs its stages one after
another; a stage reserves slots of the processor, the GPU or the emulator for some of
its phases. A slot is a flock that is tried, not waited for, so `Try` is one attempt,
`Exhausted` and `GiveUp` give everything back before the pause. Sessions are stages that
somebody starts by hand. `gpu` says whether there is a GPU, which changes what a
simulation reserves and whether it forks.

A flock lives until the last copy of its descriptor is closed, and the model has the ways
to die that differ in what is closed. `Fail` is a stage that ends badly, or is killed with
all it started: its locks go and the job leaves its stem. `Killed` is a stage process
killed alone while a pool of forked workers runs, in the quantisation without a GPU and in
the panels of an analysis: they keep its slots, and the stem if the stage took that
itself, until they see their pipe closed (`WorkersEnd`). `WrapperDies` and `RunnerDies` are
the death of the process that keeps a stem while the stage, which inherits no descriptor,
works on: those are in `alone`, and the stem is free. Such a stage works without a lock,
against CONFIG.md:47-48. `OneOwner` does not count it as an owner; counted, TLC refutes
`OneOwner` by a `WrapperDies` and a job that starts on the same stem.

Left out are processes that disagree about the capacity (`_ensure_capacity`, where two of
them can race), a failed lease in `_run_sim_with_handoff`, which leaves the child running,
and an ffmpeg that outlives its killed stage. Palette and Quantize, which reserve the same
one after the other, are one phase.

### TileAlloc and TileStream: one allocator in three places

`TileAlloc` is `TileAllocator` as operators on a record, with the tiers of a search for a
slot (`Tiers`), pins, the block search of a fade, remaps and the transition guard
(`Needs`). `TileStream` uses it as `sim.py` does: a frame is decided cell by cell under
the guard, placed, and then patterns for later frames are prefetched; a scroll moves the
cells first. `pack` is the packer's own allocator, which is given the slots and must
accept them; `vram`, `shown` and `pic` are the player's: a load is written while the
frame before is on the screen. A scroll keeps a direction (`way`) and moves the window by
some cells a frame or within one (`Moves`), with the guard cell that comes into view next (`edge`) before
or behind it. Which patterns a frame wants is any choice, so the model has the decisions
and none of the image statistics. In the last tier, which only a frame that moved cells
reaches, the code takes the slot used longest ago; `slot_lastuse` is not kept, so
`AllocSlots` has any slot there, and encoder and packer take the same one.

Four behaviours of the code limit the properties, and each is named where it does. The
edge that a scroll hides is decided without asking the guard (`sim.py:3790`), so the
allocator may run out inside such a frame: `FlipExact` allows for it. After a remap the
guard counts the cells that stay and not those still on the screen (`sim.py:3024`), so that
a frame that moves cells may load into a slot the screen shows, which the description of
the remap rules out: finding 4. `DisplayIntact` says that the screen is then torn only where
the allocator counts it (`tearing`, the code's counter of torn allocations). A fade
reference that must be given up may be one that the frame before shows (`tile_alloc.py:449`
looks at the references of the new frame only, where the module's own description says that
the shown slots are protected). And `sim.py` does not clear what it believes a cell shows
when a remap drops the cell (`plane_committed`, `sim.py:3777`): a cell that comes back into
view and wants the pattern it had gets no update, although its slot may have another by
then. The model clears `want` there and lets the cell be decided again, so it has the frames
in which the code updates the cell and not those in which it does not; no property covers
those.

### Display, WaveRing and Playback: what keeps time

`Display` is `build_frame` from the first pattern to the flip, for a 24 fps movie. The
beam is `active` or `blank`; `room` is what can still be written in this VBlank, in the
words that the budget counts in. A budget is opened at the head of a VBlank (`Start`,
`Refill`), runs are loaded whole (`Whole`) or in chunks (`Split`, `Chunk`), the next
budget is asked for when nothing fits (`NextBudget`), and what was kept back is returned
(`Loaded`). `Source` is the palette walk, `Shares` and `Miss` the admission to the VBlank
whose budget is open, `Flip` the bundle and `pace_periodic_commit`.

`since` counts the VBlanks since the last flip, `seen` those that the stopwatch shows. The
stopwatch has 12 bits and counts 543 ticks to the VBlank, so it turns over after 7.5 VBlanks
(`movieplay_ip.s:1578`): `Turn` comes at some point of the half VBlank after the first
`Range` ones, and from then on `seen` lags by an amount that depends on where that was.
`MayArm` and `Measured` are what the wait and the debt make of it; `blind` remembers that a
frame was timed over a turn.

What Main does between two polls takes time, and the model says how much. Transfers use
up `room` exactly as they use up the budget: the budget's word costs are taken for the
truth. From the last pattern to the admission at most `Guard` words pass (`Drift`), for
that is what `NT_FLIP_GUARD_WORDS` is kept for, and the active display outlasts the code
between the patterns and the wait (`Prompt`). A frame is ready at any time, up to
`MaxStall` VBlanks after the last.

Left out are scroll frames, which add words to the bundle; fixed cadences, which have no
debt; the HUD fields and what a debug build does behind the last pattern
(`movieplay_ip.s:1037-1048`); and in `Shares` the refusal of lines near the end of the
VBlank by the HV counter (`movieplay_ip.s:1393-1395`), since the words that are left stand
for that time.

`WaveRing` is `write_wave_chunk` and a chip that plays on. `ahead` is history: what is
written and not yet played. The code sees only a difference modulo the ring, from the
high byte of the position. A rejected control block takes its chunk of sound with it
(`LoseChunk`).

`Playback` gives both one beam and one constraint: Main takes a frame when Sub has
expanded it, Sub expands one frame ahead.

## 4. What the runs show

| run | bounds | distinct states | shows |
|---|---|---|---|
| `handoff` | movies of 1..4 frames, replayed without end | 2056 | all below |
| `handoff_mismatch` | the same | - | finding 1 |
| `cd_read` | file of 9 sectors, stage after 4, buffer of 3, 5 losses, not of the first or last sector | 2615 | `ExactFile`, `RemainingExact`, `ReadCompletes` |
| `sector_pump` | 92 tables of 7 frames at a 2/3 cadence | 169540 | below |
| `sector_pump_unread` | the same | - | finding 2 |
| `workspace` | two runs, a tool, a parent, three directories in four units of space, five starts and kills | 754851 | below |
| `workspace_derived` | the same, the tool adds files to its input | - | finding 3 |
| `tiles` | four frames, four patterns in three slots, ring of four cells, a fade, a scroll on or back | 2453599 | below |
| `tiles_tear` | the same | - | finding 4 |
| `jobs` | two jobs of four stages, an analysis and a disc build by hand, four processor slots, with and without a GPU | 729236 | below |
| `playback` | movies of four frames, six loads for each, stalls of five VBlanks against a stopwatch of four and a half | 950603 | below |
| `playback_stopwatch` | the real stopwatch of seven and a half VBlanks, stalls of nine, one short load | - | finding 5 |

`handoff`:

* `BankQuiet`: Sub never exchanges banks while Main reads its own.
* `FrameCoherent`: name updates, patterns and CRAM of a published frame are those
  Sub wrote under the number Main counts, or the rejected block as a whole.
* `WordBufOfParity`: the physical bank of a parity depends on every exchange since
  the preload; Sub's `word_owned_bank` and Main's pattern source agree with it.
* `SoundOnlyWithPicture`: no sound over black or a startup, at any speed of the two CPUs,
  although Sub mutes only after Main has seen the release of the end: Main puts
  its black frame up when Sub reports the next frame 0, which is behind the mute.
* `StageIntact`: the boot stage reaches Main before it is overwritten.
* `Inv`: the inductive invariant that the proofs use.
* `ImplementsRelay`: refinement of `FrameRelay`, fairness included: the movie is
  shown completely, ends and starts again, for ever.

Four frames are enough to have each branch: one frame has no timed suffix, two
have no early bank return, three have one, four have two in a row. A movie
exchanges banks once per frame and once at its end; both parities occur, so that a
replay starts with the banks in either phase. The bound limits nothing that is
counted otherwise, and the proofs remove it.

`cd_read`: `ExactFile` says that the caller gets the file's sectors in order and
once, `RemainingExact` that the count which restarts the read behind the boot stage is
right after any recovery, `ReadCompletes` that every reading ends. Five losses allow
a loss while an earlier one is recovered and losses on both sides of the stage; a
buffer of three allows a gap to be noticed late, with other sectors behind it.
`MCInterior` leaves out the loss of the first sector and of the last, and the code recovers
neither. With only the first in `LossAt` TLC refutes `ExactFile`: `issue_file_readn`'s
comment says that its callers make that sector verifiable, but they clear both MSFs, the
first sector to arrive becomes the base (`movieplay_sp.s:1241`), and the file is shifted.
With only the last TLC refutes `ReadCompletes`: a gap is seen only when a later sector
comes, and `drain1` waits for one without a timeout (`movieplay_sp.s:1198`).

`sector_pump`:

* `NoUnderrun`: a frame's control block is complete when it is fetched, and its
  patterns are in their buffers when it is expanded.
* `RingsBounded`: neither ring becomes full, which would make it look empty.
* `WordBounded`: a WordBuf has room for its contents and for what is pending for it.
* `PendingOwned`: sectors held back are committed to the bank of their own parity by
  the first exchange that brings it.
* `SlotLayout`: each slot has the sectors the encoder gave it, and no lead is carried.
* `MovieCompletes`: the guards and waits never stop each other for good.

Seven frames at 24 fps give slots of two to four sectors, so that four WordBuf
sectors, one more than can be pending, come in one slot, and the rate accumulator
wraps. The capacities are just above what the tables need, so that each guard
refuses a sector in some state.

`workspace`:

* `LeasesKept`: nobody removes, tears or replaces a directory that a live process leases.
* `ReusedIsWhole`, `PinnedIsWhole`: what a run reuses, and what the parent goes on with,
  is complete and of the right identity, whatever was killed or torn before.
* `OneMaker`: two processes never fill one directory.
* `PromisedSpace`: what live writers have yet to write of what they asked for is free.
* `RunsEnd`: nobody waits without end for a lock, an acknowledgement or a child.

Two runs of different identity on one directory, a tool that pins it and a parent that
takes it over make every pair of users meet; four units of space for outputs of two and
three force evictions; five events allow a kill, a start with the dead process's pid
and a second kill.

`tiles`:

* `Lockstep`: the packer's allocator is the encoder's after every step (issue #113).
* `Consistent`: the dictionary's directions agree and every count is exact.
* `DisplayIntact`: no load changes what is on the screen before the flip, unless a fade
  reference had to be given up, or the frame moved cells and the allocator counted a tear.
* `FlipExact`: when a frame is flipped, each cell finds the pattern it was given.
* `ColdIsFresh`: a frame loads each pattern it was decided to load, once.
* `FadeKept`: a fade reference leaves before its deadline only when no other slot is left.

Three slots for two visible cells and four patterns make every search fall through to its
last tier; three frames after frame 0 suffice for a prefetch, its use, a scroll and the
return from it. The scroll on begins at frame 2, so that it has a frame to go on or
return in, and its second step brings a cell back that the first one dropped; a scroll
either way may begin at the last frame. A window that stands still, or moves by more than a
cell, is left to the proofs, which have no such bound.

`jobs`:

* `OneOwner`: of the stages that run, the workers they leave and the jobs between stages,
  no two have one stem, as long as the keeper of the stem lives.
* `ExactGrant`: a phase holds what it asked for and no more, and so do the workers that a
  killed one leaves; whoever is about to try again holds nothing of what it lacks,
  everyone else nothing.
* `AllEnd`: everyone ends, also when workers keep slots for a while. Here the widths fit:
  the runner divides the processors among its jobs. Without that division, two jobs that
  each ask for all slots can take them from each other for as long as their polls
  coincide; the mutant of this property is that livelock, and sessions started by hand at
  the default width are exposed to it.

`playback`:

* `BlankFits`: nothing is written after a VBlank's end, by no split and no shared flip.
* `OnTime`: a frame is never early, and patterns that were begun in the first VBlank and
  fit the VBlanks of the frame never make it late.
* `DebtIsLateness`: the debt, a shortened step and what the largest debt cut off are never
  more than the movie is late, and exactly that unless a frame was timed over a turn of the
  stopwatch.
* `PaletteFollows`: after any frames between, a normal frame shows the palette of the last
  switch at or before it.
* `SoundAhead`: after each chunk there is sound to play, less than a ring of it.
* `MovieEnds`: no split leaves a run that fits no budget.

The budget of six words leaves one for patterns when a palette is kept back for, so that
a load from Word-RAM, which needs two, cannot go on in that VBlank and the deadline
passes. Loads are none, exactly a budget, one word more, two runs and one and a
half budgets; stalls reach the largest debt, of two, and turn
the stopwatch; switches in consecutive frames are crossed
together after a fade. The ring re-synchronises in some runs. `SoundAhead` depends on the
bounds of the stalls: SYNC_MIN is 0 and the comparison unsigned, so a chip that has
overtaken the writer is noticed only as a distance above SYNC_MAX, and one that has
overtaken it by more than the rest of the ring (0x1800 samples) would be taken for a lead.

Fairness is weak fairness of each CPU's next-state action (and of the drive in
`CdRead`). Each CPU executes its program without end and no branch of it is
preferred: when a CPU is not in a polling loop it goes on, and a poll whose
condition stays true is seen. In `Handoff` no action choice is made fair, so frame
mismatches need never or may always happen. In `CdRead` losses are not fair, and are
bounded by `MaxLost` in one reading of the file: if every reading of a sector failed
for ever nothing could complete. In `Playback` the beam is fair too, since it moves by
itself. In `Workspace` and `Jobs` it is weak fairness of each process's steps, of which
kills are none: a process that is not killed goes on. Waiting for the workspace's flock is
fair to each process because the flock is asked for finitely often; the slots of `Jobs`
are tried at any time, and no order of the tries is assumed.

Deadlock is checked in the player's runs, and not in `workspace` and `jobs`,
where everybody ends, nor in `tiles`, whose movies do.

## 5. What is proved

`HandoffProofs` proves, for every `FrameCounts \subseteq Nat \ {0}` and with no other
assumption:

* `TypeCorrect`, `Coherence`, `OwnParity`, `StageKept`, `SoundWithPicture`, `Quiet`:
  the safety properties above, as `Spec => [] ...` or `Spec => [][...]_vars`;
* `RelaySafety`: `Spec` implements `FrameRelay`'s safety part.

None of the properties is inductive: whether an exchange is safe depends on where
the *other* program can be. `Inv` (`HandoffInv.tla`) says exactly that. `MainOK` fixes
the words Main writes from its own place and flags; `SubOK` gives, for each place of
Sub, the places where Main can be and the value of COMSTAT0; `CountOK` relates the
two frame counts, which neither CPU sends to the other; `DataOK`, `WordOK`, `StageOK`
and `SoundOK` say what the banks, the staging and the sound are in each. `Init` gives
`Inv` (`InitInv`); a step of Main and a step of Sub preserve it, one lemma for each
group of conjuncts and one step per action (`Invariance`). Each theorem is then `Inv` at
one place.
The refinement adds that the mapped initial state is the relay's, and that each
action is one relay step or leaves its counters unchanged.

`CdReadProofs` proves, for every file, boot-stage position, CDC buffer, set of sectors
that can be lost and number of losses, that `0 \notin LossAt` implies
`ReaderTypeCorrect`, `ExactlyTheFile` and `RemainingIsExact`. The hypothesis is needed:
without it TLC refutes `ExactFile` (section 4). `ExactFile` alone is not inductive, since
a recovery computes where to read from the two MSFs. `Inv` at the end of `CdRead` adds
that they are the MSFs of the first and of the last accepted sector (`MsfOK`), or that
sector 0 is still the first in or before the CDC, and that a sector is only asked for
while one is left (`DrainOK`). It says nothing of the rest of the CDC buffer: a sector is
accepted for its MSF alone.

`SectorPumpProofs` proves two properties that need nothing from the routing table,
accepted or not. `PendingGoesHome`: held-back sectors go to the bank of their own
parity. The invariant is that Sub is never inside `pump1_core` when it exchanges banks
or commits (`PumpOK`). `WordBufNeverOverflows`: `word_accept_guard` alone keeps both
WordBufs within their capacity; besides the above it needs that an expansion only takes
what the table says (`WordInv`).

Its other three theorems say that the encoder's acceptance test is enough. For every
capacity, cadence and set of tables that `PlanOK` accepts, `FramesAreFed` is
`[]NoUnderrun`, `RingsNeverFull` is `[]RingsBounded` (the control ring and PrgBuf; the
WordBufs are the theorem above) and `SlotsInStep` is `[]SlotLayout` (sectors and CD time
of a slot: addresses are not modelled). The encoder replays a table frame by frame; the
pump reads ahead by guards that know nothing of the table's future. The invariant,
`PumpInv`, joins the two by counting. `Levels` says that each buffer holds what the table
delivered to it up to the pump's cursor, less what the frames before the present one took
(`SumOf`, with `ControlIn`, `RingIn` and `WordIn` for a cursor inside a slot).
`CursorInv` says where the cursor can be in each place of the two programs,
`PendingAhead` that a held-back sector is one the cursor has passed, `Ready` that what
the next frame takes is behind the cursor. A sector that the pump is sent for then has
room: a poll's guard has seen it, or it belongs to the frame to be fetched and the replay
has room for it. Hence no sector for a WordBuf is refused after its slot head ran, so a
slot head runs once and the layout holds. The sums are recursive functions over frames;
the induction over frames is a least counterexample. `SectorPumpAssumption` has one bound
for this that the code has by a wide margin: the control blocks of one frame, 11 KB at
most, and one more half sector fit `APPLY_SIZE`.

`TileStreamProofs` proves, for every pool, plane, set of patterns and fade, that the
packer never disagrees (`PackerFollows`), that the dictionary stays one-to-one
(`DictionaryKept`) and that a fade reference is given up last (`FadeReferenceKept`). The
replay checks a slot it is told against fewer patterns than the encoder avoided; the
invariant is that whatever the clock or the block search finds, the replay accepts, for no
reuse protection outlives a placement. That needs the types of all fields and the
dictionary. Least elements, on which both searches rest, come from the well-foundedness
of `<` on `Nat`.

`TileDisplayProofs` proves the rest of the tile stream's safety from the same assumption:
`CountsExact` (`Consistent`), `ScreenIntact` (`DisplayIntact`), `FlipNeverRefused`
(`FlipExact`) and `ColdLoadsExact` (`ColdIsFresh`). The counts are cardinalities, so a
step that moves one cell needs that a set of cells gains or loses exactly that one.
`ScreenIntact` covers frames that moved cells too: they lose a slot of the screen only to
the tier that takes a fade reference or to the one that counts a tear. `DisplayInv` adds
what the guard promises: in a frame that moved no cells, the patterns still to be loaded
are no more than the slots that hold neither a wanted pattern nor one on the screen. That
is an inequality between two sets, and a decision, a load or a reuse takes one from each;
it gives each search a slot before the tier that would take a shown one.

`JobsProofs` proves, for any jobs, sessions and widths, `StemsExclusive`: an owner of a
stem whose keeper lives, or whose own workers still have its descriptor, is the one
holder of its lock (`StemLocked`); and `GrantsAreExact` (`ExactGrant`): at each place of
a job it holds the slots counted so far, no more than it asked for, a count that falls
short gives them all back, and the workers of a killed phase have exactly its slots until
they end. Neither says anything of a stage in `alone` but that its slots are exact.

`WorkspaceProofs` proves `LeasesAreKept`, `MakersAlone`, `ReuseIsSound` and `PinIsSound`
for any processes, directories, sizes, starts and kills, from `WorkspaceAssumption` alone.
`LeaseKept` needs to know that a process which removes something has seen that nobody
leases it, and that nobody takes a lease on it before it is gone. `WInv` says so:
`LockedOK` for whoever is inside the lock (its output and its candidates are nobody's, the
path it pins is no candidate), `OwnOK` and `HoldOK` for what a process believes it leases
(it does, and only one process leases what it makes), `DataOK` for what it may then rely
on. `ParentOK` is the hand-over: until the parent is inside the lock there is no
acknowledgement, so the child still holds its lease, so no other maker does, and from then
on the parent's own lease keeps them out. The eviction itself is only constrained by its
candidates: neither their order nor the space they free matters here. There is one lemma
for each action.

On top of `WInv` the same module proves `TypeCorrect` (`TypeOK`) and `PromisesKept`
(`PromisedSpace`), which are about numbers. A sum over a finite set is the cardinality of
the union of its entries' unit intervals (`SumIsUnits`); that gives the four facts used:
a sum is a number, it is monotone, one entry changes it by its own change, and entries
that are told apart by a map sum to no more than what they are mapped to (`SumInto`).
`BooksInv` is what makes the type inductive: the markers are finite and well formed (a
new one always finds a free number), `order` lists the directories once each, whoever is
given space asked for no more than the capacity, and a token found again was left by a run
that had been given its space (`TokensOK`, which is where `WorkspaceAssumption` says that
runs of one identity need the same space: the token names the length, size and rate of
the movie the bytes are computed from). `SpaceInv` says that what the makers owe
(`Owes`) is free, that an eviction's goal covers them and its own process, and that a
process that found room keeps it until its lease is written, since it holds the lock. The
step that carries it is `ReservationCovers`: the reservations computed from the lease
markers are at least what is owed, as each maker has a lease on its own directory, alone,
and has written at least what the directory takes. `PromisesKept` assumes
`NoDerivedData`, as the run does: with derived files it is false (finding 3).

`PlaybackProofs` proves `WritesFitBlank`, `FlipsOnTime`, `DebtExact` and `PaletteExact`
from `DisplayAssumption` alone: the bundle with a palette fits one VBlank, the table is
sorted, a turn of the stopwatch has four VBlanks at least, one more than the longest
step. None of the four is inductive. `BudgetInv` says that the budget left is the room
left, exactly while patterns are written and up to the guard until the flip. `TimingInv`
follows a frame that may still be on time (`InTime`) through every place of the code:
where the beam is, how many VBlanks began, and that what is left covers what the flip
will cost. The one step where two computations must agree is `SourceCost`: the reserve is
computed before the patterns from the next entry of the table, the cost after them from
the walk over it, and sortedness makes the second no larger. `ClockInv` ties the phase to
the parity of the frame and what is measured to what has passed (`DebtExact` has no bound
on stalls: over a turn the stopwatch shows too little, so the debt falls short and never
exceeds the lateness), `PaletteInv` says that the pointer parts the table at the frame.

`SoundStaysAhead`, in the same module, is about the sound: `SoundAhead` for every ring,
chunk, rate and loss, from `WaveRingAssumption` (the packer queues no more chunks than
SYNC_MAX allows, and a chunk and the missing byte fit above it) and the hypothesis
`[]NotLapped`: while chunks are to come, the chip has never overtaken the writer by more
than the rest of the ring. The code cannot tell such an overtake from a lead, so without
the hypothesis the property is false; how far the chip gets depends on the stalls, whose
bounds are TLC's. `NotLapped` is an invariant within the bounds of `playback` (add it to
the cfg to see it), so the run checks `SoundAhead` without it. The invariant is
`SoundInv`: the writer is where the chip is plus what is ahead, up to turns of the ring
(`SamePlace`); `LeadMeasured` says that a distance within bounds is then the true one.

Only model-checked is liveness (`FairSpec`), which is beyond the proof system. Every other
property of the passing runs is a theorem, `PromisedSpace` and `SoundAhead` under the
hypotheses named above.

## 6. Findings

1. `handoff_mismatch`: MOVIE.md says a frame whose sequence does not match *holds
   the previous frame*. Sub clears the counts in the run area but leaves the foreign
   control block where Main reads its name updates, and Main applies them.
2. `sector_pump_unread`: the comment in `pf_pump` says that the capacity proof cannot
   reuse patterns before Main has consumed them. The level is lowered when a frame
   is expanded. While that frame waits for its exchange, sectors of a later frame of
   the same parity are accepted into its space.
3. `workspace_derived`: `lease_managed_path` reserves, in its own words, derived space.
   What an entry occupies is taken off the largest claim on it, so a claim for files that
   are added to a finished entry holds back less than was asked for, or nothing, and the
   next allocation is given the same space.
4. `tiles_tear`: `replace_display_cells` says that a remap right before `place_frame` keeps
   the preceding display protected until the new frame's transfers finish
   (tile_alloc.py:625-628). The transition guard is constructed after the remap and takes
   its capacity from reference counts that no longer have the cells the remap dropped. It
   lets a frame want more new slots than the screen leaves, and the allocator then takes one
   that the screen shows. The trace does not need the hidden edge.
5. `playback_stopwatch`: CONFIG.md:282-283 says that each whole late VBlank becomes
   recovery debt. The time since the last flip is masked to 12 bits, so a stall of eight
   VBlanks is measured as none; the frame is six VBlanks late and nothing is owed.

Further points where the code is weaker than it looks have no run. Section 3 has the fade
reference that may be on the screen, the scroll cell that returns with its old pattern, and
the stage that works on without a lock when the keeper of its stem is killed; section 4 the
first and the last sector of a read, and the sound's unnoticed overtake.

## 7. Not modelled

The device itself: DMA, VDP, RF5C164 and the CD drive appear only as what the
programs see. Image processing (palettes, quantisation, dithering, the simulator's
statistics) has no control state. Boot code, benches and test discs run once or are
experiments. Build and release scripts are sequential and have unit tests. Analysis,
rendering, harness and agent workflows only read results: most of the repository's
Python is of this kind, and most of what carries the system's order and timing is in the
two assembly programs.

Of the modelled parts, these are open: the addresses of the rings (levels here) and what a
rejected block leaves in them; the routing codec and `routing_prepare`; the encoder's
schedule search, of which only the acceptance test (`PlanOK`) is here; the choice of a
pattern's source; scroll frames on Main; the decoder's arithmetic.
