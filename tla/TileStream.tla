----------------------------- MODULE TileStream ----------------------------
(***************************************************************************)
(* A movie's name-table updates and tile loads, frame by frame: the        *)
(* encoder decides them on its allocator (src/tools/sim.py), the packer    *)
(* replays the recorded decisions on its own (src/tools/pack_stream.py,    *)
(* resolve), and the player writes each load into VRAM while the frame     *)
(* before is on the screen, then flips.                                    *)
(*                                                                         *)
(* The packer's step is taken together with the encoder's: it reads        *)
(* nothing but the record of it.  Which patterns a frame wants, and how    *)
(* much of it its budgets allow, is any choice.  A scroll moves a window   *)
(* of Columns primary cells, with a guard cell before or behind it, over a *)
(* ring of cells in one direction (scroll_plan.py; one row of the 64x32    *)
(* plane).                                                                 *)
(***************************************************************************)
EXTENDS TileAlloc

CONSTANTS
  Columns,      \* cells of a normal frame: 0 .. Columns - 1
  FadeKeys,     \* what the reference of a fade shows
  FadeFrames,   \* frames that prefetch it
  Deadline,     \* its anchor
  Targets,      \* the sets of patterns a future frame may ask for
  Lookahead,    \* RAW_PREFETCH_LOOKAHEAD
  Moves,        \* <<frame, way, cells>>: bound on the scrolls that are detected
  MaxFrame      \* bound: the last frame

Plane == Cardinality(Cells)

ASSUME TileStreamAssumption ==
  /\ Cells = 0 .. Plane - 1
  /\ Columns \in 1 .. Plane - 1
  /\ FadeKeys \subseteq Keys /\ Targets \subseteq SUBSET Keys
  /\ FadeKeys # {} /\ IsFiniteSet(FadeKeys) /\ Cardinality(FadeKeys) <= Pool
  /\ Deadline \in Nat /\ FadeFrames \subseteq 1 .. Deadline - 1
  /\ Lookahead \in Nat /\ MaxFrame \in Nat
  /\ Moves \subseteq Nat \X {1, -1} \X Nat

VARIABLES
  sim, pack,   \* the two allocators
  frame,
  phase,       \* of the frame: decide, place, prefetch
  way,         \* of the scroll: 1, -1, or 0 when there is none
  pos,         \* its first column
  edge,        \* its guard cell, or NoSlot
  rebased,     \* the frame began by moving cells
  sel, extra,  \* the decisions, and their guard
  due,         \* loads that were decided and not made yet
  block,       \* fade_prefetch_slots: start of the block, or NoSlot
  want,        \* expected_patterns: what each cell is to show; a cell that
               \* a remap drops may be decided again, whatever it had
  vram,        \* the player's patterns
  shown, pic   \* the flipped name table, and what it showed when flipped

vars == <<sim, pack, frame, phase, way, pos, edge, rebased, sel, extra, due,
          block, want, vram, shown, pic>>

Nothing == [c \in Cells |-> NoKey]
Unspent == [k \in Keys |-> 0]
Primary(p) == {(p + c) % Plane : c \in 0 .. Columns - 1}
\* guard_cells: what comes into view next.
Ahead(p)   == (p + Columns) % Plane
Behind(p)  == (p - 1) % Plane
FadeCount  == Cardinality(FadeKeys)
Lost       == {k \in FadeKeys : ~(/\ Resident(sim, k)
                                  /\ sim.key_slot[k] \in sim.mandatory
                                  /\ sim.until[sim.key_slot[k]] >= Deadline)}

Init ==
  /\ sim = Fresh /\ pack = Fresh
  /\ frame = 0 /\ phase = "decide" /\ rebased = FALSE
  /\ way = 0 /\ pos = 0 /\ edge = NoSlot
  /\ sel = Nothing /\ extra = Unspent /\ due = 0
  /\ block = NoSlot
  /\ want = Nothing
  /\ vram = [s \in Slots |-> NoKey]
  /\ shown = [c \in Cells |-> NoSlot] /\ pic = Nothing

----------------------------------------------------------------------------
(* Decisions *)

\* commit_repoint, behind decision_fits; a cell may be decided again.  A
\* new palette for the same pattern takes no slot and is left out.
Decide(c, k) ==
  /\ phase = "decide" /\ c \in Primary(pos) /\ k \notin {sel[c], want[c]}
  /\ Fits(sim, sel, extra, c, k)
  /\ extra' = Commit(sim, sel, extra, c, k)
  /\ sel' = [sel EXCEPT ![c] = k]
  /\ UNCHANGED <<sim, pack, frame, phase, way, pos, edge, rebased, due,
                 block, want, vram, shown, pic>>

\* The hidden edge of a scroll is decided after the cells in view, and
\* without asking the guard about it.
DecideGuard(k) ==
  /\ phase = "decide" /\ way # 0 /\ sel[edge] = NoKey /\ k # want[edge]
  /\ sel' = [sel EXCEPT ![edge] = k]
  /\ UNCHANGED <<sim, pack, frame, phase, way, pos, edge, rebased, extra,
                 due, block, want, vram, shown, pic>>

\* The decisions are complete; place_frame begins.  Frame 0 is exact.
Settle ==
  /\ phase = "decide"
  /\ frame = 0 => \A c \in Primary(0) : sel[c] # NoKey
  /\ LET keys == {sel[c] : c \in Cells} \ {NoKey}
     IN  /\ sim'  = Begin(sim, keys)
         /\ pack' = Begin(pack, keys)
         /\ due'  = Cardinality({k \in keys : ~Resident(sim, k)})
  /\ phase' = "place" /\ extra' = Unspent
  /\ UNCHANGED <<frame, way, pos, edge, rebased, sel, block, want, vram, shown,
                 pic>>

----------------------------------------------------------------------------
(* Placement, in cell order *)

PlaceNext(c) ==
  /\ phase = "place" /\ sel[c] # NoKey /\ \A b \in 0 .. c - 1 : sel[b] = NoKey
  /\ CanAlloc(sim, frame)
  /\ \E s \in PlaceSlots(sim, sel[c], frame) :
       /\ sim'  = Place(sim, c, sel[c], frame, s)
       /\ pack' = Place(pack, c, sel[c], frame, s)
       /\ IF Resident(sim, sel[c]) THEN UNCHANGED <<due, vram>>
          ELSE /\ due' = due - 1
               /\ vram' = [vram EXCEPT ![s] = sel[c]]
  /\ want' = [want EXCEPT ![c] = sel[c]]
  /\ sel' = [sel EXCEPT ![c] = NoKey]
  /\ UNCHANGED <<frame, phase, way, pos, edge, rebased, extra, block, shown,
                 pic>>

Placed ==
  /\ phase = "place" /\ sel = Nothing
  /\ sim' = End(sim) /\ pack' = End(pack)
  /\ phase' = "prefetch"
  /\ block' = IF block = NoSlot /\ frame \in FadeFrames /\ way = 0
              THEN BlockStart(sim', FadeCount, frame) ELSE block
  /\ UNCHANGED <<frame, way, pos, edge, rebased, sel, extra, due, want, vram,
                 shown, pic>>

----------------------------------------------------------------------------
(* Prefetch: the packer is told the slot the encoder took, and not what    *)
(* the encoder avoided.  It stops when its allocator refuses the slot.     *)

Load(k, s) == vram' = [vram EXCEPT ![s] = k]

Replay(k, s, d, m, relocate) ==
  pack' = Forced(pack, k, s, frame, d, m, {}, relocate)

Others == UNCHANGED <<frame, phase, way, pos, edge, rebased, sel, extra,
                      due, block, want, shown, pic>>

\* Frame 0 fills free slots; later frames look ahead.
Soft(k, d, avoid) ==
  /\ phase = "prefetch" /\ way = 0 /\ frame \notin FadeFrames
  /\ d \in frame + 1 .. MaxFrame /\ ~Resident(sim, k)
  /\ IF frame = 0 THEN sim.free # {} /\ avoid = {}
     ELSE d <= frame + Lookahead /\ k \in avoid
  /\ CanSearch(sim, frame, FALSE, avoid)
  /\ LET s == SearchSlot(sim, frame, FALSE, avoid)
     IN  /\ sim' = Organic(sim, k, frame, d, FALSE, avoid)
         /\ Replay(k, s, d, FALSE, FALSE)
         /\ Load(k, s)
  /\ Others

\* prefetch_mandatory_in_block: a fade reference that is there is pinned; one
\* that is not goes into the block, or where the clock finds room.
Fade(k, avoid) ==
  /\ phase = "prefetch" /\ way = 0 /\ frame \in FadeFrames /\ k \in Lost
  /\ LET room == BlockFree(sim, frame, block, FadeCount,
                   {sim.key_slot[x] : x \in FadeKeys \ Lost}, avoid)
         s    == IF room # {} THEN Lowest(room)
                 ELSE SearchSlot(sim, frame, TRUE, avoid)
     IN  \/ /\ Resident(sim, k)
            /\ sim'  = Upgrade(sim, sim.key_slot[k], Deadline)
            /\ pack' = Upgrade(pack, sim.key_slot[k], Deadline)
            /\ UNCHANGED vram
         \/ /\ ~Resident(sim, k) /\ room # {}
            /\ sim' = Forced(sim, k, s, frame, Deadline, TRUE, avoid, TRUE)
            /\ Replay(k, s, Deadline, TRUE, TRUE)
            /\ Load(k, s)
         \/ /\ ~Resident(sim, k) /\ room = {}
            /\ CanSearch(sim, frame, TRUE, avoid)
            /\ sim' = Organic(sim, k, frame, Deadline, TRUE, avoid)
            /\ Replay(k, s, Deadline, TRUE, FALSE)
            /\ Load(k, s)
  /\ Others

----------------------------------------------------------------------------
(* The flip, and how the next frame begins *)

\* "physical-slot display": the packer stops at a frame it cannot show.
Exact == \A c \in Cells : want[c] # NoKey =>
           /\ pack.cur[c] # NoSlot /\ vram[pack.cur[c]] = want[c]

Flip ==
  /\ phase = "prefetch" /\ frame < MaxFrame /\ Exact
  /\ shown' = sim.cur /\ pic' = want
  /\ frame' = frame + 1 /\ phase' = "decide"
  /\ UNCHANGED <<sel, extra, due, block, vram>>

Moved(from) ==
  /\ sim' = Rebase(sim, from) /\ pack' = Rebase(pack, from)
  /\ want' = [c \in Cells |-> IF c \in DOMAIN from THEN want[from[c]]
                              ELSE NoKey]
  /\ rebased' = TRUE

NextNormal ==
  /\ Flip /\ way = 0
  /\ rebased' = FALSE
  /\ UNCHANGED <<sim, pack, want, way, pos, edge>>

\* A scroll frame keeps its primary and guard cells and no other.  The first
\* frame of a window has moved from column 0, in pixels: by m cells rounded
\* down.  A window that goes back (w = -1) looks behind in a frame that moves,
\* within the cell (m = 0) or not, and ahead in one that stands still.
NextScroll ==
  /\ Flip /\ frame' \notin FadeFrames
  /\ \E move \in Moves : LET w == move[2]  m == move[3] IN
       /\ move[1] = frame' /\ way \in {0, w}
       /\ way' = w
       /\ pos' = (pos + w * m) % Plane
       /\ \/ edge' = Ahead(pos') /\ (w = -1 => m = 0)
          \/ edge' = Behind(pos') /\ w = -1 /\ (way = 0 => m # 0)
  /\ Moved([c \in Primary(pos') \cup {edge'} |-> c])

\* The view is copied back to where normal frames are.
NextReturn ==
  /\ Flip /\ way # 0
  /\ way' = 0 /\ pos' = 0 /\ edge' = NoSlot
  /\ Moved([c \in 0 .. Columns - 1 |-> (pos + c) % Plane])

Next ==
  \/ \E c \in Cells, k \in Keys : Decide(c, k)
  \/ \E k \in Keys : DecideGuard(k)
  \/ Settle
  \/ \E c \in Cells : PlaceNext(c)
  \/ Placed
  \/ \E k \in Keys, d \in 1 .. MaxFrame, avoid \in Targets \cup {{}} :
       Soft(k, d, avoid)
  \/ \E k \in FadeKeys, avoid \in Targets : Fade(k, avoid)
  \/ NextNormal \/ NextScroll \/ NextReturn

Spec == Init /\ [][Next]_vars

----------------------------------------------------------------------------
(* Properties *)

\* issue #113: the packer, told the slots and searching for none, accepts
\* every one of them and keeps the encoder's state, the clock hand included.
Lockstep == pack = sim

\* Both directions of the dictionary agree, the reference and pin counts are
\* exact, a free slot is empty, and a displayed slot has a pattern.
Consistent ==
  /\ \A k \in Keys, s \in Slots : sim.key_slot[k] = s <=> sim.slot_key[s] = k
  /\ \A s \in Slots : sim.refs[s] = Cardinality({c \in Cells : sim.cur[c] = s})
  /\ sim.pinned = Cardinality({s \in Slots : sim.until[s] >= 0})
  /\ \A s \in sim.mandatory : sim.until[s] >= 0
  /\ \A s \in sim.free : /\ sim.slot_key[s] = NoKey /\ sim.refs[s] = 0
                         /\ sim.until[s] = -1
  /\ sim.hand \in Slots /\ sim.protect \subseteq Slots
  /\ phase # "place" => sim.tfp = {}

\* The screen keeps what it shows while the patterns of the next frame load.
Untorn == \A c \in Cells : shown[c] # NoSlot => vram[shown[c]] = pic[c]

\* Patterns are loaded over many VBlanks before the flip: until then the
\* cells on the screen keep what they show.  A frame that had to give up a
\* fade reference may tear; a frame that moved cells may (RemapKeepsDisplay),
\* but not without the allocator counting it; any other frame never does.
DisplayIntact == (rebased => ~sim.tearing) /\ ~sim.reclaimed => Untorn

\* tile_alloc.py:625-628: "A remap immediately before ``place_frame``
\* therefore keeps the preceding physical display protected until the new
\* frame's transfers finish."  VIOLATED: the guard is made after the remap and
\* leaves room for the slots of the cells that are left, not for those of the
\* display before; when no other slot is left, the allocator takes one of them.
RemapKeepsDisplay == rebased /\ ~sim.reclaimed => Untorn

\* The packer stops at no frame: every cell finds its pattern in VRAM when
\* the frame is flipped.  (A scroll's hidden edge is decided behind the
\* guard's back: once that has made the allocator tear, a frame that moved
\* cells may fail.)
FlipExact == phase = "prefetch" /\ (rebased => ~sim.tearing) => Exact

\* "realized cold equals the fresh-key count": a frame loads every pattern
\* it was decided to load once, and nothing is evicted and loaded again.
ColdIsFresh == phase = "prefetch" /\ ~rebased => due = 0

\* A fade reference leaves before its deadline only for a visible update
\* that has no other slot.
FadeGivenUp ==
  frame < Deadline => \A k \in FadeKeys \ Lost : k \in Lost' =>
    /\ phase = "place"
    /\ \A s \in Slots \ Held(sim, frame) :
         sim.refs[s] # 0 \/ s \in sim.tfp \/ s \in sim.protect
FadeKept == [][FadeGivenUp]_vars
=============================================================================
