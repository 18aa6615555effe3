----------------------------- MODULE TileAlloc -----------------------------
(***************************************************************************)
(* The VRAM slot allocator shared by the encoder and the packer            *)
(* (src/tools/tile_alloc.py, class TileAllocator), as operators on its     *)
(* state, and the guard that budgets a frame's decisions before they are   *)
(* placed (class FrameTransitionGuard).                                    *)
(*                                                                         *)
(* Left out: slot_lastuse, which only ranks the victims of the very last   *)
(* resort (AllocSlots); statistics; relocation of a resident key,    *)
(* which no caller asks for; the cell domain, which has its final size     *)
(* from the start, as expand_cell_domain moves no cell here.               *)
(***************************************************************************)
EXTENDS Integers, FiniteSets, Sequences

CONSTANTS
  Keys,   \* tile patterns
  Cells,  \* cells of the name table
  Pool,   \* slots
  NoKey

ASSUME TileAllocAssumption ==
  /\ Pool \in Nat \ {0}
  /\ NoKey \notin Keys
  /\ IsFiniteSet(Cells)

Slots  == 0 .. Pool - 1
NoSlot == -1

Fresh ==
  [key_slot  |-> [k \in Keys |-> NoSlot],
   slot_key  |-> [s \in Slots |-> NoKey],
   refs      |-> [s \in Slots |-> 0],       \* cells now showing the slot
   free      |-> Slots,                     \* popped in ascending order
   hand      |-> 0,                         \* of the clock
   cur       |-> [c \in Cells |-> NoSlot],
   prev      |-> [c \in Cells |-> NoSlot],
   protect   |-> {},                        \* shown by the frame before
   tfp       |-> {},                        \* reused by this frame
   until     |-> [s \in Slots |-> -1],      \* slot_pin_until
   mandatory |-> {},                        \* slot_pin_mandatory
   pinned    |-> 0,                         \* pinned_count
   tearing   |-> FALSE,                     \* counted, in this frame
   reclaimed |-> FALSE]                     \* mandatory_prefetch_evictions

Resident(a, k) == a.key_slot[k] # NoSlot
Held(a, f)     == {s \in a.mandatory : a.until[s] >= f}
Shown(a)       == {s \in Slots : a.refs[s] # 0}

----------------------------------------------------------------------------
(* Eviction *)

\* Turns of the clock hand before it is at s; the first of S it meets.
Turns(a, s) == (s - a.hand) % Pool
First(a, S) == CHOOSE s \in S : \A t \in S : Turns(a, s) <= Turns(a, t)
Lowest(S)   == CHOOSE s \in S : \A t \in S : s <= t

Evict_Bug(a, s) ==
  [a EXCEPT !.key_slot  = [k \in Keys |-> IF k = a.slot_key[s] THEN NoSlot
                                          ELSE @[k]],
            !.slot_key  = [@ EXCEPT ![s] = NoKey],
            !.until     = [@ EXCEPT ![s] = -1],
            !.mandatory = @ \ {s}]

Evict(a, s) ==
  [a EXCEPT !.key_slot  = [k \in Keys |-> IF k = a.slot_key[s] THEN NoSlot
                                          ELSE @[k]],
            !.slot_key  = [@ EXCEPT ![s] = NoKey],
            !.until     = [@ EXCEPT ![s] = -1],
            !.mandatory = @ \ {s},
            !.pinned    = IF a.until[s] >= 0 THEN @ - 1 ELSE @]

Take(a, s) == [Evict(a, s) EXCEPT !.hand = (s + 1) % Pool]

\* Whom a visible update may evict, the first choice first: a speculative
\* pin, cache history, a fade reference, a tile shown by the frame before
\* (tearing), anything.
Tiers_Bug(a, f) ==
  LET idle == {s \in Slots : a.refs[s] = 0 /\ s \notin a.tfp}
  IN  << IF a.pinned = 0 THEN {}
         ELSE {s \in idle \ (a.protect \cup a.mandatory) : a.until[s] >= f},
         IF a.pinned = 0 THEN {} ELSE idle \cap Held(a, f),
         idle \ (a.protect \cup Held(a, f)),
         {s \in Slots : a.refs[s] = 0} \ Held(a, f),
         Slots \ Held(a, f) >>

Tiers(a, f) ==
  LET idle == {s \in Slots : a.refs[s] = 0 /\ s \notin a.tfp}
  IN  << IF a.pinned = 0 THEN {}
         ELSE {s \in idle \ (a.protect \cup a.mandatory) : a.until[s] >= f},
         idle \ (a.protect \cup Held(a, f)),
         IF a.pinned = 0 THEN {} ELSE idle \cap Held(a, f),
         {s \in Slots : a.refs[s] = 0} \ Held(a, f),
         Slots \ Held(a, f) >>

\* _alloc_slot_contig raises when every slot holds a fade reference.
CanAlloc(a, f) == a.free # {} \/ \E i \in 1 .. 5 : Tiers(a, f)[i] # {}

Tier(a, f) == CHOOSE i \in 1 .. 5 : /\ Tiers(a, f)[i] # {}
                                    /\ \A j \in 1 .. i - 1 : Tiers(a, f)[j] = {}

\* Where the next pattern may go.  The last resort takes the slot unused for
\* longest, whose time is not kept here: any of them.
AllocSlots(a, f) ==
  IF a.free # {} THEN {Lowest(a.free)}
  ELSE LET S == Tiers(a, f)[Tier(a, f)]
       IN  IF Tier(a, f) = 5 THEN S ELSE {First(a, S)}

AllocState(a, f, s) ==
  LET t == Tier(a, f)
  IN  IF a.free # {} THEN [a EXCEPT !.free = @ \ {s}]
      ELSE [(IF t = 5 THEN Evict(a, s) ELSE Take(a, s)) EXCEPT
              !.tearing   = @ \/ t >= 4,
              !.reclaimed = @ \/ t = 3]

----------------------------------------------------------------------------
(* place_frame: begin_frame, place for each updated cell, end_frame *)

Begin(a, keys) ==
  [a EXCEPT !.protect = {a.prev[c] : c \in Cells} \ {NoSlot},
            !.tfp     = {a.key_slot[k] : k \in keys} \ {NoSlot},
            !.tearing = FALSE, !.reclaimed = FALSE]

Bind(a, k, s) == [a EXCEPT !.key_slot = [@ EXCEPT ![k] = s],
                           !.slot_key = [@ EXCEPT ![s] = k]]

\* A planned pattern has reached a display: its pin ends, a fade
\* reference's only at its deadline.
Unpin(a, s, f) ==
  IF s \in a.mandatory /\ f < a.until[s] THEN a
  ELSE [a EXCEPT !.pinned    = IF a.until[s] >= 0 THEN @ - 1 ELSE @,
                 !.until     = [@ EXCEPT ![s] = -1],
                 !.mandatory = @ \ {s}]

Show(a, c, s) ==
  [a EXCEPT !.refs = [x \in Slots |-> @[x] + (IF x = s THEN 1 ELSE 0)
                                           - (IF x = a.cur[c] THEN 1 ELSE 0)],
            !.cur  = [@ EXCEPT ![c] = s]]

PlaceSlots(a, k, f) ==
  IF Resident(a, k) THEN {a.key_slot[k]} ELSE AllocSlots(a, f)

\* s is one of them.
Place(a, c, k, f, s) ==
  Show(IF Resident(a, k) THEN Unpin(a, s, f)
       ELSE Bind(AllocState(a, f, s), k, s), c, s)

End(a) == [a EXCEPT !.prev = a.cur, !.tfp = {}]

\* replace_display_cells with clear_others: from says where a cell's slot
\* comes from.
\* In place, the last cell first.
Rebase_Bug(a, from) ==
  LET old(c) == IF c \in DOMAIN from /\ from[c] \in DOMAIN from /\ from[c] > c
                THEN a.cur[from[from[c]]] ELSE a.cur[from[c]]
      cur    == [c \in Cells |-> IF c \in DOMAIN from THEN old(c) ELSE NoSlot]
  IN  [a EXCEPT !.cur  = cur,
                !.refs = [s \in Slots |->
                            Cardinality({c \in Cells : cur[c] = s})]]

Rebase(a, from) ==
  LET cur == [c \in Cells |-> IF c \in DOMAIN from THEN a.cur[from[c]]
                              ELSE NoSlot]
  IN  [a EXCEPT !.cur  = cur,
                !.refs = [s \in Slots |->
                            Cardinality({c \in Cells : cur[c] = s})]]

----------------------------------------------------------------------------
(* prefetch *)

Pin(a, k, s, d, m) ==
  [Bind(a, k, s) EXCEPT !.until     = [@ EXCEPT ![s] = d],
                        !.mandatory = IF m THEN @ \cup {s} ELSE @ \ {s},
                        !.pinned    = @ + 1]

\* A fade reference that is there already is pinned where it is.
Upgrade(a, s, d) ==
  [a EXCEPT !.pinned    = IF a.until[s] < 0 THEN @ + 1 ELSE @,
            !.until     = [@ EXCEPT ![s] = IF a.until[s] >= d THEN a.until[s]
                                            ELSE d],
            !.mandatory = @ \cup {s}]

\* The slots the clock may give to a prefetch of frame f.
Searched_Bug(a, f, m, avoid) ==
  {s \in Slots :
     /\ s \notin a.protect \/ m
     /\ a.refs[s] = 0 /\ a.slot_key[s] \notin avoid
     /\ a.until[s] >= f => m /\ s \notin a.mandatory}

Searched(a, f, m, avoid) ==
  {s \in Slots \ a.protect :
     /\ a.refs[s] = 0 /\ a.slot_key[s] \notin avoid
     /\ a.until[s] >= f => m /\ s \notin a.mandatory}

CanSearch(a, f, m, avoid) == a.free # {} \/ Searched(a, f, m, avoid) # {}

SearchSlot(a, f, m, avoid) ==
  IF a.free # {} THEN Lowest(a.free) ELSE First(a, Searched(a, f, m, avoid))

\* Any slot the clock finds.
Organic(a, k, f, d, m, avoid) ==
  LET s == SearchSlot(a, f, m, avoid)
  IN  Pin(IF s \in a.free THEN [a EXCEPT !.free = @ \ {s}] ELSE Take(a, s),
          k, s, d, m)

\* _forced_prefetch_slot_available
Available(a, s, f, avoid) ==
  \/ s \in a.free
  \/ /\ a.refs[s] = 0 /\ s \notin a.protect /\ s \notin a.tfp
     /\ a.slot_key[s] \notin avoid /\ s \notin Held(a, f)

\* A slot that is given.  The hand ends where the clock would have left it,
\* except that a fade block does not attract it.  A refusal changes nothing.
Forced_Bug(a, k, s, f, d, m, avoid, relocate) ==
  IF ~Available(a, s, f, avoid) THEN a
  ELSE Pin(IF s \in a.free THEN [a EXCEPT !.free = @ \ {s}] ELSE Evict(a, s),
           k, s, d, m)

Forced(a, k, s, f, d, m, avoid, relocate) ==
  IF ~Available(a, s, f, avoid) THEN a
  ELSE Pin(IF s \in a.free THEN [a EXCEPT !.free = @ \ {s}]
           ELSE IF relocate THEN Evict(a, s) ELSE Take(a, s), k, s, d, m)

\* least_live_contiguous_block: the low or the high edge of the pool.
BlockStart(a, n, f) ==
  LET high == Pool - n
      live == Shown(a) \cup a.protect
      In(S, start) == Cardinality(S \cap (start .. start + n - 1))
  IN  IF \/ In(Held(a, f), high) < In(Held(a, f), 0)
         \/ /\ In(Held(a, f), high) = In(Held(a, f), 0)
            /\ In(live, high) < In(live, 0)
      THEN high ELSE 0

\* find_prefetch_slot_in_block for a key that is not resident.
BlockFree(a, f, start, n, assigned, avoid) ==
  {s \in (start .. start + n - 1) \ assigned : Available(a, s, f, avoid)}

----------------------------------------------------------------------------
(* FrameTransitionGuard: sel, the key decided for each cell so far, and    *)
(* extra, how many cells each key that needs a slot outside the preceding  *)
(* display was decided for                                                 *)

Capacity(a) == Pool - Cardinality(Shown(a))
Needs_Bug(a, k) == ~Resident(a, k)
Needs(a, k) == ~Resident(a, k) \/ a.refs[a.key_slot[k]] = 0
Used(extra) == Cardinality({k \in Keys : extra[k] > 0})

Fits(a, sel, extra, c, k) ==
  LET old  == sel[c]
      less == IF old # NoKey /\ Needs(a, old) /\ extra[old] = 1 THEN 1 ELSE 0
      more == IF Needs(a, k) /\ extra[k] = 0 THEN 1 ELSE 0
  IN  old = k \/ Used(extra) - less + more <= Capacity(a)

Commit(a, sel, extra, c, k) ==
  [x \in Keys |->
     extra[x] + (IF x = k /\ Needs(a, k) /\ sel[c] # k THEN 1 ELSE 0)
              - (IF x = sel[c] /\ Needs(a, x) /\ sel[c] # k THEN 1 ELSE 0)]
=============================================================================
