------------------------- MODULE TileDisplayProofs -------------------------
(***************************************************************************)
(* Every pool, plane, set of patterns and fade, once more: what the        *)
(* screen, the cells and the counts of the allocator show.                 *)
(*                                                                         *)
(* The argument is about slots.  The guard lets a frame want no more       *)
(* patterns that have no slot on the screen than there are other slots     *)
(* (Budget).  Placing begins with the screen and what the frame reuses     *)
(* protected, so that every load still to come has a slot outside of both  *)
(* (Room); one load takes one of them and one of the loads, and evicts     *)
(* nothing that the frame wants.  So no frame tears that moved no cells,   *)
(* what the screen shows is not loaded over by any frame that does not     *)
(* tear, and no decided load is made twice.                                *)
(***************************************************************************)
EXTENDS TileStreamProofs

\* How many cells of a table have x.
Having(f, x) == Cardinality({c \in Cells : f[c] = x})

\* The counts of an allocator, and where they have to be zero.
Counted(a) ==
  /\ \A s \in Slots : a.refs[s] = Having(a.cur, s)
  /\ a.pinned = Cardinality({s \in Slots : a.until[s] >= 0})
  /\ \A s \in a.mandatory : a.until[s] >= 0
  /\ \A s \in a.free : a.refs[s] = 0 /\ a.until[s] = -1

\* A slot that is not free has a pattern.
Full(a) == \A s \in Slots \ a.free : a.slot_key[s] # NoKey

Wanting(w) == {w[c] : c \in Cells} \ {NoKey}
Todo(a, w) == {k \in Wanting(w) : ~Resident(a, k)}
Busy(a)    == a.protect \cup a.tfp \cup Shown(a)
Showing    == {shown[c] : c \in Cells} \ {NoSlot}

\* Every cell shows the slot of its pattern, and the slot has it in VRAM.
CellsExact ==
  /\ \A c \in Cells : want[c] = NoKey <=> sim.cur[c] = NoSlot
  /\ \A s \in Slots : sim.slot_key[s] # NoKey => vram[s] = sim.slot_key[s]
  /\ phase = "decide" \/ ~sim.tearing =>
       \A c \in Cells : want[c] # NoKey => sim.slot_key[sim.cur[c]] = want[c]

\* What the screen shows is protected from the first placement to the flip.
ScreenKept ==
  /\ sim.prev = IF phase = "prefetch" THEN sim.cur ELSE shown
  /\ phase # "decide" => sim.protect = Showing
  /\ Showing \cap sim.free = {}
  /\ phase = "decide" \/ (~sim.tearing /\ ~sim.reclaimed) =>
       \A c \in Cells : shown[c] # NoSlot => vram[shown[c]] = pic[c]

\* The guard's account of the decisions, and what it leaves for placing: every
\* pattern still to be loaded has a slot that no cell shows, was shown on or wants.
Budget(a, w, x) ==
  /\ Used(x) <= Capacity(a)
  /\ \A k \in Keys : x[k] = IF Needs(a, k) THEN Having(w, k) ELSE 0

Room(a, w, d) ==
  /\ ~a.tearing /\ d = Cardinality(Todo(a, w))
  /\ Cardinality(Busy(a)) + Cardinality(Todo(a, w)) <= Pool
  /\ \A c \in Cells : w[c] # NoKey /\ Resident(a, w[c]) =>
       \/ a.key_slot[w[c]] \in a.tfp
       \/ \E b \in Cells : w[b] = NoKey /\ a.cur[b] = a.key_slot[w[c]]

FrameInv ==
  /\ phase \in {"decide", "place", "prefetch"}
  /\ phase # "decide" => extra = Unspent
  /\ phase = "prefetch" => sel = Nothing
  /\ ~rebased => /\ way = 0
                 /\ phase = "decide" => Budget(sim, sel, extra) /\ sim.cur = shown
                 /\ phase = "place" => Room(sim, sel, due)
                 /\ phase = "prefetch" => ~sim.tearing /\ due = 0

DisplayInv ==
  /\ Counted(sim) /\ Full(sim)
  /\ want \in [Cells -> Keys \cup {NoKey}] /\ vram \in [Slots -> Keys \cup {NoKey}]
  /\ shown \in [Cells -> Slots \cup {NoSlot}]
  /\ extra \in [Keys -> Int] /\ due \in Int /\ rebased \in BOOLEAN
  /\ CellsExact /\ ScreenKept /\ FrameInv

----------------------------------------------------------------------------
(* Counting *)

LEMMA SlotsFinite == IsFiniteSet(Slots) /\ Cardinality(Slots) = Pool
<1>1. Pool \in Nat \ {0}
  BY PoolFacts
<1> QED
  BY <1>1, FS_Interval DEF Slots

LEMMA SlotSets ==
  ASSUME NEW S, S \subseteq Slots
  PROVE  IsFiniteSet(S) /\ Cardinality(S) \in Nat /\ Cardinality(S) <= Pool
         /\ (Cardinality(S) = Pool => S = Slots)
<1>1. S \in SUBSET Slots
  OBVIOUS
<1>2. IsFiniteSet(S) /\ Cardinality(S) <= Cardinality(Slots)
      /\ (Cardinality(Slots) = Cardinality(S) => Slots = S)
  BY <1>1, SlotsFinite, FS_Subset
<1> QED
  BY <1>2, SlotsFinite, FS_CardinalityType

LEMMA CellSets ==
  ASSUME NEW S, S \subseteq Cells
  PROVE  IsFiniteSet(S) /\ Cardinality(S) \in Nat
<1>1. IsFiniteSet(S)
  BY FS_Subset, TileAllocAssumption
<1> QED
  BY <1>1, FS_CardinalityType

\* One entry of a function changes: how many entries have a property.
LEMMA PinCount ==
  ASSUME NEW u \in [Slots -> Int], NEW s \in Slots, NEW d \in Int
  PROVE  Cardinality({x \in Slots : [u EXCEPT ![s] = d][x] >= 0})
           = Cardinality({x \in Slots : u[x] >= 0})
             + (IF d >= 0 THEN 1 ELSE 0) - (IF u[s] >= 0 THEN 1 ELSE 0)
<1> DEFINE S == {x \in Slots : u[x] >= 0}
           T == {x \in Slots : [u EXCEPT ![s] = d][x] >= 0}
<1>1. S \subseteq Slots
  OBVIOUS
<1>2. s \in S <=> u[s] >= 0
  OBVIOUS
<1>3. T = IF d >= 0 THEN S \cup {s} ELSE S \ {s}
  OBVIOUS
<1> HIDE DEF S, T
<1>4. IsFiniteSet(S) /\ Cardinality(S) \in Nat
  BY <1>1, SlotSets
<1>5. /\ Cardinality(S \cup {s}) = IF s \in S THEN Cardinality(S) ELSE Cardinality(S) + 1
      /\ Cardinality(S \ {s}) = IF s \in S THEN Cardinality(S) - 1 ELSE Cardinality(S)
  BY <1>4, FS_AddElement, FS_RemoveElement
<1>6. Cardinality(T) = Cardinality(S) + (IF d >= 0 THEN 1 ELSE 0)
                                      - (IF u[s] >= 0 THEN 1 ELSE 0)
  BY <1>2, <1>3, <1>4, <1>5
<1> QED
  BY <1>6 DEF S, T

Recounted(f, g, c0, v) ==
  \A x : /\ Having(f, x) \in Nat
         /\ Having(g, x) = Having(f, x) + (IF x = v THEN 1 ELSE 0)
                                        - (IF x = f[c0] THEN 1 ELSE 0)

LEMMA CellCount ==
  ASSUME NEW V, NEW f \in [Cells -> V], NEW c0 \in Cells, NEW v
  PROVE  Recounted(f, [f EXCEPT ![c0] = v], c0, v)
<1> DEFINE g == [f EXCEPT ![c0] = v]
<1> SUFFICES ASSUME NEW x
             PROVE  /\ Having(f, x) \in Nat
                    /\ Having(g, x) = Having(f, x) + (IF x = v THEN 1 ELSE 0)
                                                   - (IF x = f[c0] THEN 1 ELSE 0)
  BY Zenon DEF Recounted
<1> DEFINE S == {c \in Cells : f[c] = x}
           T == {c \in Cells : g[c] = x}
<1>1. S \subseteq Cells
  OBVIOUS
<1>2. c0 \in S <=> x = f[c0]
  OBVIOUS
<1>3. T = IF x = v THEN S \cup {c0} ELSE S \ {c0}
  OBVIOUS
<1> HIDE DEF S, T
<1>4. IsFiniteSet(S) /\ Cardinality(S) \in Nat
  BY <1>1, CellSets
<1>5. /\ Cardinality(S \cup {c0}) = IF c0 \in S THEN Cardinality(S) ELSE Cardinality(S) + 1
      /\ Cardinality(S \ {c0}) = IF c0 \in S THEN Cardinality(S) - 1 ELSE Cardinality(S)
  BY <1>4, FS_AddElement, FS_RemoveElement
<1>6. Cardinality(T) = Cardinality(S) + (IF x = v THEN 1 ELSE 0)
                                      - (IF x = f[c0] THEN 1 ELSE 0)
  BY <1>2, <1>3, <1>4, <1>5
<1> QED
  BY <1>4, <1>6 DEF S, T, Having

\* A slot has no reference exactly when no cell shows it.
LEMMA NoReference ==
  ASSUME NEW a, Good(a), Counted(a), NEW s \in Slots
  PROVE  a.refs[s] = 0 <=> \A c \in Cells : a.cur[c] # s
<1> DEFINE S == {c \in Cells : a.cur[c] = s}
<1>1. S \subseteq Cells /\ a.refs[s] = Cardinality(S)
  BY DEF Counted, Having
<1>2. S = {} <=> \A c \in Cells : a.cur[c] # s
  OBVIOUS
<1> HIDE DEF S
<1>3. Cardinality(S) = 0 <=> S = {}
  BY <1>1, CellSets, FS_EmptySet
<1> QED
  BY <1>1, <1>2, <1>3

\* A shown slot is not free.
LEMMA ShownNotFree ==
  ASSUME NEW a, Good(a), Counted(a), NEW c \in Cells, a.cur[c] # NoSlot
  PROVE  a.cur[c] \in Slots \ a.free /\ a.refs[a.cur[c]] # 0
<1>1. a.cur[c] \in Slots
  BY DEF Good, Allocators
<1>2. a.refs[a.cur[c]] # 0
  BY <1>1, NoReference
<1> QED
  BY <1>1, <1>2 DEF Counted

----------------------------------------------------------------------------
(* What the operations of the allocator do to the counts and the display *)

Fine(a) == Good(a) /\ Counted(a)

SameDisplay(a, b) ==
  /\ b.refs = a.refs /\ b.cur = a.cur /\ b.prev = a.prev
  /\ b.protect = a.protect /\ b.tfp = a.tfp
SameFlags(a, b)    == b.tearing = a.tearing /\ b.reclaimed = a.reclaimed
SamePatterns(a, b) == b.slot_key = a.slot_key /\ b.free = a.free

\* b is a once s has been emptied, and once it has been given k.
Emptied(a, b, s) ==
  /\ Fine(b) /\ SameDisplay(a, b) /\ Vacant(b, s) /\ b.until[s] = -1
  /\ b.free = a.free \ {s} /\ b.slot_key = [a.slot_key EXCEPT ![s] = NoKey]
  /\ \A k \in Keys : ~Resident(a, k) => ~Resident(b, k)
Given(a, b, k, s) ==
  /\ Fine(b) /\ s \in Slots
  /\ b.free = a.free \ {s} /\ b.slot_key = [a.slot_key EXCEPT ![s] = k]
Loaded(a, b, k, s) == Given(a, b, k, s) /\ SameDisplay(a, b)

\* The counts follow from six fields.
LEMMA CountedAs ==
  ASSUME NEW a, Counted(a), NEW b, b.refs = a.refs, b.cur = a.cur,
         b.pinned = a.pinned, b.until = a.until, b.mandatory = a.mandatory,
         b.free = a.free
  PROVE  Counted(b)
  BY DEF Counted

LEMMA FineRepinned ==
  ASSUME NEW a, Fine(a), NEW s \in Slots, NEW d \in Int, NEW ma \in SUBSET Slots,
         ma \ {s} \subseteq a.mandatory, s \in ma => d >= 0,
         s \notin a.free \/ d = -1,
         NEW pi, pi = a.pinned + (IF d >= 0 THEN 1 ELSE 0)
                               - (IF a.until[s] >= 0 THEN 1 ELSE 0)
  PROVE  LET b == Repinned(a, pi, [a.until EXCEPT ![s] = d], ma)
         IN  Fine(b) /\ SameDisplay(a, b) /\ SameFlags(a, b) /\ SamePatterns(a, b)
<1> DEFINE un == [a.until EXCEPT ![s] = d]
           b  == Repinned(a, pi, un, ma)
<1>1. a \in Allocators /\ Counted(a)
  BY DEF Fine, Good
<1>2. un \in [Slots -> Int] /\ a.until \in [Slots -> Int] /\ a.pinned \in Int
  BY <1>1 DEF Allocators
<1>3. pi \in Int
  BY <1>2
<1>4. Good(b)
  BY <1>2, <1>3, RepinGood DEF Fine
<1>5. /\ b.refs = a.refs /\ b.cur = a.cur /\ b.pinned = pi /\ b.until = un
      /\ b.mandatory = ma /\ b.free = a.free /\ b.slot_key = a.slot_key
      /\ b.prev = a.prev /\ b.protect = a.protect /\ b.tfp = a.tfp
      /\ SameFlags(a, b)
  BY <1>1 DEF Allocators, Repinned, SameFlags
<1>6. pi = Cardinality({x \in Slots : un[x] >= 0})
  <2>1. Cardinality({x \in Slots : un[x] >= 0})
          = Cardinality({x \in Slots : a.until[x] >= 0})
            + (IF d >= 0 THEN 1 ELSE 0) - (IF a.until[s] >= 0 THEN 1 ELSE 0)
    BY <1>2, PinCount
  <2>2. a.pinned = Cardinality({x \in Slots : a.until[x] >= 0})
    BY <1>1 DEF Counted
  <2> HIDE DEF un
  <2> QED
    BY <2>1, <2>2
<1>7. \A x \in ma : un[x] >= 0
  <2> SUFFICES ASSUME NEW x \in ma PROVE un[x] >= 0
    OBVIOUS
  <2>1. CASE x = s
    BY <1>2, <2>1
  <2>2. CASE x # s
    BY <1>1, <1>2, <2>2 DEF Counted
  <2> QED
    BY <2>1, <2>2
<1>8. \A x \in a.free : un[x] = -1
  <2> SUFFICES ASSUME NEW x \in a.free PROVE un[x] = -1
    OBVIOUS
  <2>1. x \in Slots
    BY <1>1 DEF Allocators
  <2> QED
    BY <1>1, <1>2, <2>1 DEF Counted
<1> HIDE DEF b, un
<1>9. Counted(b)
  BY <1>1, <1>5, <1>6, <1>7, <1>8 DEF Counted
<1> QED
  BY <1>4, <1>5, <1>9 DEF Fine, SameDisplay, SamePatterns, b, un

LEMMA FineEvict ==
  ASSUME NEW a, Fine(a), NEW s \in Slots \ a.free
  PROVE  Emptied(a, Evict(a, s), s) /\ SameFlags(a, Evict(a, s))
<1> DEFINE pi == IF a.until[s] >= 0 THEN a.pinned - 1 ELSE a.pinned
           un == [a.until EXCEPT ![s] = -1]
           ma == a.mandatory \ {s}
           r  == Repinned(a, pi, un, ma)
           b  == Evict(a, s)
<1>1. Good(a) /\ a \in Allocators
  BY DEF Fine, Good
<1>2. a.until \in [Slots -> Int] /\ a.pinned \in Int /\ ma \in SUBSET Slots
  BY <1>1 DEF Allocators
<1>3. pi = a.pinned + (IF -1 >= 0 THEN 1 ELSE 0) - (IF a.until[s] >= 0 THEN 1 ELSE 0)
  BY <1>2
<1> HIDE DEF pi
<1>4. Fine(r)
  <2>1. ma \ {s} \subseteq a.mandatory /\ s \notin ma /\ -1 \in Int
    OBVIOUS
  <2> HIDE DEF ma
  <2> QED
    BY <1>2, <1>3, <2>1, FineRepinned
<1>5. /\ Good(b) /\ Vacant(b, s) /\ b.free = a.free /\ b.tfp = a.tfp
      /\ \A k \in Keys : ~Resident(a, k) => ~Resident(b, k)
  BY <1>1, GoodEvict
<1>6. /\ b.refs = a.refs /\ b.cur = a.cur /\ b.prev = a.prev
      /\ b.protect = a.protect /\ SameFlags(a, b)
      /\ b.pinned = pi /\ b.until = un /\ b.mandatory = ma
      /\ b.slot_key = [a.slot_key EXCEPT ![s] = NoKey]
  BY <1>1 DEF Evict, Allocators, SameFlags, pi
<1>7. /\ r.refs = a.refs /\ r.cur = a.cur /\ r.free = a.free
      /\ r.pinned = pi /\ r.until = un /\ r.mandatory = ma
  BY <1>1 DEF Repinned, Allocators
<1> HIDE DEF r, b, un, ma
<1>8. Counted(b)
  BY <1>4, <1>5, <1>6, <1>7, CountedAs DEF Fine
<1>9. b.until[s] = -1 /\ a.free \ {s} = a.free
  BY <1>2, <1>6 DEF un
<1>10. Emptied(a, b, s)
  BY <1>5, <1>6, <1>8, <1>9 DEF Emptied, Fine, SameDisplay
<1> QED
  BY <1>6, <1>10 DEF b

LEMMA FineTake ==
  ASSUME NEW a, Fine(a), NEW s \in Slots \ a.free
  PROVE  Emptied(a, Take(a, s), s) /\ SameFlags(a, Take(a, s))
<1> DEFINE b == Evict(a, s)
           t == Take(a, s)
<1>1. Emptied(a, b, s) /\ SameFlags(a, b)
  BY FineEvict
<1>2. Good(t) /\ Vacant(t, s)
  BY GoodTake DEF Fine
<1>3. t = [b EXCEPT !.hand = (s + 1) % Pool]
  BY DEF Take
<1>4. b \in Allocators
  BY <1>1 DEF Emptied, Fine, Good
<1> HIDE DEF t, b
<1>5. /\ SameDisplay(b, t) /\ SameFlags(b, t) /\ SamePatterns(b, t)
      /\ t.pinned = b.pinned /\ t.until = b.until /\ t.mandatory = b.mandatory
      /\ t.key_slot = b.key_slot
  BY <1>3, <1>4 DEF Allocators, SameDisplay, SameFlags, SamePatterns
<1>6. Counted(t)
  BY <1>1, <1>5, CountedAs DEF Emptied, Fine, SameDisplay, SamePatterns
<1>7. Emptied(a, t, s) /\ SameFlags(a, t)
  BY <1>1, <1>2, <1>5, <1>6
  DEF Emptied, Fine, SameDisplay, SameFlags, SamePatterns, Resident
<1> QED
  BY <1>7 DEF t

LEMMA FinePop ==
  ASSUME NEW a, Fine(a), NEW s \in a.free
  PROVE  LET b == [a EXCEPT !.free = @ \ {s}]
         IN  Emptied(a, b, s) /\ SameFlags(a, b)
<1> DEFINE b == [a EXCEPT !.free = @ \ {s}]
<1>1. /\ Good(b) /\ Vacant(b, s)
      /\ \A k \in Keys : ~Resident(a, k) => ~Resident(b, k)
  BY GoodPop DEF Fine
<1>2. a \in Allocators /\ Dictionary(a) /\ Counted(a)
  BY DEF Fine, Good
<1>3. /\ SameDisplay(a, b) /\ SameFlags(a, b) /\ b.slot_key = a.slot_key
      /\ b.free = a.free \ {s} /\ b.pinned = a.pinned /\ b.until = a.until
      /\ b.mandatory = a.mandatory
  BY <1>2 DEF Allocators, SameDisplay, SameFlags
<1>4. s \in Slots /\ a.slot_key[s] = NoKey /\ a.slot_key \in [Slots -> Keys \cup {NoKey}]
  BY <1>2 DEF Allocators, Dictionary
<1>5. a.slot_key = [a.slot_key EXCEPT ![s] = NoKey]
  BY <1>4
<1>6. a.until[s] = -1
  BY <1>2 DEF Counted
<1> HIDE DEF b
<1>7. Counted(b)
  BY <1>2, <1>3 DEF Counted, SameDisplay
<1> QED
  BY <1>1, <1>3, <1>5, <1>6, <1>7 DEF Emptied, Fine, b

LEMMA FineBind ==
  ASSUME NEW a, NEW b, NEW s, Fine(a), Emptied(a, b, s),
         NEW k \in Keys, ~Resident(a, k)
  PROVE  Loaded(a, Bind(b, k, s), k, s) /\ SameFlags(b, Bind(b, k, s))
         /\ Vacant(b, s) /\ Bind(b, k, s).until[s] = -1
<1> DEFINE c == Bind(b, k, s)
<1>1. Good(b) /\ Counted(b) /\ Vacant(b, s) /\ ~Resident(b, k) /\ b \in Allocators
  BY DEF Emptied, Fine, Good
<1>2. Good(c)
  BY <1>1, GoodBind
<1>3. /\ SameDisplay(b, c) /\ SameFlags(b, c) /\ c.free = b.free
      /\ c.slot_key = [b.slot_key EXCEPT ![s] = k] /\ c.pinned = b.pinned
      /\ c.until = b.until /\ c.mandatory = b.mandatory
  BY <1>1 DEF Bind, Allocators, SameDisplay, SameFlags
<1>4. a.slot_key \in [Slots -> Keys \cup {NoKey}] /\ s \in Slots
  BY <1>1 DEF Fine, Good, Allocators, Vacant
<1>5. c.slot_key = [a.slot_key EXCEPT ![s] = k]
  BY <1>3, <1>4 DEF Emptied
<1> HIDE DEF c
<1>6. Counted(c)
  BY <1>1, <1>3, CountedAs DEF SameDisplay
<1>7. Loaded(a, c, k, s)
  BY <1>2, <1>3, <1>4, <1>5, <1>6 DEF Emptied, Loaded, Given, Fine, SameDisplay
<1>8. c.until[s] = -1
  BY <1>3 DEF Emptied
<1> QED
  BY <1>1, <1>3, <1>7, <1>8 DEF c

LEMMA FinePin ==
  ASSUME NEW a, NEW b, NEW s, Fine(a), Emptied(a, b, s),
         NEW k \in Keys, ~Resident(a, k), NEW d \in Nat, NEW m
  PROVE  Loaded(a, Pin(b, k, s, d, m), k, s) /\ SameFlags(b, Pin(b, k, s, d, m))
<1> DEFINE c  == Bind(b, k, s)
           un == [c.until EXCEPT ![s] = d]
           ma == IF m THEN c.mandatory \cup {s} ELSE c.mandatory \ {s}
           pi == c.pinned + 1
           e  == Pin(b, k, s, d, m)
<1>1. Loaded(a, c, k, s) /\ SameFlags(b, c) /\ c.until[s] = -1
  BY FineBind
<1>2. Fine(c) /\ c \in Allocators /\ s \in Slots /\ s \notin c.free
  BY <1>1 DEF Loaded, Given, Fine, Good
<1>3. e = [c EXCEPT !.until = un, !.mandatory = ma, !.pinned = pi]
  BY DEF Pin
<1>4. /\ ma \in SUBSET Slots /\ ma \ {s} \subseteq c.mandatory
      /\ c.pinned \in Int /\ d \in Int /\ d >= 0
  BY <1>2 DEF Allocators
<1> HIDE DEF c, ma
<1>5. pi = c.pinned + (IF d >= 0 THEN 1 ELSE 0) - (IF c.until[s] >= 0 THEN 1 ELSE 0)
  BY <1>1, <1>4
<1> HIDE DEF pi
<1>6. LET r == Repinned(c, pi, [c.until EXCEPT ![s] = d], ma)
      IN  Fine(r) /\ SameDisplay(c, r) /\ SameFlags(c, r) /\ SamePatterns(c, r)
  BY <1>2, <1>4, <1>5, FineRepinned
<1> HIDE DEF un, e
<1>7. e = Repinned(c, pi, un, ma)
  BY <1>2, <1>3 DEF Allocators, Repinned
<1>8. Fine(e) /\ SameDisplay(c, e) /\ SameFlags(c, e) /\ SamePatterns(c, e)
  BY <1>6, <1>7 DEF un
<1>9. Loaded(a, e, k, s) /\ SameFlags(b, e)
  BY <1>1, <1>8 DEF Loaded, Given, SameDisplay, SameFlags, SamePatterns
<1> QED
  BY <1>9 DEF e

LEMMA FineUpgrade ==
  ASSUME NEW a, Fine(a), NEW s \in Slots \ a.free, NEW d \in Nat
  PROVE  LET b == Upgrade(a, s, d)
         IN  Fine(b) /\ SameDisplay(a, b) /\ SameFlags(a, b) /\ SamePatterns(a, b)
<1> DEFINE e  == IF a.until[s] >= d THEN a.until[s] ELSE d
           pi == IF a.until[s] < 0 THEN a.pinned + 1 ELSE a.pinned
           un == [a.until EXCEPT ![s] = e]
           ma == a.mandatory \cup {s}
<1>1. a \in Allocators
  BY DEF Fine, Good
<1>2. a.until[s] \in Int /\ a.pinned \in Int /\ ma \in SUBSET Slots
  BY <1>1 DEF Allocators
<1>3. e \in Int /\ e >= 0
  BY <1>2
<1>4. pi = a.pinned + (IF e >= 0 THEN 1 ELSE 0) - (IF a.until[s] >= 0 THEN 1 ELSE 0)
  BY <1>2
<1>5. ma \ {s} \subseteq a.mandatory
  OBVIOUS
<1>6. Upgrade(a, s, d) = Repinned(a, pi, un, ma)
  BY DEF Upgrade, Repinned
<1> HIDE DEF e, pi, ma
<1> QED
  BY <1>2, <1>3, <1>4, <1>5, <1>6, FineRepinned

LEMMA FineUnpin ==
  ASSUME NEW a, Fine(a), NEW s \in Slots, NEW f
  PROVE  LET b == Unpin(a, s, f)
         IN  Fine(b) /\ SameDisplay(a, b) /\ SameFlags(a, b) /\ SamePatterns(a, b)
<1> DEFINE pi == IF a.until[s] >= 0 THEN a.pinned - 1 ELSE a.pinned
           un == [a.until EXCEPT ![s] = -1]
           ma == a.mandatory \ {s}
<1>1. a \in Allocators
  BY DEF Fine, Good
<1>2. a.until[s] \in Int /\ a.pinned \in Int /\ ma \in SUBSET Slots
  BY <1>1 DEF Allocators
<1>3. pi = a.pinned + (IF -1 >= 0 THEN 1 ELSE 0) - (IF a.until[s] >= 0 THEN 1 ELSE 0)
  BY <1>2
<1>4. ma \ {s} \subseteq a.mandatory /\ s \notin ma /\ -1 \in Int
  OBVIOUS
<1>5. Unpin(a, s, f) = a \/ Unpin(a, s, f) = Repinned(a, pi, un, ma)
  BY DEF Unpin, Repinned
<1> HIDE DEF pi, ma
<1>6. LET r == Repinned(a, pi, [a.until EXCEPT ![s] = -1], ma)
      IN  Fine(r) /\ SameDisplay(a, r) /\ SameFlags(a, r) /\ SamePatterns(a, r)
  BY <1>2, <1>3, <1>4, FineRepinned
<1>7. Fine(a) /\ SameDisplay(a, a) /\ SameFlags(a, a) /\ SamePatterns(a, a)
  BY DEF SameDisplay, SameFlags, SamePatterns
<1> QED
  BY <1>5, <1>6, <1>7

\* What showing a slot leaves alone.
Redrawn(a, b, c, s) ==
  /\ Fine(b) /\ SameFlags(a, b) /\ SamePatterns(a, b)
  /\ b.cur = [a.cur EXCEPT ![c] = s] /\ b.prev = a.prev
  /\ b.protect = a.protect /\ b.tfp = a.tfp

LEMMA FineShow ==
  ASSUME NEW a, Fine(a), NEW c \in Cells, NEW s \in Slots \ a.free
  PROVE  Redrawn(a, Show(a, c, s), c, s)
<1> DEFINE b == Show(a, c, s)
<1>1. a \in Allocators /\ Counted(a) /\ Good(b)
  BY GoodShow DEF Fine, Good
<1>2. /\ b.cur = [a.cur EXCEPT ![c] = s] /\ b.prev = a.prev
      /\ b.protect = a.protect /\ b.tfp = a.tfp
      /\ b.pinned = a.pinned /\ b.until = a.until /\ b.mandatory = a.mandatory
      /\ SameFlags(a, b) /\ SamePatterns(a, b)
      /\ b.refs = [x \in Slots |-> a.refs[x] + (IF x = s THEN 1 ELSE 0)
                                             - (IF x = a.cur[c] THEN 1 ELSE 0)]
  BY <1>1 DEF Show, Allocators, SameFlags, SamePatterns
<1> HIDE DEF b
<1>3. a.cur \in [Cells -> Slots \cup {NoSlot}] /\ a.refs \in [Slots -> Int]
      /\ a.free \subseteq Slots
  BY <1>1 DEF Allocators
<1>4. ASSUME NEW x \in Slots
      PROVE  b.refs[x] = Having(b.cur, x)
  <2>1. Recounted(a.cur, b.cur, c, s)
    <3>1. a.cur \in [Cells -> Slots \cup {NoSlot}]
      BY <1>3
    <3>2. Recounted(a.cur, [a.cur EXCEPT ![c] = s], c, s)
      BY <3>1, CellCount, Zenon
    <3> QED
      BY <1>2, <3>2, Zenon
  <2>2. a.refs[x] = Having(a.cur, x)
    BY <1>1 DEF Counted
  <2> QED
    BY <1>2, <2>1, <2>2 DEF Recounted
<1>5. ASSUME NEW x \in a.free PROVE b.refs[x] = 0
  <2>1. x \in Slots /\ a.refs[x] = 0 /\ x # s
    BY <1>1, <1>3 DEF Counted
  <2>2. x # a.cur[c]
    BY <1>1, <2>1, NoReference DEF Fine
  <2> QED
    BY <1>2, <2>1, <2>2
<1>6. Counted(b)
  BY <1>1, <1>2, <1>4, <1>5 DEF Counted, SamePatterns
<1> QED
  BY <1>1, <1>2, <1>6 DEF Redrawn, Fine, b

LEMMA FineBegin ==
  ASSUME NEW a, Fine(a), NEW keys \in SUBSET Keys
  PROVE  Fine(Begin(a, keys))
<1> DEFINE b == Begin(a, keys)
<1>1. Good(b) /\ a \in Allocators
  BY GoodBegin DEF Fine, Good
<1>2. /\ b.refs = a.refs /\ b.cur = a.cur /\ b.free = a.free
      /\ b.pinned = a.pinned /\ b.until = a.until /\ b.mandatory = a.mandatory
  BY <1>1 DEF Begin, Allocators
<1> HIDE DEF b
<1>3. Counted(b)
  BY <1>2, CountedAs DEF Fine
<1> QED
  BY <1>1, <1>3 DEF Fine, b

LEMMA FineEnd ==
  ASSUME NEW a, Fine(a)
  PROVE  Fine(End(a)) /\ SamePatterns(a, End(a)) /\ SameFlags(a, End(a))
         /\ End(a).cur = a.cur /\ End(a).prev = a.cur
         /\ End(a).protect = a.protect
<1> DEFINE b == End(a)
<1>1. Good(b) /\ a \in Allocators
  BY GoodEnd DEF Fine, Good
<1>2. /\ b.refs = a.refs /\ b.cur = a.cur /\ b.pinned = a.pinned
      /\ b.until = a.until /\ b.mandatory = a.mandatory /\ b.prev = a.cur
      /\ b.protect = a.protect /\ SamePatterns(a, b) /\ SameFlags(a, b)
  BY <1>1 DEF End, Allocators, SamePatterns, SameFlags
<1> HIDE DEF b
<1>3. Counted(b)
  BY <1>2, CountedAs DEF Fine, SamePatterns
<1> QED
  BY <1>1, <1>2, <1>3 DEF Fine, b

LEMMA FineRebase ==
  ASSUME NEW a, Fine(a), NEW from,
         \A c \in Cells \cap DOMAIN from : from[c] \in Cells
  PROVE  LET b == Rebase(a, from)
         IN  /\ Fine(b) /\ SamePatterns(a, b) /\ SameFlags(a, b)
             /\ b.cur = [c \in Cells |-> IF c \in DOMAIN from THEN a.cur[from[c]]
                                         ELSE NoSlot]
             /\ b.prev = a.prev
<1> DEFINE b == Rebase(a, from)
           cur == [c \in Cells |-> IF c \in DOMAIN from THEN a.cur[from[c]]
                                   ELSE NoSlot]
<1>1. Good(b) /\ a \in Allocators /\ Counted(a)
  BY GoodRebase DEF Fine, Good
<1>2. /\ b.pinned = a.pinned /\ b.until = a.until /\ b.mandatory = a.mandatory
      /\ SamePatterns(a, b) /\ SameFlags(a, b) /\ b.cur = cur /\ b.prev = a.prev
      /\ b.refs = [s \in Slots |-> Cardinality({c \in Cells : cur[c] = s})]
  BY <1>1 DEF Rebase, Allocators, SamePatterns, SameFlags
<1>3. ASSUME NEW s \in a.free PROVE b.refs[s] = 0
  <2>1. s \in Slots /\ a.refs[s] = 0
    BY <1>1 DEF Counted, Allocators
  <2>2. \A c \in Cells : a.cur[c] # s
    BY <2>1, NoReference DEF Fine
  <2>3. \A c \in Cells : cur[c] # s
    BY <2>1, <2>2, PoolFacts
  <2>4. {c \in Cells : cur[c] = s} = {}
    BY <2>3
  <2> QED
    BY <1>2, <2>1, <2>4, FS_EmptySet
<1> HIDE DEF b, cur
<1>4. Counted(b)
  BY <1>1, <1>2, <1>3 DEF Counted, SamePatterns, Having
<1> QED
  BY <1>1, <1>2, <1>4 DEF Fine, b, cur

----------------------------------------------------------------------------
(* Where the patterns are *)

LEMMA SlotOf ==
  ASSUME NEW a, Good(a), NEW x \in Keys
  PROVE  /\ a.key_slot[x] \in Slots \cup {NoSlot}
         /\ Resident(a, x) => /\ a.key_slot[x] \in Slots \ a.free
                              /\ a.slot_key[a.key_slot[x]] = x
         /\ \A s \in Slots : a.slot_key[s] = x => /\ Resident(a, x)
                                                  /\ a.key_slot[x] = s
<1>1. a \in Allocators /\ Dictionary(a)
  BY DEF Good
<1>2. a.key_slot[x] \in Slots \cup {NoSlot}
  BY <1>1 DEF Allocators
<1>3. Resident(a, x) => a.key_slot[x] \in Slots /\ a.slot_key[a.key_slot[x]] = x
  BY <1>1, <1>2 DEF Resident, Dictionary
<1>4. Resident(a, x) => a.key_slot[x] \notin a.free
  BY <1>1, <1>3, PoolFacts DEF Dictionary
<1>5. ASSUME NEW s \in Slots, a.slot_key[s] = x
      PROVE  Resident(a, x) /\ a.key_slot[x] = s
  BY <1>1, <1>5, PoolFacts DEF Resident, Dictionary
<1> QED
  BY <1>2, <1>3, <1>4, <1>5

LEMMA SameKeys ==
  ASSUME NEW a, Good(a), NEW b, Good(b), SamePatterns(a, b), NEW x \in Keys
  PROVE  /\ b.key_slot[x] = a.key_slot[x]
         /\ Resident(b, x) <=> Resident(a, x)
<1>1. b.slot_key = a.slot_key
  BY DEF SamePatterns
<1>2. CASE Resident(a, x)
  <2>1. a.key_slot[x] \in Slots /\ b.slot_key[a.key_slot[x]] = x
    BY <1>1, <1>2, SlotOf
  <2>2. Resident(b, x) /\ b.key_slot[x] = a.key_slot[x]
    BY <2>1, SlotOf
  <2> QED
    BY <1>2, <2>2
<1>3. CASE Resident(b, x)
  <2>1. b.key_slot[x] \in Slots /\ a.slot_key[b.key_slot[x]] = x
    BY <1>1, <1>3, SlotOf
  <2>2. Resident(a, x) /\ a.key_slot[x] = b.key_slot[x]
    BY <2>1, SlotOf
  <2> QED
    BY <1>3, <2>2
<1>4. CASE ~Resident(a, x) /\ ~Resident(b, x)
  BY <1>4 DEF Resident
<1> QED
  BY <1>2, <1>3, <1>4

LEMMA GivenKeys ==
  ASSUME NEW a, Good(a), NEW b, NEW k \in Keys, NEW s, ~Resident(a, k),
         Given(a, b, k, s)
  PROVE  /\ Resident(b, k) /\ b.key_slot[k] = s /\ s \notin b.free
         /\ \A x \in Keys \ {k} :
              /\ Resident(a, x) /\ a.key_slot[x] # s => Resident(b, x)
              /\ Resident(b, x) => /\ Resident(a, x) /\ b.key_slot[x] # s
                                   /\ b.key_slot[x] = a.key_slot[x]
<1>1. /\ Good(b) /\ s \in Slots /\ b.free = a.free \ {s}
      /\ b.slot_key = [a.slot_key EXCEPT ![s] = k]
      /\ a.slot_key \in [Slots -> Keys \cup {NoKey}]
  BY DEF Given, Fine, Good, Allocators
<1>2. b.slot_key[s] = k /\ \A r \in Slots \ {s} : b.slot_key[r] = a.slot_key[r]
  BY <1>1
<1>3. Resident(b, k) /\ b.key_slot[k] = s
  BY <1>1, <1>2, SlotOf
<1>4. ASSUME NEW x \in Keys \ {k}, Resident(a, x), a.key_slot[x] # s
      PROVE  Resident(b, x)
  <2>1. a.key_slot[x] \in Slots \ {s} /\ a.slot_key[a.key_slot[x]] = x
    BY <1>4, SlotOf
  <2> QED
    BY <1>1, <1>2, <2>1, SlotOf
<1>5. ASSUME NEW x \in Keys \ {k}, Resident(b, x)
      PROVE  Resident(a, x) /\ b.key_slot[x] # s /\ b.key_slot[x] = a.key_slot[x]
  <2>1. b.key_slot[x] \in Slots /\ b.slot_key[b.key_slot[x]] = x
    BY <1>1, <1>5, SlotOf
  <2>2. b.key_slot[x] # s
    BY <1>2, <2>1
  <2>3. a.slot_key[b.key_slot[x]] = x
    BY <1>2, <2>1, <2>2
  <2> QED
    BY <2>1, <2>2, <2>3, SlotOf
<1> QED
  BY <1>1, <1>3, <1>4, <1>5

LEMMA GivenFull ==
  ASSUME NEW a, Good(a), Full(a), NEW b, NEW k \in Keys, NEW s, Given(a, b, k, s)
  PROVE  Full(b)
<1>1. /\ s \in Slots /\ b.free = a.free \ {s} /\ a.free \subseteq Slots
      /\ b.slot_key = [a.slot_key EXCEPT ![s] = k]
      /\ a.slot_key \in [Slots -> Keys \cup {NoKey}]
  BY DEF Given, Good, Allocators
<1> QED
  BY <1>1, PoolFacts DEF Full

----------------------------------------------------------------------------
(* Which slot is taken *)

Idle(a, s) == s \in Slots /\ a.refs[s] = 0 /\ s \notin a.tfp

\* What an update gives up: nothing, what only the frame before may show,
\* or what may be on the screen once there is no other slot.
Chosen(a, b, s) ==
  \/ s \in a.free /\ SameFlags(a, b)
  \/ Idle(a, s) /\ s \notin a.protect /\ SameFlags(a, b)
  \/ Idle(a, s) /\ b.tearing = a.tearing /\ b.reclaimed
  \/ /\ b.tearing /\ b.reclaimed = a.reclaimed
     /\ \A x \in Slots : Idle(a, x) => x \in a.protect

LEMMA AllocEmpties ==
  ASSUME NEW a, Fine(a), NEW f \in Nat, CanAlloc(a, f),
         NEW s \in AllocSlots(a, f)
  PROVE  Emptied(a, AllocState(a, f, s), s) /\ Chosen(a, AllocState(a, f, s), s)
<1> DEFINE t == Tier(a, f)
<1>1. Good(a) /\ a \in Allocators /\ a.free \subseteq Slots
  BY DEF Fine, Good, Allocators
<1>2. CASE a.free # {}
  <2>1. s \in a.free
    BY <1>1, <1>2, AllocIn
  <2>2. AllocState(a, f, s) = [a EXCEPT !.free = @ \ {s}]
    BY <1>2 DEF AllocState
  <2>3. Emptied(a, AllocState(a, f, s), s) /\ SameFlags(a, AllocState(a, f, s))
    BY <2>1, <2>2, FinePop
  <2> QED
    BY <2>1, <2>3 DEF Chosen
<1>3. CASE a.free = {}
  <2>1. t \in 1 .. 5 /\ s \in Tiers(a, f)[t] /\ s \in Slots \ a.free
    BY <1>1, <1>3, AllocIn
  <2> DEFINE I == {i \in 1 .. 5 : Tiers(a, f)[i] # {}}
  <2>2. \A j \in 1 .. t - 1 : Tiers(a, f)[j] = {}
    <3>1. I \subseteq Nat /\ I # {}
      BY <1>3 DEF CanAlloc
    <3>2. PICK i \in I : \A j \in I : i <= j
      BY <3>1, Minimum
    <3>3. \A j \in 1 .. i - 1 : Tiers(a, f)[j] = {}
      BY <3>2
    <3> QED
      BY <3>2, <3>3 DEF Tier
  <2> DEFINE b  == IF t = 5 THEN Evict(a, s) ELSE Take(a, s)
             te == b.tearing \/ t >= 4
             rc == b.reclaimed \/ t = 3
             e  == AllocState(a, f, s)
  <2>3. Emptied(a, b, s) /\ SameFlags(a, b)
    BY <2>1, FineEvict, FineTake
  <2>4. e = [b EXCEPT !.tearing = te, !.reclaimed = rc]
    BY <1>3 DEF AllocState
  <2>5. te = (a.tearing \/ t >= 4) /\ rc = (a.reclaimed \/ t = 3)
    BY <2>3 DEF SameFlags
  <2>6. b \in Allocators /\ te \in BOOLEAN /\ rc \in BOOLEAN
    BY <2>3 DEF Emptied, Fine, Good, Allocators
  <2> HIDE DEF b, te, rc, e, t, I
  <2>7. /\ e \in Allocators /\ e.tearing = te /\ e.reclaimed = rc
        /\ SameDisplay(b, e) /\ SamePatterns(b, e) /\ e.key_slot = b.key_slot
        /\ e.until = b.until /\ e.mandatory = b.mandatory /\ e.pinned = b.pinned
    BY <2>4, <2>6 DEF Allocators, SameDisplay, SamePatterns
  <2>8. Emptied(a, e, s)
    <3>1. Good(e)
      BY <2>3, <2>7, GoodKept DEF Emptied, Fine, SamePatterns
    <3>2. Counted(e)
      BY <2>3, <2>7, CountedAs DEF Emptied, Fine, SameDisplay, SamePatterns
    <3> QED
      BY <2>3, <2>7, <3>1, <3>2
      DEF Emptied, Fine, SameDisplay, SamePatterns, Vacant, Resident
  <2>9. Chosen(a, e, s)
    <3>1. t = 1 \/ t = 2 \/ t = 3 \/ t >= 4
      BY <2>1
    <3>2. a.tearing \in BOOLEAN /\ a.reclaimed \in BOOLEAN
      BY <1>1 DEF Allocators
    <3>3. CASE t = 1 \/ t = 2
      <4>1. Idle(a, s) /\ s \notin a.protect
        BY <2>1, <3>3 DEF Tiers, Idle
      <4>2. ~(t >= 4) /\ t # 3
        BY <3>3
      <4> QED
        BY <2>5, <2>7, <3>2, <4>1, <4>2 DEF Chosen, SameFlags
    <3>4. CASE t = 3
      <4>1. Idle(a, s)
        BY <2>1, <3>4 DEF Tiers, Idle
      <4>2. ~(t >= 4)
        BY <3>4
      <4> QED
        BY <2>5, <2>7, <3>2, <3>4, <4>1, <4>2 DEF Chosen
    <3>5. CASE t >= 4
      <4>1. 2 \in 1 .. t - 1 /\ 3 \in 1 .. t - 1 /\ t # 3
        BY <2>1, <3>5
      <4>2. Tiers(a, f)[2] = {} /\ Tiers(a, f)[3] = {}
        BY <2>2, <4>1
      <4>3. ASSUME NEW x \in Slots, Idle(a, x), x \notin a.protect PROVE FALSE
        <5>1. x \in Held(a, f)
          BY <4>2, <4>3 DEF Tiers, Idle
        <5>2. a.pinned = 0
          BY <4>2, <4>3, <5>1 DEF Tiers, Idle
        <5> DEFINE P == {y \in Slots : a.until[y] >= 0}
        <5>3. x \in P
          BY <5>1 DEF Held, Fine, Counted
        <5>4. P \subseteq Slots /\ Cardinality(P) = 0
          BY <5>2 DEF Fine, Counted
        <5> HIDE DEF P
        <5>5. P = {}
          BY <5>4, SlotSets, FS_EmptySet
        <5> QED
          BY <5>3, <5>5
      <4> QED
        BY <2>5, <2>7, <3>2, <3>5, <4>1, <4>3 DEF Chosen
    <3> QED
      BY <3>1, <3>3, <3>4, <3>5
  <2> QED
    BY <2>8, <2>9 DEF e
<1> QED
  BY <1>2, <1>3

----------------------------------------------------------------------------
(* Placing *)

\* What placing k in cell c, in slot s, makes of the allocator.
PutIn(a, e, c, k, s) ==
  /\ Fine(e) /\ s \in Slots \ e.free /\ e.cur = [a.cur EXCEPT ![c] = s]
  /\ e.prev = a.prev /\ e.protect = a.protect /\ e.tfp = a.tfp
  /\ IF Resident(a, k)
     THEN s = a.key_slot[k] /\ SameFlags(a, e) /\ SamePatterns(a, e)
     ELSE Given(a, e, k, s) /\ Chosen(a, e, s)

LEMMA PlacePuts ==
  ASSUME NEW a, Fine(a), NEW c \in Cells, NEW k \in Keys, NEW f \in Nat,
         CanAlloc(a, f), NEW s \in PlaceSlots(a, k, f)
  PROVE  PutIn(a, Place(a, c, k, f, s), c, k, s)
<1> DEFINE b == IF Resident(a, k) THEN Unpin(a, s, f)
                ELSE Bind(AllocState(a, f, s), k, s)
           e == Show(b, c, s)
<1>1. Place(a, c, k, f, s) = e /\ Good(a)
  BY DEF Place, Fine
<1>2. /\ Fine(b) /\ SameDisplay(a, b) /\ s \in Slots \ b.free
      /\ IF Resident(a, k)
         THEN s = a.key_slot[k] /\ SameFlags(a, b) /\ SamePatterns(a, b)
         ELSE Given(a, b, k, s) /\ Chosen(a, b, s)
  <2>1. CASE Resident(a, k)
    <3>1. s = a.key_slot[k] /\ s \in Slots \ a.free
      BY <1>1, <2>1, SlotOf DEF PlaceSlots
    <3>2. b = Unpin(a, s, f)
      BY <2>1
    <3> HIDE DEF b
    <3>3. Fine(b) /\ SameDisplay(a, b) /\ SameFlags(a, b) /\ SamePatterns(a, b)
      BY <3>1, <3>2, FineUnpin
    <3> QED
      BY <2>1, <3>1, <3>3 DEF SamePatterns
  <2>2. CASE ~Resident(a, k)
    <3> DEFINE p == AllocState(a, f, s)
    <3>1. s \in AllocSlots(a, f) /\ b = Bind(p, k, s)
      BY <2>2 DEF PlaceSlots
    <3> HIDE DEF b, p
    <3>2. Emptied(a, p, s) /\ Chosen(a, p, s)
      BY <3>1, AllocEmpties DEF p
    <3>3. Loaded(a, b, k, s) /\ SameFlags(p, b)
      BY <2>2, <3>1, <3>2, FineBind
    <3>4. Chosen(a, b, s)
      BY <3>2, <3>3 DEF Chosen, SameFlags
    <3> QED
      BY <2>2, <3>3, <3>4 DEF Loaded, Given
  <2> QED
    BY <2>1, <2>2
<1> HIDE DEF b
<1>3. Redrawn(b, e, c, s)
  BY <1>2, FineShow
<1> HIDE DEF e
<1>4. PutIn(a, e, c, k, s)
  BY <1>2, <1>3
  DEF PutIn, Redrawn, Given, Chosen, SameDisplay, SameFlags, SamePatterns
<1> QED
  BY <1>1, <1>4

LEMMA ShownBy ==
  ASSUME NEW a, Fine(a), NEW s
  PROVE  s \in Shown(a) <=> s \in Slots /\ \E c \in Cells : a.cur[c] = s
  BY NoReference DEF Fine, Shown

\* The next one placed, its cell no longer waits.
LEMMA TodoFinite ==
  ASSUME NEW w, NEW a
  PROVE  /\ IsFiniteSet(Wanting(w)) /\ IsFiniteSet(Todo(a, w))
         /\ Cardinality(Todo(a, w)) \in Nat
<1> DEFINE T == {w[c] : c \in Cells}
           f == [c \in Cells |-> w[c]]
<1>1. f \in Surjection(Cells, T)
  BY DEF Surjection
<1> HIDE DEF f, T
<1>2. IsFiniteSet(T)
  BY <1>1, TileAllocAssumption, FS_Surjection
<1>3. Wanting(w) \in SUBSET T /\ Todo(a, w) \in SUBSET T
  BY DEF Wanting, Todo, T
<1>4. IsFiniteSet(Wanting(w)) /\ IsFiniteSet(Todo(a, w))
  BY <1>2, <1>3, FS_Subset
<1> QED
  BY <1>4, FS_CardinalityType

LEMMA BusySlots ==
  ASSUME NEW a, Good(a)
  PROVE  /\ Busy(a) \subseteq Slots /\ IsFiniteSet(Busy(a))
         /\ Cardinality(Busy(a)) \in Nat
<1>1. Busy(a) \subseteq Slots
  BY DEF Good, Allocators, Busy, Shown
<1> QED
  BY <1>1, SlotSets

\* A slot nobody needs is left for every pattern still to be loaded.
LEMMA RoomIdle ==
  ASSUME NEW a, Good(a), NEW w, NEW d, Room(a, w, d), NEW k \in Todo(a, w)
  PROVE  \E x \in Slots : Idle(a, x) /\ x \notin a.protect
<1>1. Cardinality(Todo(a, w)) \in Nat /\ Cardinality(Todo(a, w)) # 0
  BY TodoFinite, FS_EmptySet
<1>2. Cardinality(Busy(a)) \in Nat /\ Cardinality(Busy(a)) < Pool
  BY <1>1, BusySlots, PoolFacts DEF Room
<1>3. Busy(a) # Slots /\ Busy(a) \subseteq Slots
  BY <1>2, BusySlots, SlotsFinite
<1>4. PICK x \in Slots : x \notin Busy(a)
  BY <1>3
<1> QED
  BY <1>4 DEF Busy, Idle, Shown

LEMMA RoomResident ==
  ASSUME NEW a, Fine(a), NEW e, NEW w \in [Cells -> Keys \cup {NoKey}], NEW d,
         Room(a, w, d), NEW c \in Cells, w[c] # NoKey, NEW s,
         Resident(a, w[c]), PutIn(a, e, c, w[c], s),
         NEW v, v = [w EXCEPT ![c] = NoKey]
  PROVE  Room(e, v, d)
<1> DEFINE k == w[c]
<1>1. /\ k \in Keys /\ Good(a) /\ Good(e) /\ s = a.key_slot[k] /\ s \in Slots
      /\ SameFlags(a, e) /\ SamePatterns(a, e) /\ e.cur = [a.cur EXCEPT ![c] = s]
      /\ e.protect = a.protect /\ e.tfp = a.tfp /\ Fine(e)
      /\ a.cur \in [Cells -> Slots \cup {NoSlot}]
  BY DEF PutIn, Fine, Good, Allocators
<1>2. \A x \in Keys : e.key_slot[x] = a.key_slot[x]
                      /\ (Resident(e, x) <=> Resident(a, x))
  BY <1>1, SameKeys
<1>3. Todo(e, v) = Todo(a, w)
  <2>1. Wanting(w) \subseteq Keys
    BY DEF Wanting
  <2>2. Wanting(v) = {w[b] : b \in Cells \ {c}} \ {NoKey}
    BY DEF Wanting
  <2>3. Wanting(v) \subseteq Wanting(w) /\ Wanting(w) \subseteq Wanting(v) \cup {k}
    BY <2>2 DEF Wanting
  <2> QED
    BY <1>2, <2>1, <2>3 DEF Todo
<1>4. s \in a.tfp \/ s \in Shown(a)
  BY <1>1, ShownBy DEF Room
<1>5. Shown(e) \subseteq Shown(a) \cup {s}
  BY <1>1, ShownBy
<1>6. Busy(e) \subseteq Busy(a)
  BY <1>1, <1>4, <1>5 DEF Busy
<1>7. Cardinality(Busy(e)) <= Cardinality(Busy(a))
  BY <1>1, <1>6, BusySlots, FS_Subset
<1>8. ASSUME NEW b \in Cells, v[b] # NoKey, Resident(e, v[b])
      PROVE  \/ e.key_slot[v[b]] \in e.tfp
             \/ \E z \in Cells : v[z] = NoKey /\ e.cur[z] = e.key_slot[v[b]]
  <2>1. b # c /\ v[b] = w[b] /\ w[b] \in Keys
    BY <1>8
  <2>2. Resident(a, w[b]) /\ e.key_slot[w[b]] = a.key_slot[w[b]]
    BY <1>2, <1>8, <2>1
  <2>3. CASE a.key_slot[w[b]] \in a.tfp
    BY <1>1, <2>1, <2>2, <2>3
  <2>4. ASSUME NEW z \in Cells, w[z] = NoKey, a.cur[z] = a.key_slot[w[b]]
        PROVE  v[z] = NoKey /\ e.cur[z] = e.key_slot[v[b]]
    BY <1>1, <2>1, <2>2, <2>4
  <2> QED
    BY <1>8, <2>1, <2>2, <2>3, <2>4 DEF Room
<1>9. /\ Cardinality(Busy(a)) \in Nat /\ Cardinality(Busy(e)) \in Nat
      /\ Cardinality(Todo(a, w)) \in Nat
  BY <1>1, BusySlots, TodoFinite
<1>10. Cardinality(Busy(e)) + Cardinality(Todo(e, v)) <= Pool
  BY <1>3, <1>7, <1>9, PoolFacts DEF Room
<1> QED
  BY <1>1, <1>3, <1>8, <1>10 DEF Room, SameFlags

LEMMA RoomLoaded ==
  ASSUME NEW a, Fine(a), NEW e, NEW w \in [Cells -> Keys \cup {NoKey}],
         NEW d \in Int, Room(a, w, d), NEW c \in Cells, w[c] # NoKey, NEW s,
         ~Resident(a, w[c]), PutIn(a, e, c, w[c], s),
         NEW v, v = [w EXCEPT ![c] = NoKey]
  PROVE  /\ Room(e, v, d - 1)
         /\ s \in a.free \/ (Idle(a, s) /\ (s \notin a.protect \/ e.reclaimed))
<1> DEFINE k == w[c]
<1>1. /\ k \in Keys /\ Good(a) /\ Good(e) /\ s \in Slots
      /\ Given(a, e, k, s) /\ Chosen(a, e, s) /\ e.cur = [a.cur EXCEPT ![c] = s]
      /\ e.protect = a.protect /\ e.tfp = a.tfp /\ Fine(e)
      /\ a.cur \in [Cells -> Slots \cup {NoSlot}] /\ Counted(a)
  BY DEF PutIn, Fine, Good, Allocators
<1>2. k \in Todo(a, w) /\ ~a.tearing
  BY DEF Todo, Wanting, Room
<1>3. /\ s \in a.free \/ (Idle(a, s) /\ (s \notin a.protect \/ e.reclaimed))
      /\ ~e.tearing
  <2>1. ~\A x \in Slots : Idle(a, x) => x \in a.protect
    BY <1>1, <1>2, RoomIdle
  <2> QED
    BY <1>1, <1>2, <2>1 DEF Chosen, SameFlags
<1>4. /\ Resident(e, k) /\ e.key_slot[k] = s
      /\ \A x \in Keys \ {k} :
           /\ Resident(a, x) /\ a.key_slot[x] # s => Resident(e, x)
           /\ Resident(e, x) => /\ Resident(a, x) /\ e.key_slot[x] # s
                                /\ e.key_slot[x] = a.key_slot[x]
  BY <1>1, GivenKeys
<1>5. ASSUME NEW b \in Cells, w[b] # NoKey, Resident(a, w[b])
      PROVE  a.key_slot[w[b]] # s
  <2>1. w[b] \in Keys
    BY <1>5
  <2>2. a.key_slot[w[b]] \notin a.free
    BY <1>1, <1>5, <2>1, SlotOf
  <2>3. a.key_slot[w[b]] \in a.tfp \/ \E z \in Cells : a.cur[z] = a.key_slot[w[b]]
    BY <1>5 DEF Room
  <2>4. Idle(a, s) => s \notin a.tfp /\ \A z \in Cells : a.cur[z] # s
    BY <1>1, NoReference DEF Idle
  <2> QED
    BY <1>3, <2>2, <2>3, <2>4
<1>6. Todo(e, v) = Todo(a, w) \ {k}
  <2>1. Wanting(w) \subseteq Keys /\ \A x \in Wanting(w) : \E b \in Cells : x = w[b]
    BY DEF Wanting
  <2>2. Wanting(v) = {w[b] : b \in Cells \ {c}} \ {NoKey}
    BY DEF Wanting
  <2>3. Wanting(v) \subseteq Wanting(w) /\ Wanting(w) \subseteq Wanting(v) \cup {k}
    BY <2>2 DEF Wanting
  <2>4. ASSUME NEW x \in Wanting(w), x # k
        PROVE  Resident(e, x) <=> Resident(a, x)
    <3>1. PICK b \in Cells : x = w[b]
      BY <2>1
    <3>2. x \in Keys /\ x # NoKey
      BY <2>1 DEF Wanting
    <3> QED
      BY <1>4, <1>5, <2>4, <3>1, <3>2
  <2> QED
    BY <1>4, <2>3, <2>4 DEF Todo
<1>7. Cardinality(Todo(e, v)) = Cardinality(Todo(a, w)) - 1
  BY <1>2, <1>6, TodoFinite, FS_RemoveElement
<1>8. Busy(e) \subseteq Busy(a) \cup {s}
  <2>1. Shown(e) \subseteq Shown(a) \cup {s}
    BY <1>1, ShownBy
  <2> QED
    BY <1>1, <2>1 DEF Busy
<1>9. Cardinality(Busy(e)) <= Cardinality(Busy(a)) + 1
  <2>1. IsFiniteSet(Busy(a) \cup {s})
        /\ Cardinality(Busy(a) \cup {s}) <= Cardinality(Busy(a)) + 1
    BY <1>1, BusySlots, FS_AddElement
  <2>2. /\ Cardinality(Busy(e)) <= Cardinality(Busy(a) \cup {s})
        /\ Cardinality(Busy(a) \cup {s}) \in Nat
    BY <1>8, <2>1, FS_Subset, FS_CardinalityType
  <2> QED
    BY <1>1, <2>1, <2>2, BusySlots
<1>10. /\ Cardinality(Busy(a)) \in Nat /\ Cardinality(Busy(e)) \in Nat
       /\ Cardinality(Todo(a, w)) \in Nat
  BY <1>1, BusySlots, TodoFinite
<1>11. Cardinality(Busy(e)) + Cardinality(Todo(e, v)) <= Pool
  BY <1>7, <1>9, <1>10, PoolFacts DEF Room
<1>12. d - 1 = Cardinality(Todo(e, v))
  BY <1>7, <1>10 DEF Room
<1>13. ASSUME NEW b \in Cells, v[b] # NoKey, Resident(e, v[b])
       PROVE  \/ e.key_slot[v[b]] \in e.tfp
              \/ \E z \in Cells : v[z] = NoKey /\ e.cur[z] = e.key_slot[v[b]]
  <2>1. b # c /\ v[b] = w[b] /\ w[b] \in Keys /\ v[c] = NoKey
    BY <1>13
  <2>2. CASE w[b] = k
    <3>1. e.cur[c] = s
      BY <1>1
    <3> QED
      BY <1>4, <2>1, <2>2, <3>1
  <2>3. CASE w[b] # k
    <3>1. Resident(a, w[b]) /\ e.key_slot[w[b]] = a.key_slot[w[b]]
      BY <1>4, <1>13, <2>1, <2>3
    <3>2. CASE a.key_slot[w[b]] \in a.tfp
      BY <1>1, <2>1, <3>1, <3>2
    <3>3. ASSUME NEW z \in Cells, w[z] = NoKey, a.cur[z] = a.key_slot[w[b]]
          PROVE  v[z] = NoKey /\ e.cur[z] = e.key_slot[v[b]]
      BY <1>1, <2>1, <3>1, <3>3
    <3> QED
      BY <1>13, <2>1, <3>1, <3>2, <3>3 DEF Room
  <2> QED
    BY <2>2, <2>3
<1>14. Room(e, v, d - 1)
  BY <1>3, <1>11, <1>12, <1>13 DEF Room
<1> QED
  BY <1>3, <1>14

----------------------------------------------------------------------------
(* Deciding *)

Extra(x) == {k \in Keys : x[k] > 0}

\* The guard counts the patterns wanted that have no slot on the screen.
LEMMA ExtraWanted ==
  ASSUME NEW a, NEW w, NEW x, Budget(a, w, x)
  PROVE  /\ Extra(x) = {k \in Wanting(w) \cap Keys : Needs(a, k)}
         /\ IsFiniteSet(Extra(x)) /\ Cardinality(Extra(x)) \in Nat
         /\ Used(x) = Cardinality(Extra(x))
         /\ \A k \in Keys : x[k] \in Nat
<1>1. ASSUME NEW k \in Keys
      PROVE  Having(w, k) \in Nat /\ (Having(w, k) = 0 <=> k \notin Wanting(w))
  <2> DEFINE S == {c \in Cells : w[c] = k}
  <2>1. S \subseteq Cells /\ (S = {} <=> \A c \in Cells : w[c] # k)
    OBVIOUS
  <2>2. k \in Wanting(w) <=> \E c \in Cells : w[c] = k
    BY PoolFacts DEF Wanting
  <2>3. Having(w, k) = Cardinality(S)
    BY DEF Having
  <2> HIDE DEF S
  <2>4. Cardinality(S) \in Nat /\ (Cardinality(S) = 0 <=> S = {})
    BY <2>1, CellSets, FS_EmptySet
  <2> QED
    BY <2>1, <2>2, <2>3, <2>4
<1>2. ASSUME NEW k \in Keys
      PROVE  x[k] \in Nat /\ (x[k] > 0 <=> k \in Wanting(w) /\ Needs(a, k))
  <2>1. x[k] = IF Needs(a, k) THEN Having(w, k) ELSE 0
    BY DEF Budget
  <2>2. CASE Needs(a, k)
    <3>1. x[k] = Having(w, k)
      BY <2>1, <2>2
    <3> QED
      BY <1>1, <2>2, <3>1
  <2>3. CASE ~Needs(a, k)
    <3>1. x[k] = 0
      BY <2>1, <2>3
    <3> QED
      BY <2>3, <3>1
  <2> QED
    BY <2>2, <2>3
<1>3. Extra(x) = {k \in Wanting(w) \cap Keys : Needs(a, k)}
  BY <1>2 DEF Extra
<1>4. IsFiniteSet(Extra(x))
  <2>1. Extra(x) \in SUBSET Wanting(w)
    BY <1>3
  <2> QED
    BY <2>1, TodoFinite, FS_Subset
<1> QED
  BY <1>2, <1>3, <1>4, FS_CardinalityType DEF Used, Extra

LEMMA BudgetKept ==
  ASSUME NEW a, NEW w \in [Cells -> Keys \cup {NoKey}], NEW x, Budget(a, w, x),
         Good(a), NEW c \in Cells, NEW k \in Keys, k # w[c], Fits(a, w, x, c, k),
         NEW v, v = [w EXCEPT ![c] = k]
  PROVE  Budget(a, v, Commit(a, w, x, c, k))
<1> DEFINE y    == Commit(a, w, x, c, k)
           old  == w[c]
           less == old # NoKey /\ Needs(a, old) /\ x[old] = 1
           more == Needs(a, k) /\ x[k] = 0
           P    == Extra(x)
           Q    == Extra(y)
<1>1. \A z \in Keys : x[z] \in Nat
  BY ExtraWanted
<1>2. Recounted(w, v, c, k)
  <2>1. Recounted(w, [w EXCEPT ![c] = k], c, k)
    BY CellCount, Zenon
  <2> QED
    BY <2>1, Zenon
<1>3. ASSUME NEW z \in Keys
      PROVE  y[z] = x[z] + (IF z = k /\ Needs(a, k) THEN 1 ELSE 0)
                         - (IF z = old /\ Needs(a, z) THEN 1 ELSE 0)
  BY DEF Commit
<1>4. ASSUME NEW z \in Keys
      PROVE  y[z] = IF Needs(a, z) THEN Having(v, z) ELSE 0
  <2>1. x[z] = IF Needs(a, z) THEN Having(w, z) ELSE 0
    BY DEF Budget
  <2>2. /\ Having(w, z) \in Nat
        /\ Having(v, z) = Having(w, z) + (IF z = k THEN 1 ELSE 0)
                                       - (IF z = old THEN 1 ELSE 0)
    BY <1>2 DEF Recounted
  <2> HIDE DEF y, old
  <2>3. CASE Needs(a, z)
    <3>1. y[z] = x[z] + (IF z = k THEN 1 ELSE 0) - (IF z = old THEN 1 ELSE 0)
      BY <1>3, <2>3, Zenon
    <3> QED
      BY <2>1, <2>2, <2>3, <3>1
  <2>4. CASE ~Needs(a, z)
    <3>1. y[z] = x[z] + 0 - 0 /\ x[z] = 0
      BY <1>3, <2>1, <2>4, Zenon
    <3> QED
      BY <2>4, <3>1
  <2> QED
    BY <2>3, <2>4
<1>5. Q = (P \ (IF less THEN {old} ELSE {})) \cup (IF more THEN {k} ELSE {})
  <2> SUFFICES ASSUME NEW z \in Keys
               PROVE  y[z] > 0 <=>
                        \/ x[z] > 0 /\ ~(less /\ z = old)
                        \/ more /\ z = k
    BY DEF Extra
  <2>1. x[z] \in Nat /\ z # NoKey
    BY <1>1, PoolFacts
  <2>2. z = old /\ Needs(a, z) => x[z] > 0
    <3> SUFFICES ASSUME z = old, Needs(a, z) PROVE x[z] > 0
      OBVIOUS
    <3>1. old \in Wanting(w) \cap Keys
      BY <2>1 DEF Wanting
    <3>2. z \in Extra(x)
      BY <3>1, ExtraWanted
    <3> QED
      BY <3>2 DEF Extra
  <2>3. CASE z = k
    <3>1. z # old
      BY <2>3
    <3>2. y[z] = x[z] + (IF Needs(a, k) THEN 1 ELSE 0) - 0
      BY <1>3, <2>3, <3>1, Zenon
    <3>3. ~Needs(a, k) => x[z] = 0
      BY <2>3 DEF Budget
    <3> HIDE DEF y, old
    <3>4. CASE Needs(a, k)
      BY <2>1, <2>3, <3>1, <3>2, <3>4
    <3>5. CASE ~Needs(a, k)
      BY <2>1, <2>3, <3>1, <3>2, <3>3, <3>5
    <3> QED
      BY <3>4, <3>5
  <2>4. CASE z # k /\ z = old
    <3>1. y[z] = x[z] + 0 - (IF Needs(a, z) THEN 1 ELSE 0)
      BY <1>3, <2>4, Zenon
    <3>2. ~Needs(a, z) => x[z] = 0
      BY DEF Budget
    <3> HIDE DEF y, old
    <3>4. CASE Needs(a, z)
      BY <2>1, <2>2, <2>4, <3>1, <3>4
    <3>5. CASE ~Needs(a, z)
      BY <2>1, <2>4, <3>1, <3>2, <3>5
    <3> QED
      BY <3>4, <3>5
  <2>5. CASE z # k /\ z # old
    <3>1. y[z] = x[z] + 0 - 0
      BY <1>3, <2>5, Zenon
    <3> HIDE DEF y, old
    <3> QED
      BY <2>1, <2>5, <3>1
  <2> QED
    BY <2>3, <2>4, <2>5
<1>6. IsFiniteSet(P) /\ Cardinality(P) \in Nat /\ Used(x) = Cardinality(P)
  BY ExtraWanted
<1>7. (less => old \in P) /\ (more => k \notin P)
  <2>1. old \in Keys \cup {NoKey}
    OBVIOUS
  <2> QED
    BY <1>1, <2>1 DEF Extra
<1>8. Cardinality(Q) = Cardinality(P) - (IF less THEN 1 ELSE 0)
                                      + (IF more THEN 1 ELSE 0)
  <2> DEFINE R == P \ {old}
  <2> HIDE DEF P, Q, less, more, old
  <2>1. IsFiniteSet(R) /\ Cardinality(R) = (IF old \in P THEN Cardinality(P) - 1
                                            ELSE Cardinality(P))
    BY <1>6, FS_RemoveElement
  <2>2. /\ Cardinality(R \cup {k}) = IF k \in R THEN Cardinality(R)
                                     ELSE Cardinality(R) + 1
        /\ Cardinality(P \cup {k}) = IF k \in P THEN Cardinality(P)
                                     ELSE Cardinality(P) + 1
    BY <1>6, <2>1, FS_AddElement
  <2>3. CASE less /\ more
    BY <1>5, <1>6, <1>7, <2>1, <2>2, <2>3
  <2>4. CASE less /\ ~more
    BY <1>5, <1>6, <1>7, <2>1, <2>2, <2>4
  <2>5. CASE ~less /\ more
    BY <1>5, <1>6, <1>7, <2>1, <2>2, <2>5
  <2>6. CASE ~less /\ ~more
    BY <1>5, <1>6, <2>6
  <2> QED
    BY <2>3, <2>4, <2>5, <2>6
<1>9. Used(x) - (IF less THEN 1 ELSE 0) + (IF more THEN 1 ELSE 0) <= Capacity(a)
  BY DEF Fits
<1>10. Used(y) <= Capacity(a)
  <2>1. Used(y) = Cardinality(Q)
    BY DEF Used, Extra
  <2> HIDE DEF P, Q, less, more, old, y
  <2> QED
    BY <1>6, <1>8, <1>9, <2>1
<1> HIDE DEF y
<1>11. Budget(a, v, y)
  BY <1>4, <1>10 DEF Budget
<1> QED
  BY <1>11 DEF y

LEMMA NothingUsed == \A a : Good(a) => Budget(a, Nothing, Unspent)
<1> SUFFICES ASSUME NEW a, Good(a) PROVE Budget(a, Nothing, Unspent)
  OBVIOUS
<1>1. ASSUME NEW k \in Keys PROVE Having(Nothing, k) = 0
  <2>1. {c \in Cells : Nothing[c] = k} = {}
    BY PoolFacts DEF Nothing
  <2> QED
    BY <2>1, FS_EmptySet DEF Having
<1>2. Used(Unspent) = 0
  <2>1. {k \in Keys : Unspent[k] > 0} = {}
    BY DEF Unspent
  <2> QED
    BY <2>1, FS_EmptySet DEF Used
<1>3. Shown(a) \subseteq Slots
  BY DEF Shown
<1>4. Capacity(a) \in Nat
  BY <1>3, SlotSets, PoolFacts DEF Capacity
<1> QED
  BY <1>1, <1>2, <1>4 DEF Budget, Unspent

LEMMA ImageSmall ==
  ASSUME NEW S, IsFiniteSet(S), NEW f
  PROVE  /\ IsFiniteSet({f[z] : z \in S})
         /\ Cardinality({f[z] : z \in S}) \in Nat
         /\ Cardinality({f[z] : z \in S}) <= Cardinality(S)
<1> DEFINE T == {f[z] : z \in S}
           g == [z \in S |-> f[z]]
<1>1. g \in Surjection(S, T)
  BY DEF Surjection
<1> HIDE DEF g
<1>2. IsFiniteSet(T) /\ Cardinality(T) <= Cardinality(S)
  BY <1>1, FS_Surjection
<1> HIDE DEF T
<1>3. Cardinality(T) \in Nat
  BY <1>2, FS_CardinalityType
<1> QED
  BY <1>2, <1>3 DEF T

\* What the guard allowed is what placing needs.
LEMMA RoomBegins ==
  ASSUME NEW a, Fine(a), NEW w \in [Cells -> Keys \cup {NoKey}], NEW x,
         Budget(a, w, x), a.prev = a.cur, NEW e, e = Begin(a, Wanting(w))
  PROVE  Room(e, w, Cardinality(Todo(a, w)))
<1>1. /\ a \in Allocators /\ Good(a) /\ Wanting(w) \in SUBSET Keys
      /\ a.cur \in [Cells -> Slots \cup {NoSlot}]
  BY DEF Fine, Good, Allocators, Wanting
<1>2. /\ e.key_slot = a.key_slot /\ e.slot_key = a.slot_key /\ e.refs = a.refs
      /\ e.cur = a.cur /\ e.free = a.free /\ e.tearing = FALSE
      /\ e.protect = {a.cur[c] : c \in Cells} \ {NoSlot}
      /\ e.tfp = {a.key_slot[k] : k \in Wanting(w)} \ {NoSlot}
  BY <1>1 DEF Allocators, Begin
<1>3. Good(e)
  BY <1>1, GoodBegin
<1> DEFINE more  == Extra(x)
           gone  == Todo(a, w)
           there == more \ gone
           S     == Shown(a)
           T     == {a.key_slot[k] : k \in there}
<1>4. /\ more = {k \in Wanting(w) : Needs(a, k)} /\ IsFiniteSet(more)
      /\ Cardinality(more) \in Nat /\ Used(x) = Cardinality(more)
  BY <1>1, ExtraWanted
<1>5. gone \subseteq more
  BY <1>4 DEF Todo, Needs
<1>6. Busy(e) \subseteq S \cup T
  <2>1. e.protect \subseteq S
    BY <1>1, <1>2, ShownBy
  <2>2. Shown(e) = S
    BY <1>2 DEF Shown
  <2>3. ASSUME NEW k \in Wanting(w), a.key_slot[k] # NoSlot
        PROVE  a.key_slot[k] \in S \cup T
    <3>1. k \in Keys /\ Resident(a, k)
      BY <1>1, <2>3 DEF Resident
    <3>2. a.key_slot[k] \in Slots
      BY <1>1, <3>1, SlotOf
    <3>3. CASE a.refs[a.key_slot[k]] # 0
      BY <3>2, <3>3 DEF Shown
    <3>4. CASE a.refs[a.key_slot[k]] = 0
      BY <1>4, <3>1, <3>4 DEF Needs, Todo
    <3> QED
      BY <3>3, <3>4
  <2> QED
    BY <1>2, <2>1, <2>2, <2>3 DEF Busy
<1>7. /\ IsFiniteSet(there)
      /\ Cardinality(there) = Cardinality(more) - Cardinality(gone)
      /\ Cardinality(gone) \in Nat /\ Cardinality(there) \in Nat
  <2>1. more \cap gone = gone
    BY <1>5
  <2> HIDE DEF more, gone
  <2>2. IsFiniteSet(there) /\ Cardinality(there) = Cardinality(more) - Cardinality(gone)
    <3>1. /\ IsFiniteSet(more \ gone)
          /\ Cardinality(more \ gone) = Cardinality(more) - Cardinality(more \cap gone)
      BY <1>4, FS_Difference, Zenon
    <3> QED
      BY <2>1, <3>1
  <2> QED
    BY <2>2, TodoFinite, FS_CardinalityType DEF gone
<1>8. /\ IsFiniteSet(T) /\ Cardinality(T) \in Nat
      /\ Cardinality(T) <= Cardinality(there)
  <2> HIDE DEF there
  <2> QED
    BY <1>7, ImageSmall
<1>9. IsFiniteSet(S) /\ Cardinality(S) \in Nat
  BY SlotSets DEF Shown
<1>10. Cardinality(S \cup T) <= Cardinality(S) + Cardinality(T)
       /\ IsFiniteSet(S \cup T) /\ Cardinality(S \cup T) \in Nat
  <2> HIDE DEF S, T
  <2>1. /\ IsFiniteSet(S \cup T) /\ IsFiniteSet(S \cap T)
        /\ Cardinality(S \cup T) = Cardinality(S) + Cardinality(T)
                                   - Cardinality(S \cap T)
    BY <1>8, <1>9, FS_Union, FS_Intersection
  <2>2. Cardinality(S \cap T) \in Nat /\ Cardinality(S \cup T) \in Nat
    BY <2>1, FS_CardinalityType
  <2> QED
    BY <1>8, <1>9, <2>1, <2>2
<1>11. /\ Cardinality(Busy(e)) \in Nat
       /\ Cardinality(Busy(e)) <= Cardinality(S \cup T)
  BY <1>3, <1>6, <1>10, BusySlots, FS_Subset
<1>12. Cardinality(more) <= Pool - Cardinality(S)
  BY <1>4 DEF Budget, Capacity
<1>13. Cardinality(Busy(e)) + Cardinality(gone) <= Pool
  <2> HIDE DEF more, gone, there, S, T
  <2> QED
    BY <1>4, <1>7, <1>8, <1>9, <1>10, <1>11, <1>12, PoolFacts
<1>14. Todo(e, w) = Todo(a, w)
  BY <1>2 DEF Todo, Resident
<1>15. ASSUME NEW c \in Cells, w[c] # NoKey, Resident(e, w[c])
       PROVE  e.key_slot[w[c]] \in e.tfp
  BY <1>2, <1>15 DEF Resident, Wanting
<1> QED
  BY <1>2, <1>13, <1>14, <1>15 DEF Room

----------------------------------------------------------------------------
(* Prefetching *)

LEMMA ForcedLoads ==
  ASSUME NEW a, Fine(a), NEW k \in Keys, ~Resident(a, k), NEW s \in Slots,
         NEW f, NEW d \in Nat, NEW m, NEW avoid, NEW relocate,
         Available(a, s, f, avoid), NEW e,
         e = Forced(a, k, s, f, d, m, avoid, relocate)
  PROVE  /\ Loaded(a, e, k, s) /\ SameFlags(a, e)
         /\ s \in a.free \/ (a.refs[s] = 0 /\ s \notin a.protect)
<1> DEFINE p == IF s \in a.free THEN [a EXCEPT !.free = @ \ {s}]
                ELSE IF relocate THEN Evict(a, s) ELSE Take(a, s)
<1>1. e = Pin(p, k, s, d, m)
  BY DEF Forced
<1>2. Emptied(a, p, s) /\ SameFlags(a, p)
  <2>1. CASE s \in a.free
    BY <2>1, FinePop
  <2>2. CASE s \notin a.free
    BY <2>2, FineEvict, FineTake
  <2> QED
    BY <2>1, <2>2
<1> HIDE DEF p
<1>3. Loaded(a, e, k, s) /\ SameFlags(p, e)
  BY <1>1, <1>2, FinePin
<1> QED
  BY <1>2, <1>3 DEF SameFlags, Available

----------------------------------------------------------------------------
(* The steps *)

LEMMA DisplayFacts ==
  ASSUME StreamInv, DisplayInv
  PROVE  /\ Fine(sim) /\ Good(sim) /\ sim \in Allocators /\ pack = sim
         /\ sel \in [Cells -> Keys \cup {NoKey}]
         /\ sim.cur \in [Cells -> Slots \cup {NoSlot}]
         /\ sim.slot_key \in [Slots -> Keys \cup {NoKey}]
         /\ sim.free \subseteq Slots /\ NoSlot \notin Slots
         /\ NoKey \notin Keys
  BY PoolFacts DEF StreamInv, DisplayInv, Lockstep, Fine, Good, Allocators

LEMMA DisplayInit == Init => DisplayInv
<1> SUFFICES ASSUME Init PROVE DisplayInv
  OBVIOUS
<1>1. sim = Fresh
  BY DEF Init
<1>2. Counted(Fresh)
  <2>1. ASSUME NEW s \in Slots PROVE Having(Fresh.cur, s) = 0
    <3>1. {c \in Cells : Fresh.cur[c] = s} = {}
      BY PoolFacts DEF Fresh
    <3> QED
      BY <3>1, FS_EmptySet DEF Having
  <2>2. Cardinality({s \in Slots : Fresh.until[s] >= 0}) = 0
    <3>1. {s \in Slots : Fresh.until[s] >= 0} = {}
      BY DEF Fresh
    <3> QED
      BY <3>1, FS_EmptySet
  <2> QED
    BY <2>1, <2>2 DEF Counted, Fresh
<1>3. Full(Fresh)
  BY DEF Full, Fresh
<1>4. CellsExact
  BY <1>1 DEF CellsExact, Init, Fresh, Nothing
<1>5. ScreenKept
  BY <1>1 DEF ScreenKept, Showing, Init, Fresh
<1>6. Budget(sim, sel, extra)
  BY <1>1, NothingUsed, GoodFresh DEF Init
<1>7. FrameInv
  BY <1>1, <1>6 DEF FrameInv, Init, Fresh
<1>8. /\ want \in [Cells -> Keys \cup {NoKey}] /\ vram \in [Slots -> Keys \cup {NoKey}]
      /\ shown \in [Cells -> Slots \cup {NoSlot}]
  BY DEF Init, Nothing
<1>9. extra \in [Keys -> Int] /\ due \in Int
  BY DEF Init, Unspent
<1>10. rebased \in BOOLEAN
  BY Zenon DEF Init
<1> QED
  BY <1>1, <1>2, <1>3, <1>4, <1>5, <1>7, <1>8, <1>9, <1>10 DEF DisplayInv

LEMMA DisplayDecide ==
  ASSUME StreamInv, DisplayInv, NEW c \in Cells, NEW k \in Keys, Decide(c, k)
  PROVE  DisplayInv'
<1>1. /\ phase = "decide" /\ k # sel[c] /\ Fits(sim, sel, extra, c, k)
      /\ extra' = Commit(sim, sel, extra, c, k) /\ sel' = [sel EXCEPT ![c] = k]
      /\ UNCHANGED <<sim, pack, frame, phase, way, pos, edge, rebased, due, block,
                     want, vram, shown, pic>>
  BY DEF Decide
<1>2. ASSUME Budget(sim, sel, extra) PROVE Budget(sim, sel', extra')
  BY <1>1, <1>2, DisplayFacts, BudgetKept
<1>3. extra' \in [Keys -> Int]
  BY <1>1 DEF DisplayInv, Commit
<1>4. FrameInv'
  BY <1>1, <1>2 DEF DisplayInv, FrameInv
<1>5. CellsExact' /\ ScreenKept'
  BY <1>1 DEF DisplayInv, CellsExact, ScreenKept, Showing
<1> QED
  BY <1>1, <1>3, <1>4, <1>5 DEF DisplayInv

LEMMA DisplayGuard ==
  ASSUME StreamInv, DisplayInv, NEW k \in Keys, DecideGuard(k)
  PROVE  DisplayInv'
<1>1. /\ phase = "decide" /\ way # 0
      /\ UNCHANGED <<sim, pack, frame, phase, way, pos, edge, rebased, extra, due, block,
                     want, vram, shown, pic>>
  BY DEF DecideGuard
<1>2. FrameInv'
  BY <1>1 DEF DisplayInv, FrameInv
<1>3. CellsExact' /\ ScreenKept'
  BY <1>1 DEF DisplayInv, CellsExact, ScreenKept, Showing
<1> QED
  BY <1>1, <1>2, <1>3 DEF DisplayInv

LEMMA DisplaySettle ==
  ASSUME StreamInv, DisplayInv, Settle
  PROVE  DisplayInv'
<1>1. /\ phase = "decide" /\ phase' = "place" /\ extra' = Unspent
      /\ sim' = Begin(sim, Wanting(sel)) /\ due' = Cardinality(Todo(sim, sel))
      /\ UNCHANGED <<frame, way, pos, edge, rebased, sel, block, want, vram, shown, pic>>
  BY DEF Settle, Wanting, Todo
<1>2. Wanting(sel) \in SUBSET Keys
  BY DisplayFacts DEF Wanting
<1>3. Fine(sim')
  BY <1>1, <1>2, DisplayFacts, FineBegin
<1>4. /\ sim'.slot_key = sim.slot_key /\ sim'.free = sim.free
      /\ sim'.cur = sim.cur /\ sim'.prev = sim.prev /\ sim'.tearing = FALSE
      /\ sim'.protect = {sim.prev[c] : c \in Cells} \ {NoSlot}
  BY <1>1, DisplayFacts DEF Allocators, Begin
<1>5. Full(sim')
  BY <1>4 DEF DisplayInv, Full
<1>6. CellsExact'
  BY <1>1, <1>4 DEF DisplayInv, CellsExact
<1>7. sim.prev = shown
  BY <1>1 DEF DisplayInv, ScreenKept
<1>8. ScreenKept'
  BY <1>1, <1>4, <1>7 DEF DisplayInv, ScreenKept, Showing
<1>9. ~rebased => Room(sim', sel', due')
  <2> SUFFICES ASSUME ~rebased PROVE Room(sim', sel', due')
    OBVIOUS
  <2>1. Budget(sim, sel, extra) /\ sim.prev = sim.cur
    BY <1>1, <1>7 DEF DisplayInv, FrameInv
  <2>2. Room(sim', sel, Cardinality(Todo(sim, sel)))
    BY <1>1, <2>1, DisplayFacts, RoomBegins
  <2> QED
    BY <1>1, <2>2
<1>10. FrameInv'
  BY <1>1, <1>9 DEF DisplayInv, FrameInv
<1>11. due' \in Int /\ extra' \in [Keys -> Int]
  BY <1>1, TodoFinite DEF Unspent
<1> QED
  BY <1>1, <1>3, <1>5, <1>6, <1>8, <1>10, <1>11 DEF DisplayInv, Fine

LEMMA DisplayPlace ==
  ASSUME StreamInv, DisplayInv, NEW c \in Cells, PlaceNext(c)
  PROVE  DisplayInv'
<1> DEFINE k == sel[c]
<1>1. /\ phase = "place" /\ k \in Keys /\ frame \in Nat /\ CanAlloc(sim, frame)
      /\ want' = [want EXCEPT ![c] = k] /\ sel' = [sel EXCEPT ![c] = NoKey]
      /\ UNCHANGED <<frame, phase, way, pos, edge, rebased, extra, block, shown, pic>>
  BY DisplayFacts DEF PlaceNext, StreamInv
<1>2. PICK s \in PlaceSlots(sim, k, frame) :
        /\ sim' = Place(sim, c, k, frame, s)
        /\ IF Resident(sim, k) THEN UNCHANGED <<due, vram>>
           ELSE due' = due - 1 /\ vram' = [vram EXCEPT ![s] = k]
  BY DEF PlaceNext
<1>3. PutIn(sim, sim', c, k, s)
  BY <1>1, <1>2, DisplayFacts, PlacePuts
<1>4. /\ Fine(sim') /\ s \in Slots /\ s \notin sim'.free
      /\ sim'.cur = [sim.cur EXCEPT ![c] = s] /\ sim'.prev = sim.prev
      /\ sim'.protect = sim.protect
  BY <1>3 DEF PutIn
<1>5. CASE Resident(sim, k)
  <2>1. /\ s = sim.key_slot[k] /\ SameFlags(sim, sim')
        /\ sim'.slot_key = sim.slot_key /\ sim'.free = sim.free
        /\ due' = due /\ vram' = vram
    BY <1>2, <1>3, <1>5 DEF PutIn, SamePatterns
  <2>2. sim.slot_key[s] = k
    BY <1>1, <1>5, <2>1, DisplayFacts, SlotOf
  <2>3. Full(sim')
    BY <2>1 DEF DisplayInv, Full
  <2>4. CellsExact'
    BY <1>1, <1>4, <2>1, <2>2, DisplayFacts DEF DisplayInv, CellsExact, SameFlags
  <2>5. ScreenKept'
    BY <1>1, <1>4, <2>1 DEF DisplayInv, ScreenKept, Showing, SameFlags
  <2>6. ~rebased => Room(sim', sel', due')
    <3> SUFFICES ASSUME ~rebased PROVE Room(sim', sel', due')
      OBVIOUS
    <3>1. Room(sim, sel, due)
      BY <1>1 DEF DisplayInv, FrameInv
    <3>2. k # NoKey
      BY <1>1, DisplayFacts
    <3>3. Room(sim', sel', due)
      BY <1>1, <1>3, <1>5, <3>1, <3>2, DisplayFacts, RoomResident
    <3> QED
      BY <2>1, <3>3
  <2>7. FrameInv'
    BY <1>1, <2>6 DEF DisplayInv, FrameInv
  <2>8. want' \in [Cells -> Keys \cup {NoKey}]
    BY <1>1 DEF DisplayInv
  <2> QED
    BY <1>1, <1>4, <2>1, <2>3, <2>4, <2>5, <2>7, <2>8 DEF DisplayInv, Fine
<1>6. CASE ~Resident(sim, k)
  <2>1. /\ Given(sim, sim', k, s) /\ Chosen(sim, sim', s)
        /\ sim'.slot_key = [sim.slot_key EXCEPT ![s] = k]
        /\ sim'.free = sim.free \ {s}
        /\ due' = due - 1 /\ vram' = [vram EXCEPT ![s] = k]
    BY <1>2, <1>3, <1>6 DEF PutIn, Given
  <2>2. Full(sim')
    BY <1>1, <2>1, DisplayFacts, GivenFull DEF DisplayInv
  <2>3. ~sim'.tearing => /\ ~sim.tearing
                         /\ \A b \in Cells : sim.cur[b] # s
    <3> SUFFICES ASSUME ~sim'.tearing
                 PROVE  ~sim.tearing /\ \A b \in Cells : sim.cur[b] # s
      OBVIOUS
    <3>1. ~sim.tearing /\ (s \in sim.free \/ Idle(sim, s))
      BY <2>1 DEF Chosen, SameFlags
    <3>2. sim.refs[s] = 0
      BY <3>1, DisplayFacts DEF Idle, Fine, Counted
    <3> QED
      BY <1>4, <3>1, <3>2, DisplayFacts, NoReference DEF Fine
  <2>4. CellsExact'
    <3>1. \A b \in Cells : want'[b] = NoKey <=> sim'.cur[b] = NoSlot
      BY <1>1, <1>4, DisplayFacts DEF DisplayInv, CellsExact
    <3>2. \A r \in Slots : sim'.slot_key[r] # NoKey => vram'[r] = sim'.slot_key[r]
      BY <1>4, <2>1, DisplayFacts DEF DisplayInv, CellsExact
    <3>3. ASSUME ~sim'.tearing, NEW b \in Cells, want'[b] # NoKey
          PROVE  sim'.slot_key[sim'.cur[b]] = want'[b]
      <4>1. CASE b = c
        <5>1. sim'.cur[b] = s /\ want'[b] = k
          BY <1>1, <1>4, <4>1, DisplayFacts DEF DisplayInv
        <5> QED
          BY <1>4, <2>1, <5>1, DisplayFacts
      <4>2. CASE b # c
        <5>1. sim'.cur[b] = sim.cur[b] /\ want'[b] = want[b]
          BY <1>1, <1>4, <4>2, DisplayFacts DEF DisplayInv
        <5>2. sim.slot_key[sim.cur[b]] = want[b] /\ sim.cur[b] \in Slots \ {s}
          BY <2>3, <3>1, <3>3, <5>1, DisplayFacts DEF DisplayInv, CellsExact
        <5> QED
          BY <2>1, <5>1, <5>2, DisplayFacts
      <4> QED
        BY <4>1, <4>2
    <3> QED
      BY <1>1, <3>1, <3>2, <3>3 DEF CellsExact
  <2>5. ~rebased =>
          /\ Room(sim', sel', due')
          /\ s \in sim.free \/ (Idle(sim, s) /\ (s \notin sim.protect \/ sim'.reclaimed))
    <3> SUFFICES ASSUME ~rebased
                 PROVE  /\ Room(sim', sel', due')
                        /\ \/ s \in sim.free
                           \/ Idle(sim, s) /\ (s \notin sim.protect \/ sim'.reclaimed)
      OBVIOUS
    <3>1. Room(sim, sel, due) /\ due \in Int
      BY <1>1 DEF DisplayInv, FrameInv
    <3>2. k # NoKey
      BY <1>1, DisplayFacts
    <3>3. /\ Room(sim', sel', due - 1)
          /\ s \in sim.free \/ (Idle(sim, s) /\ (s \notin sim.protect \/ sim'.reclaimed))
      BY <1>1, <1>3, <1>6, <3>1, <3>2, DisplayFacts, RoomLoaded
    <3> QED
      BY <2>1, <3>3
  <2>6. ScreenKept'
    <3>1. Showing' = Showing /\ sim.protect = Showing /\ Showing \cap sim.free = {}
      BY <1>1 DEF DisplayInv, ScreenKept, Showing
    <3>2. ASSUME ~sim'.tearing, ~sim'.reclaimed, NEW b \in Cells,
                 shown[b] # NoSlot
          PROVE  vram'[shown[b]] = pic[b]
      <4>1. s \in sim.free \/ s \notin sim.protect
        BY <2>1, <3>2 DEF Chosen
      <4>2. shown[b] \in Showing /\ shown[b] # s
        BY <3>1, <3>2, <4>1 DEF Showing
      <4>3. ~sim.tearing /\ ~sim.reclaimed
        BY <2>1, <3>2 DEF Chosen, SameFlags
      <4>4. vram[shown[b]] = pic[b] /\ shown[b] \in Slots
        BY <1>1, <3>2, <4>3 DEF DisplayInv, ScreenKept
      <4> QED
        BY <2>1, <4>2, <4>4 DEF DisplayInv
    <3>3. Showing' \cap sim'.free = {}
      BY <2>1, <3>1
    <3> QED
      BY <1>1, <1>4, <3>1, <3>2, <3>3 DEF DisplayInv, ScreenKept
  <2>7. FrameInv'
    BY <1>1, <2>5 DEF DisplayInv, FrameInv
  <2>8. /\ want' \in [Cells -> Keys \cup {NoKey}] /\ due' \in Int
        /\ vram' \in [Slots -> Keys \cup {NoKey}]
    <3>1. due \in Int /\ due' = due - 1
      BY <2>1 DEF DisplayInv
    <3>2. vram \in [Slots -> Keys \cup {NoKey}] /\ vram' = [vram EXCEPT ![s] = k]
      BY <2>1 DEF DisplayInv
    <3>3. want \in [Cells -> Keys \cup {NoKey}] /\ want' = [want EXCEPT ![c] = k]
      BY <1>1 DEF DisplayInv
    <3>4. due' \in Int
      BY <3>1
    <3>5. vram' \in [Slots -> Keys \cup {NoKey}]
      BY <1>1, <1>4, <3>2
    <3>6. want' \in [Cells -> Keys \cup {NoKey}]
      BY <1>1, <3>3
    <3> QED
      BY <3>4, <3>5, <3>6
  <2> QED
    BY <1>1, <1>4, <2>2, <2>4, <2>6, <2>7, <2>8 DEF DisplayInv, Fine
<1> QED
  BY <1>5, <1>6

LEMMA DisplayPlaced ==
  ASSUME StreamInv, DisplayInv, Placed
  PROVE  DisplayInv'
<1>1. /\ phase = "place" /\ phase' = "prefetch" /\ sel = Nothing
      /\ sim' = End(sim)
      /\ UNCHANGED <<frame, way, pos, edge, rebased, sel, extra, due, want,
                     vram, shown, pic>>
  BY DEF Placed
<1>2. /\ Fine(sim') /\ sim'.slot_key = sim.slot_key /\ sim'.free = sim.free
      /\ SameFlags(sim, sim') /\ sim'.cur = sim.cur /\ sim'.prev = sim.cur
      /\ sim'.protect = sim.protect
  BY <1>1, DisplayFacts, FineEnd DEF SamePatterns
<1>3. Full(sim')
  BY <1>2 DEF DisplayInv, Full
<1>4. CellsExact'
  BY <1>1, <1>2 DEF DisplayInv, CellsExact, SameFlags
<1>5. ScreenKept'
  BY <1>1, <1>2 DEF DisplayInv, ScreenKept, Showing, SameFlags
<1>6. ~rebased => ~sim.tearing /\ due = 0
  <2> SUFFICES ASSUME ~rebased PROVE ~sim.tearing /\ due = 0
    OBVIOUS
  <2>1. Room(sim, sel, due)
    BY <1>1 DEF DisplayInv, FrameInv
  <2>2. Todo(sim, sel) = {}
    BY <1>1 DEF Todo, Wanting, Nothing
  <2> QED
    BY <2>1, <2>2, FS_EmptySet DEF Room
<1>7. FrameInv'
  BY <1>1, <1>2, <1>6 DEF DisplayInv, FrameInv, SameFlags
<1> QED
  BY <1>1, <1>2, <1>3, <1>4, <1>5, <1>7 DEF DisplayInv, Fine

\* A prefetch takes a slot that no cell shows and the screen does not need.
LEMMA DisplayLoads ==
  ASSUME StreamInv, DisplayInv, phase = "prefetch", Others, NEW k \in Keys,
         NEW s, Loaded(sim, sim', k, s), SameFlags(sim, sim'),
         s \in sim.free \/ (sim.refs[s] = 0 /\ s \notin sim.protect),
         vram' = [vram EXCEPT ![s] = k]
  PROVE  DisplayInv'
<1>1. UNCHANGED <<frame, phase, way, pos, edge, rebased, sel, extra, due, block, want,
                  shown, pic>>
  BY DEF Others
<1>2. /\ Fine(sim') /\ s \in Slots /\ sim'.cur = sim.cur /\ sim'.prev = sim.prev
      /\ sim'.protect = sim.protect /\ sim'.free = sim.free \ {s}
      /\ sim'.slot_key = [sim.slot_key EXCEPT ![s] = k] /\ Given(sim, sim', k, s)
  BY DEF Loaded, Given, SameDisplay
<1>3. Full(sim')
  BY <1>2, DisplayFacts, GivenFull DEF DisplayInv
<1>4. \A c \in Cells : sim.cur[c] # s
  <2>1. sim.refs[s] = 0
    BY DisplayFacts DEF Fine, Counted
  <2> QED
    BY <1>2, <2>1, DisplayFacts, NoReference DEF Fine
<1>5. CellsExact'
  <2>1. \A c \in Cells : want[c] # NoKey => sim.cur[c] \in Slots \ {s}
    BY <1>4, DisplayFacts DEF DisplayInv, CellsExact
  <2>2. \A r \in Slots : sim'.slot_key[r] # NoKey => vram'[r] = sim'.slot_key[r]
    BY <1>2, DisplayFacts DEF DisplayInv, CellsExact
  <2>3. ~sim.tearing => \A c \in Cells : want[c] # NoKey =>
                          sim'.slot_key[sim'.cur[c]] = want[c]
    BY <1>2, <2>1, DisplayFacts DEF DisplayInv, CellsExact
  <2> QED
    BY <1>1, <1>2, <2>2, <2>3 DEF DisplayInv, CellsExact, SameFlags
<1>6. ScreenKept'
  <2>1. Showing' = Showing /\ sim.protect = Showing /\ Showing \cap sim.free = {}
    BY <1>1 DEF DisplayInv, ScreenKept, Showing
  <2>2. s \notin Showing
    BY <2>1
  <2>3. \A c \in Cells : shown[c] # NoSlot => shown[c] \in Slots \ {s}
    BY <2>2 DEF Showing, DisplayInv
  <2>4. \A c \in Cells : shown[c] # NoSlot => vram'[shown[c]] = vram[shown[c]]
    BY <2>3 DEF DisplayInv
  <2> QED
    BY <1>1, <1>2, <2>1, <2>4 DEF DisplayInv, ScreenKept, SameFlags
<1>7. FrameInv'
  BY <1>1 DEF DisplayInv, FrameInv, SameFlags
<1>8. vram' \in [Slots -> Keys \cup {NoKey}]
  BY <1>2 DEF DisplayInv
<1> QED
  BY <1>1, <1>2, <1>3, <1>5, <1>6, <1>7, <1>8 DEF DisplayInv, Fine

LEMMA DisplaySoft ==
  ASSUME StreamInv, DisplayInv, NEW k \in Keys, NEW d \in 1 .. MaxFrame, NEW avoid,
         Soft(k, d, avoid)
  PROVE  DisplayInv'
<1> DEFINE s == SearchSlot(sim, frame, FALSE, avoid)
<1>1. /\ ~Resident(sim, k) /\ CanSearch(sim, frame, FALSE, avoid)
      /\ sim' = Organic(sim, k, frame, d, FALSE, avoid)
      /\ phase = "prefetch" /\ Others /\ vram' = [vram EXCEPT ![s] = k]
      /\ Good(sim) /\ sim.tfp = {}
  BY DEF Soft, Load, StreamInv
<1> HIDE DEF s
<1>0. d \in Nat
  BY TileStreamAssumption
<1>2. s \in Slots /\ (IF sim.free # {} THEN s \in sim.free
                      ELSE s \in Searched(sim, frame, FALSE, avoid))
  BY <1>1, SearchFinds DEF s
<1>3. Available(sim, s, frame, {})
  BY <1>1, <1>2 DEF Available, Searched, Held
<1>4. sim' = Forced(sim, k, s, frame, d, FALSE, {}, FALSE)
  BY <1>1, Accepted DEF s
<1> DEFINE no == FALSE
<1>5. sim' = Forced(sim, k, s, frame, d, no, {}, no)
  BY <1>4
<1> HIDE DEF no
<1>6. /\ Loaded(sim, sim', k, s) /\ SameFlags(sim, sim')
      /\ s \in sim.free \/ (sim.refs[s] = 0 /\ s \notin sim.protect)
  BY <1>0, <1>1, <1>2, <1>3, <1>5, DisplayFacts, ForcedLoads
<1> QED
  BY <1>1, <1>6, DisplayLoads

LEMMA DisplayFade ==
  ASSUME StreamInv, DisplayInv, NEW k \in FadeKeys, NEW avoid, Fade(k, avoid)
  PROVE  DisplayInv'
<1> DEFINE room == BlockFree(sim, frame, block, FadeCount,
                     {sim.key_slot[x] : x \in FadeKeys \ Lost}, avoid)
           s    == IF room # {} THEN Lowest(room)
                   ELSE SearchSlot(sim, frame, TRUE, avoid)
           yes  == TRUE
           no   == FALSE
<1>1. /\ k \in Keys /\ phase = "prefetch" /\ Others /\ sim.tfp = {}
      /\ Good(sim) /\ Deadline \in Nat
  BY StreamFacts, TileStreamAssumption DEF Fade, StreamInv
<1>2. room \subseteq Slots /\ \A x \in room : Available(sim, x, frame, avoid)
  <2>1. block \in 0 .. Pool - FadeCount
    BY DEF Fade, StreamInv, BlockChosen
  <2>2. block .. block + FadeCount - 1 \subseteq Slots
    BY <2>1, StreamFacts, PoolFacts DEF Slots
  <2> QED
    BY <2>2 DEF BlockFree
<1>3. CASE /\ Resident(sim, k) /\ vram' = vram
           /\ sim' = Upgrade(sim, sim.key_slot[k], Deadline)
  <2>1. sim.key_slot[k] \in Slots \ sim.free
    BY <1>1, <1>3, DisplayFacts, SlotOf
  <2>2. /\ Fine(sim') /\ SameDisplay(sim, sim') /\ SameFlags(sim, sim')
        /\ sim'.slot_key = sim.slot_key /\ sim'.free = sim.free
    BY <1>1, <1>3, <2>1, DisplayFacts, FineUpgrade DEF SamePatterns
  <2>3. UNCHANGED <<frame, phase, way, pos, edge, rebased, sel, extra, due, block, want,
                    shown, pic>>
    BY <1>1 DEF Others
  <2>4. Full(sim')
    BY <2>2 DEF DisplayInv, Full
  <2>5. CellsExact'
    BY <1>3, <2>2, <2>3 DEF DisplayInv, CellsExact, SameDisplay, SameFlags
  <2>6. ScreenKept'
    BY <1>3, <2>2, <2>3 DEF DisplayInv, ScreenKept, Showing, SameDisplay, SameFlags
  <2>7. FrameInv'
    BY <1>1, <2>2, <2>3 DEF DisplayInv, FrameInv, SameFlags
  <2> QED
    BY <1>3, <2>2, <2>3, <2>4, <2>5, <2>6, <2>7 DEF DisplayInv, Fine
<1>4. CASE /\ ~Resident(sim, k) /\ room # {}
           /\ sim' = Forced(sim, k, s, frame, Deadline, TRUE, avoid, TRUE)
           /\ vram' = [vram EXCEPT ![s] = k]
  <2>1. s \in room
    BY <1>2, <1>4, LowestIn
  <2> HIDE DEF s, room
  <2>2. s \in Slots /\ Available(sim, s, frame, avoid)
    BY <1>2, <2>1
  <2>3. sim' = Forced(sim, k, s, frame, Deadline, yes, avoid, yes)
    BY <1>4
  <2> HIDE DEF yes
  <2>4. /\ Loaded(sim, sim', k, s) /\ SameFlags(sim, sim')
        /\ s \in sim.free \/ (sim.refs[s] = 0 /\ s \notin sim.protect)
    BY <1>1, <1>4, <2>2, <2>3, DisplayFacts, ForcedLoads
  <2> QED
    BY <1>1, <1>4, <2>4, DisplayLoads
<1>5. CASE /\ ~Resident(sim, k) /\ room = {} /\ CanSearch(sim, frame, TRUE, avoid)
           /\ sim' = Organic(sim, k, frame, Deadline, TRUE, avoid)
           /\ vram' = [vram EXCEPT ![s] = k]
  <2> DEFINE r == SearchSlot(sim, frame, TRUE, avoid)
  <2>1. s = r
    BY <1>5
  <2>2. r \in Slots /\ (IF sim.free # {} THEN r \in sim.free
                        ELSE r \in Searched(sim, frame, TRUE, avoid))
    BY <1>5, DisplayFacts, SearchFinds
  <2>3. Available(sim, r, frame, {})
    BY <1>1, <2>2 DEF Available, Searched, Held
  <2> HIDE DEF s, r, room
  <2>4. sim' = Forced(sim, k, r, frame, Deadline, TRUE, {}, FALSE)
    BY <1>1, <1>5, Accepted DEF r
  <2>5. sim' = Forced(sim, k, r, frame, Deadline, yes, {}, no)
    BY <2>4
  <2> HIDE DEF yes, no
  <2>6. /\ Loaded(sim, sim', k, r) /\ SameFlags(sim, sim')
        /\ r \in sim.free \/ (sim.refs[r] = 0 /\ r \notin sim.protect)
    BY <1>1, <1>5, <2>2, <2>3, <2>5, DisplayFacts, ForcedLoads
  <2> QED
    BY <1>1, <1>5, <2>1, <2>6, DisplayLoads
<1> QED
  BY <1>3, <1>4, <1>5 DEF Fade, Load

\* What a flip shows is what the cells want.
LEMMA FlipShows ==
  ASSUME StreamInv, DisplayInv, Flip
  PROVE  /\ \A c \in Cells : want[c] # NoKey =>
              /\ sim.cur[c] \in Slots \ sim.free
              /\ sim.slot_key[sim.cur[c]] = want[c] /\ vram[sim.cur[c]] = want[c]
         /\ \A c \in Cells : want[c] = NoKey <=> sim.cur[c] = NoSlot
         /\ sim.prev = sim.cur /\ sel = Nothing /\ extra = Unspent
         /\ shown' = sim.cur /\ pic' = want /\ phase' = "decide"
         /\ sel' = sel /\ extra' = extra /\ vram' = vram /\ due' = due
<1>1. phase = "prefetch" /\ Exact
  BY DEF Flip
<1>2. sim.prev = sim.cur /\ sel = Nothing /\ extra = Unspent
  BY <1>1 DEF DisplayInv, ScreenKept, FrameInv
<1>3. \A c \in Cells : want[c] = NoKey <=> sim.cur[c] = NoSlot
  BY DEF DisplayInv, CellsExact
<1>4. ASSUME NEW c \in Cells, want[c] # NoKey
      PROVE  /\ sim.cur[c] \in Slots \ sim.free
             /\ sim.slot_key[sim.cur[c]] = want[c] /\ vram[sim.cur[c]] = want[c]
  <2>1. vram[sim.cur[c]] = want[c]
    BY <1>1, <1>4, DisplayFacts DEF Exact
  <2>2. sim.cur[c] \in Slots \ sim.free
    BY <1>3, <1>4, DisplayFacts, ShownNotFree DEF Fine
  <2>3. sim.slot_key[sim.cur[c]] # NoKey
    BY <2>2 DEF DisplayInv, Full
  <2> QED
    BY <2>1, <2>2, <2>3 DEF DisplayInv, CellsExact
<1> QED
  BY <1>2, <1>3, <1>4 DEF Flip

LEMMA DisplayNormal ==
  ASSUME StreamInv, DisplayInv, NextNormal
  PROVE  DisplayInv'
<1>1. /\ Flip /\ way = 0 /\ way' = 0 /\ rebased' = FALSE
      /\ UNCHANGED <<sim, pack, want>>
  BY DEF NextNormal
<1>2. CellsExact'
  BY <1>1, FlipShows DEF DisplayInv, CellsExact
<1>3. ScreenKept'
  BY <1>1, FlipShows, DisplayFacts DEF DisplayInv, ScreenKept, Showing
<1>4. Budget(sim', sel', extra')
  BY <1>1, FlipShows, DisplayFacts, NothingUsed
<1>5. FrameInv'
  BY <1>1, <1>4, FlipShows DEF DisplayInv, FrameInv
<1>6. shown' \in [Cells -> Slots \cup {NoSlot}]
  BY <1>1, FlipShows, DisplayFacts
<1>7. extra' \in [Keys -> Int] /\ due' \in Int /\ vram' = vram
  BY <1>1, FlipShows DEF DisplayInv
<1>8. rebased' \in BOOLEAN
  BY <1>1, Zenon
<1> QED
  BY <1>1, <1>2, <1>3, <1>5, <1>6, <1>7, <1>8 DEF DisplayInv

LEMMA DisplayMoved ==
  ASSUME StreamInv, DisplayInv, Flip, NEW from,
         \A c \in Cells \cap DOMAIN from : from[c] \in Cells, Moved(from)
  PROVE  DisplayInv'
<1>1. /\ sim' = Rebase(sim, from) /\ rebased' = TRUE
      /\ want' = [c \in Cells |-> IF c \in DOMAIN from THEN want[from[c]] ELSE NoKey]
  BY DEF Moved
<1>2. /\ Fine(sim') /\ sim'.slot_key = sim.slot_key /\ sim'.free = sim.free
      /\ sim'.prev = sim.prev
      /\ sim'.cur = [c \in Cells |-> IF c \in DOMAIN from THEN sim.cur[from[c]]
                                     ELSE NoSlot]
  BY <1>1, DisplayFacts, FineRebase DEF SamePatterns
<1>3. Full(sim')
  BY <1>2 DEF DisplayInv, Full
<1>4. CellsExact'
  <2>1. ASSUME NEW c \in Cells
        PROVE  /\ want'[c] = NoKey <=> sim'.cur[c] = NoSlot
               /\ want'[c] # NoKey => sim'.slot_key[sim'.cur[c]] = want'[c]
    <3>1. CASE c \in DOMAIN from
      <4>1. /\ from[c] \in Cells /\ want'[c] = want[from[c]]
            /\ sim'.cur[c] = sim.cur[from[c]]
        BY <1>1, <1>2, <3>1
      <4> QED
        BY <1>2, <4>1, FlipShows
    <3>2. CASE c \notin DOMAIN from
      BY <1>1, <1>2, <3>2
    <3> QED
      BY <3>1, <3>2
  <2>2. \A s \in Slots : sim'.slot_key[s] # NoKey => vram'[s] = sim'.slot_key[s]
    BY <1>2, FlipShows DEF DisplayInv, CellsExact
  <2> QED
    BY <2>1, <2>2 DEF CellsExact
<1>5. ScreenKept'
  BY <1>2, FlipShows, DisplayFacts DEF DisplayInv, ScreenKept, Showing
<1>6. FrameInv'
  BY <1>1, FlipShows DEF DisplayInv, FrameInv
<1>7. want' \in [Cells -> Keys \cup {NoKey}]
  BY <1>1 DEF DisplayInv
<1>8. /\ shown' \in [Cells -> Slots \cup {NoSlot}] /\ vram' = vram
      /\ extra' \in [Keys -> Int] /\ due' \in Int
  BY FlipShows, DisplayFacts DEF DisplayInv
<1>9. rebased' \in BOOLEAN
  BY <1>1, Zenon
<1> QED
  BY <1>2, <1>3, <1>4, <1>5, <1>6, <1>7, <1>8, <1>9 DEF DisplayInv, Fine

LEMMA DisplayStep == StreamInv /\ DisplayInv /\ [Next]_vars => DisplayInv'
<1> SUFFICES ASSUME StreamInv, DisplayInv, [Next]_vars PROVE DisplayInv'
  OBVIOUS
<1>1. CASE NextScroll
  <2> DEFINE from == [c \in Primary(pos') \cup {edge'} |-> c]
  <2>1. Moved(from) /\ Flip
    BY <1>1 DEF NextScroll
  <2>2. \A c \in Cells \cap DOMAIN from : from[c] \in Cells
    OBVIOUS
  <2> HIDE DEF from
  <2> QED
    BY <2>1, <2>2, DisplayMoved
<1>2. CASE NextReturn
  <2> DEFINE from == [c \in 0 .. Columns - 1 |-> (pos + c) % Plane]
  <2>1. Moved(from) /\ Flip
    BY <1>2 DEF NextReturn
  <2>2. \A c \in Cells \cap DOMAIN from : from[c] \in Cells
    BY StreamFacts DEF StreamInv
  <2> HIDE DEF from
  <2> QED
    BY <2>1, <2>2, DisplayMoved
<1>3. CASE UNCHANGED vars
  <2>1. CellsExact' /\ ScreenKept' /\ FrameInv'
    BY <1>3 DEF vars, DisplayInv, CellsExact, ScreenKept, Showing, FrameInv
  <2> QED
    BY <1>3, <2>1 DEF vars, DisplayInv
<1> QED
  BY <1>1, <1>2, <1>3, DisplayDecide, DisplayGuard, DisplaySettle, DisplayPlace,
     DisplayPlaced, DisplaySoft, DisplayFade, DisplayNormal DEF Next

----------------------------------------------------------------------------
(* What holds of every movie *)

LEMMA StreamAlways == Spec => [](StreamInv /\ DisplayInv)
  BY StreamInit, StreamStep, DisplayInit, DisplayStep, PTL DEF Spec

\* The counts by which the allocator decides whom to evict are exact in every
\* state, and what it holds free is empty, unreferenced and unpinned.
THEOREM CountsExact == Spec => []Consistent
<1>1. StreamInv /\ DisplayInv => Consistent
  <2> SUFFICES ASSUME StreamInv, DisplayInv PROVE Consistent
    OBVIOUS
  <2>1. sim \in Allocators /\ Dictionary(sim) /\ Counted(sim)
    BY DisplayFacts DEF Good, Fine
  <2>2. sim.hand \in Slots /\ sim.protect \subseteq Slots
    BY <2>1 DEF Allocators
  <2> QED
    BY <2>1, <2>2 DEF Consistent, Dictionary, Counted, Having, StreamInv
<1> QED
  BY <1>1, StreamAlways, PTL

\* While a frame is loaded that does not tear, the screen keeps what it shows.
THEOREM ScreenIntact == Spec => []DisplayIntact
<1>1. DisplayInv => DisplayIntact
  BY DEF DisplayInv, ScreenKept, FrameInv, Room, DisplayIntact, Untorn
<1> QED
  BY <1>1, StreamAlways, PTL

\* The packer finds every pattern in VRAM when a frame is to be flipped.
THEOREM FlipNeverRefused == Spec => []FlipExact
<1>1. StreamInv /\ DisplayInv => FlipExact
  <2> SUFFICES ASSUME StreamInv, DisplayInv, phase = "prefetch",
                      rebased => ~sim.tearing, NEW c \in Cells, want[c] # NoKey
               PROVE  pack.cur[c] # NoSlot /\ vram[pack.cur[c]] = want[c]
    BY DEF FlipExact, Exact
  <2>1. ~sim.tearing
    BY DEF DisplayInv, FrameInv
  <2>2. sim.cur[c] # NoSlot /\ sim.slot_key[sim.cur[c]] = want[c]
    BY <2>1 DEF DisplayInv, CellsExact
  <2>3. sim.cur[c] \in Slots
    BY <2>2, DisplayFacts
  <2>4. vram[sim.cur[c]] = want[c]
    BY <2>2, <2>3 DEF DisplayInv, CellsExact
  <2> QED
    BY <2>2, <2>4, DisplayFacts
<1> QED
  BY <1>1, StreamAlways, PTL

\* Every load that was decided is made, each once.
THEOREM ColdLoadsExact == Spec => []ColdIsFresh
<1>1. DisplayInv => ColdIsFresh
  BY DEF DisplayInv, FrameInv, ColdIsFresh
<1> QED
  BY <1>1, StreamAlways, PTL
=============================================================================
