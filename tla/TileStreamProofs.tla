-------------------------- MODULE TileStreamProofs -------------------------
(***************************************************************************)
(* For every pool, plane, set of patterns and fade: the packer's replay    *)
(* keeps the encoder's allocator state, and a fade reference is kept.      *)
(* The first rests on this: a slot the clock or the block search finds is  *)
(* one that the replay accepts, because no reuse protection outlives       *)
(* placing and the replay avoids fewer patterns.  The second on this: a    *)
(* pinned slot is none that a search may find, and the tiers come to it    *)
(* last.  Both need the types of the fields and a dictionary whose two     *)
(* directions agree.                                                       *)
(***************************************************************************)
EXTENDS TileStream, FiniteSetTheorems, WellFoundedInduction, TLAPS

Allocators ==
  [key_slot  : [Keys -> Slots \cup {NoSlot}],
   slot_key  : [Slots -> Keys \cup {NoKey}],
   refs      : [Slots -> Int],
   free      : SUBSET Slots,
   hand      : Slots,
   cur       : [Cells -> Slots \cup {NoSlot}],
   prev      : [Cells -> Slots \cup {NoSlot}],
   protect   : SUBSET Slots,
   tfp       : SUBSET Slots,
   until     : [Slots -> Int],
   mandatory : SUBSET Slots,
   pinned    : Int,
   tearing   : BOOLEAN,
   reclaimed : BOOLEAN]

\* The dictionary is one-to-one, and a free slot holds nothing.
Dictionary(a) ==
  /\ \A k \in Keys, s \in Slots : a.key_slot[k] = s <=> a.slot_key[s] = k
  /\ \A s \in a.free : a.slot_key[s] = NoKey

Good(a) == a \in Allocators /\ Dictionary(a)

\* A slot that may be bound to a pattern.
Vacant(a, s) == s \in Slots /\ s \notin a.free /\ a.slot_key[s] = NoKey

LEMMA PoolFacts == Pool \in Nat \ {0} /\ 0 \in Slots /\ NoSlot \notin Slots
                   /\ NoKey \notin Keys /\ Slots \subseteq Nat
  BY TileAllocAssumption DEF Slots, NoSlot

----------------------------------------------------------------------------
(* Choices *)

Less == OpToRel(<, Nat)

LEMMA LessMember == \A x, y \in Nat : x < y => <<x, y>> \in Less
  BY Zenon DEF Less, OpToRel

LEMMA LessWellFounded == IsWellFoundedOn(Less, Nat)
  BY ONLY NatLessThanWellFounded, Zenon DEF Less

LEMMA Minimum ==
  ASSUME NEW S, S \subseteq Nat, S # {}
  PROVE  \E s \in S : \A t \in S : s <= t
<1>1. PICK s \in S : \A t \in S : ~(<<t, s>> \in Less)
  BY ONLY LessWellFounded, WFMin, S \subseteq Nat, S # {}, Zenon
<1>2. \A t \in S : ~(t < s)
  BY <1>1, LessMember
<1>3. \A t \in S : s <= t
  BY <1>2
<1> QED
  BY <1>3

LEMMA LowestIn ==
  ASSUME NEW S, S \subseteq Slots, S # {}
  PROVE  Lowest(S) \in S
<1>1. \E s \in S : \A t \in S : s <= t
  BY Minimum, PoolFacts
<1> QED
  BY <1>1 DEF Lowest

LEMMA FirstIn ==
  ASSUME NEW a \in Allocators, NEW S, S \subseteq Slots, S # {}
  PROVE  First(a, S) \in S
<1> DEFINE T == {Turns(a, s) : s \in S}
<1>1. a.hand \in Nat
  BY PoolFacts DEF Allocators
<1>2. \A s \in S : Turns(a, s) \in Nat
  BY <1>1, PoolFacts DEF Turns
<1>3. T \subseteq Nat /\ T # {}
  BY <1>2
<1>4. PICK n \in T : \A t \in T : n <= t
  BY <1>3, Minimum
<1>5. PICK s \in S : n = Turns(a, s)
  BY <1>4
<1>6. \A t \in S : Turns(a, s) <= Turns(a, t)
  BY <1>4, <1>5
<1> QED
  BY <1>6 DEF First

LEMMA TierFound ==
  ASSUME NEW a, NEW f, CanAlloc(a, f), a.free = {}
  PROVE  /\ Tier(a, f) \in 1 .. 5
         /\ Tiers(a, f)[Tier(a, f)] # {}
         /\ Tiers(a, f)[Tier(a, f)] \subseteq Slots
<1> DEFINE I == {i \in 1 .. 5 : Tiers(a, f)[i] # {}}
<1>1. I \subseteq Nat /\ I # {}
  BY DEF CanAlloc
<1>2. PICK i \in I : \A j \in I : i <= j
  BY <1>1, Minimum
<1>3. \A j \in 1 .. i - 1 : Tiers(a, f)[j] = {}
  BY <1>2
<1>4. Tier(a, f) \in 1 .. 5 /\ Tiers(a, f)[Tier(a, f)] # {}
  BY <1>2, <1>3 DEF Tier
<1>5. \A j \in 1 .. 5 : Tiers(a, f)[j] \subseteq Slots
  <2> SUFFICES ASSUME NEW j \in 1 .. 5 PROVE Tiers(a, f)[j] \subseteq Slots
    OBVIOUS
  <2>1. j = 1 \/ j = 2 \/ j = 3 \/ j = 4 \/ j = 5
    OBVIOUS
  <2> QED
    BY <2>1 DEF Tiers
<1> QED
  BY <1>4, <1>5

----------------------------------------------------------------------------
(* What each operation of the allocator keeps *)

LEMMA GoodFresh == Good(Fresh)
  BY PoolFacts DEF Good, Allocators, Dictionary, Fresh

\* Most operations leave the dictionary alone.
LEMMA GoodKept ==
  ASSUME NEW a, Good(a), NEW b \in Allocators, b.key_slot = a.key_slot,
         b.slot_key = a.slot_key, b.free = a.free
  PROVE  Good(b)
  BY DEF Good, Dictionary

LEMMA GoodEvict ==
  ASSUME NEW a, Good(a), NEW s \in Slots \ a.free
  PROVE  /\ Good(Evict(a, s)) /\ Vacant(Evict(a, s), s)
         /\ Evict(a, s).free = a.free /\ Evict(a, s).tfp = a.tfp
         /\ \A k \in Keys : ~Resident(a, k) => ~Resident(Evict(a, s), k)
<1> DEFINE b == Evict(a, s)
<1>1. a \in Allocators /\ Dictionary(a)
  BY DEF Good
<1>2. b \in Allocators
  <2> DEFINE ks == [k \in Keys |-> IF k = a.slot_key[s] THEN NoSlot
                                   ELSE a.key_slot[k]]
             sk == [a.slot_key EXCEPT ![s] = NoKey]
             un == [a.until EXCEPT ![s] = -1]
             ma == a.mandatory \ {s}
             pi == IF a.until[s] >= 0 THEN a.pinned - 1 ELSE a.pinned
  <2>1. /\ ks \in [Keys -> Slots \cup {NoSlot}]
        /\ sk \in [Slots -> Keys \cup {NoKey}]
    BY <1>1 DEF Allocators
  <2>2. un \in [Slots -> Int] /\ ma \in SUBSET Slots /\ pi \in Int
    BY <1>1 DEF Allocators
  <2>3. b = [a EXCEPT !.key_slot = ks, !.slot_key = sk, !.until = un,
                      !.mandatory = ma, !.pinned = pi]
    BY DEF Evict
  <2> HIDE DEF ks, sk, un, ma, pi, b
  <2> QED
    BY <1>1, <2>1, <2>2, <2>3 DEF Allocators
<1>3. /\ b.key_slot = [k \in Keys |-> IF k = a.slot_key[s] THEN NoSlot
                                      ELSE a.key_slot[k]]
      /\ b.slot_key = [a.slot_key EXCEPT ![s] = NoKey]
      /\ b.free = a.free /\ b.tfp = a.tfp
  BY <1>1 DEF Allocators, Evict
<1>4. Dictionary(b)
  <2>1. ASSUME NEW k \in Keys, NEW r \in Slots
        PROVE  b.key_slot[k] = r <=> b.slot_key[r] = k
    BY <1>1, <1>3, PoolFacts DEF Dictionary, Allocators
  <2> QED
    BY <1>1, <1>3, <2>1 DEF Dictionary, Allocators
<1>5. \A k \in Keys : ~Resident(a, k) => ~Resident(b, k)
  BY <1>3 DEF Resident
<1> QED
  BY <1>1, <1>2, <1>3, <1>4, <1>5 DEF Good, Vacant, Allocators

LEMMA GoodTake ==
  ASSUME NEW a, Good(a), NEW s \in Slots \ a.free
  PROVE  /\ Good(Take(a, s)) /\ Vacant(Take(a, s), s)
         /\ Take(a, s).tfp = a.tfp
         /\ \A k \in Keys : ~Resident(a, k) => ~Resident(Take(a, s), k)
<1> DEFINE b == Evict(a, s)
<1>1. /\ Good(b) /\ Vacant(b, s) /\ b.free = a.free /\ b.tfp = a.tfp
      /\ \A k \in Keys : ~Resident(a, k) => ~Resident(b, k)
  BY GoodEvict
<1>2. (s + 1) % Pool \in Slots
  BY PoolFacts DEF Slots
<1>3. Take(a, s) = [b EXCEPT !.hand = (s + 1) % Pool]
  BY DEF Take
<1> HIDE DEF b
<1>4. /\ Take(a, s) \in Allocators /\ Take(a, s).key_slot = b.key_slot
      /\ Take(a, s).slot_key = b.slot_key /\ Take(a, s).free = b.free
      /\ Take(a, s).tfp = b.tfp
  BY <1>1, <1>2, <1>3 DEF Good, Allocators
<1> QED
  BY <1>1, <1>4, GoodKept DEF Vacant, Resident

LEMMA GoodPop ==
  ASSUME NEW a, Good(a), NEW s \in a.free
  PROVE  LET b == [a EXCEPT !.free = @ \ {s}]
         IN  /\ Good(b) /\ Vacant(b, s) /\ b.tfp = a.tfp
             /\ \A k \in Keys : ~Resident(a, k) => ~Resident(b, k)
  BY DEF Good, Vacant, Allocators, Dictionary, Resident

LEMMA GoodBind ==
  ASSUME NEW a, Good(a), NEW s, Vacant(a, s), NEW k \in Keys, ~Resident(a, k)
  PROVE  Good(Bind(a, k, s)) /\ Bind(a, k, s).tfp = a.tfp
<1> DEFINE b == Bind(a, k, s)
<1>1. a \in Allocators /\ Dictionary(a) /\ s \in Slots \ a.free
      /\ a.slot_key[s] = NoKey
  BY DEF Good, Vacant
<1>2. b \in Allocators
  BY <1>1 DEF Allocators, Bind
<1>3. /\ b.key_slot = [a.key_slot EXCEPT ![k] = s]
      /\ b.slot_key = [a.slot_key EXCEPT ![s] = k]
      /\ b.free = a.free /\ b.tfp = a.tfp
  BY <1>1 DEF Allocators, Bind
<1>4. Dictionary(b)
  <2>1. ASSUME NEW x \in Keys, NEW r \in Slots
        PROVE  b.key_slot[x] = r <=> b.slot_key[r] = x
    BY <1>1, <1>3, PoolFacts DEF Dictionary, Allocators, Resident
  <2> QED
    BY <1>1, <1>3, <2>1 DEF Dictionary, Allocators
<1> QED
  BY <1>2, <1>3, <1>4 DEF Good

Repinned(a, pi, un, ma) ==
  [a EXCEPT !.pinned = pi, !.until = un, !.mandatory = ma]
Redisplayed(a, re, cu) == [a EXCEPT !.refs = re, !.cur = cu]

LEMMA RepinGood ==
  ASSUME NEW a, Good(a), NEW pi \in Int, NEW un \in [Slots -> Int],
         NEW ma \in SUBSET Slots
  PROVE  Good(Repinned(a, pi, un, ma)) /\ Repinned(a, pi, un, ma).tfp = a.tfp
<1> DEFINE b == Repinned(a, pi, un, ma)
<1>1. a \in Allocators
  BY DEF Good
<1>2. /\ b \in Allocators /\ b.key_slot = a.key_slot /\ b.tfp = a.tfp
      /\ b.slot_key = a.slot_key /\ b.free = a.free
  BY <1>1 DEF Allocators, Repinned
<1> QED
  BY <1>2, GoodKept

LEMMA RedisplayGood ==
  ASSUME NEW a, Good(a), NEW re \in [Slots -> Int],
         NEW cu \in [Cells -> Slots \cup {NoSlot}]
  PROVE  Good(Redisplayed(a, re, cu)) /\ Redisplayed(a, re, cu).tfp = a.tfp
<1> DEFINE b == Redisplayed(a, re, cu)
<1>1. a \in Allocators
  BY DEF Good
<1>2. /\ b \in Allocators /\ b.key_slot = a.key_slot /\ b.tfp = a.tfp
      /\ b.slot_key = a.slot_key /\ b.free = a.free
  BY <1>1 DEF Allocators, Redisplayed
<1> QED
  BY <1>2, GoodKept

LEMMA GoodPin ==
  ASSUME NEW a, Good(a), NEW s, Vacant(a, s), NEW k \in Keys, ~Resident(a, k),
         NEW d \in Int, NEW m
  PROVE  Good(Pin(a, k, s, d, m)) /\ Pin(a, k, s, d, m).tfp = a.tfp
<1> DEFINE b == Bind(a, k, s)
<1>1. Good(b) /\ b.tfp = a.tfp /\ s \in Slots
  BY GoodBind DEF Vacant
<1> DEFINE un == [b.until EXCEPT ![s] = d]
           ma == IF m THEN b.mandatory \cup {s} ELSE b.mandatory \ {s}
           pi == b.pinned + 1
<1>2. un \in [Slots -> Int] /\ ma \in SUBSET Slots /\ pi \in Int
  BY <1>1 DEF Good, Allocators
<1>3. b \in Allocators
  BY <1>1 DEF Good
<1>4. Pin(a, k, s, d, m) =
        [b EXCEPT !.until = un, !.mandatory = ma, !.pinned = pi]
  BY DEF Pin
<1> HIDE DEF b, un, ma, pi
<1>5. Pin(a, k, s, d, m) = Repinned(b, pi, un, ma)
  BY <1>3, <1>4 DEF Allocators, Repinned
<1> QED
  BY <1>1, <1>2, <1>5, RepinGood

LEMMA GoodUpgrade ==
  ASSUME NEW a, Good(a), NEW s \in Slots, NEW d \in Int
  PROVE  Good(Upgrade(a, s, d)) /\ Upgrade(a, s, d).tfp = a.tfp
<1> DEFINE pi == IF a.until[s] < 0 THEN a.pinned + 1 ELSE a.pinned
           un == [a.until EXCEPT ![s] = IF a.until[s] >= d THEN a.until[s]
                                        ELSE d]
           ma == a.mandatory \cup {s}
<1>1. un \in [Slots -> Int] /\ ma \in SUBSET Slots /\ pi \in Int
  BY DEF Good, Allocators
<1>2. Upgrade(a, s, d) = Repinned(a, pi, un, ma)
  BY DEF Upgrade, Repinned
<1> HIDE DEF pi, un, ma
<1> QED
  BY <1>1, <1>2, RepinGood

LEMMA GoodUnpin ==
  ASSUME NEW a, Good(a), NEW s \in Slots, NEW f
  PROVE  Good(Unpin(a, s, f))
<1> DEFINE pi == IF a.until[s] >= 0 THEN a.pinned - 1 ELSE a.pinned
           un == [a.until EXCEPT ![s] = -1]
           ma == a.mandatory \ {s}
<1>1. un \in [Slots -> Int] /\ ma \in SUBSET Slots /\ pi \in Int
  BY DEF Good, Allocators
<1>2. Unpin(a, s, f) = a \/ Unpin(a, s, f) = Repinned(a, pi, un, ma)
  BY DEF Unpin, Repinned
<1> HIDE DEF pi, un, ma
<1> QED
  BY <1>1, <1>2, RepinGood

LEMMA GoodShow ==
  ASSUME NEW a, Good(a), NEW c \in Cells, NEW s \in Slots
  PROVE  Good(Show(a, c, s))
<1> DEFINE re == [x \in Slots |->
                    a.refs[x] + (IF x = s THEN 1 ELSE 0)
                              - (IF x = a.cur[c] THEN 1 ELSE 0)]
           cu == [a.cur EXCEPT ![c] = s]
<1>1. re \in [Slots -> Int] /\ cu \in [Cells -> Slots \cup {NoSlot}]
  BY DEF Good, Allocators
<1>2. Show(a, c, s) = Redisplayed(a, re, cu)
  BY DEF Show, Redisplayed
<1> HIDE DEF re, cu
<1> QED
  BY <1>1, <1>2, RedisplayGood

LEMMA GoodBegin ==
  ASSUME NEW a, Good(a), NEW keys \in SUBSET Keys
  PROVE  Good(Begin(a, keys))
<1>1. {a.prev[c] : c \in Cells} \ {NoSlot} \subseteq Slots
  BY DEF Good, Allocators
<1>2. {a.key_slot[k] : k \in keys} \ {NoSlot} \subseteq Slots
  BY DEF Good, Allocators
<1> QED
  BY <1>1, <1>2 DEF Good, Allocators, Dictionary, Begin

LEMMA GoodEnd ==
  ASSUME NEW a, Good(a)
  PROVE  Good(End(a)) /\ End(a).tfp = {}
  BY DEF Good, Allocators, Dictionary, End

LEMMA GoodRebase ==
  ASSUME NEW a, Good(a), NEW from,
         \A c \in Cells \cap DOMAIN from : from[c] \in Cells
  PROVE  Good(Rebase(a, from)) /\ Rebase(a, from).tfp = a.tfp
<1> DEFINE cur == [c \in Cells |-> IF c \in DOMAIN from THEN a.cur[from[c]]
                                   ELSE NoSlot]
           re == [s \in Slots |-> Cardinality({c \in Cells : cur[c] = s})]
<1>1. cur \in [Cells -> Slots \cup {NoSlot}]
  BY DEF Good, Allocators
<1>2. re \in [Slots -> Int]
  <2> SUFFICES ASSUME NEW s \in Slots
               PROVE  Cardinality({c \in Cells : cur[c] = s}) \in Int
    OBVIOUS
  <2> DEFINE S == {c \in Cells : cur[c] = s}
  <2>1. S \subseteq Cells
    OBVIOUS
  <2> HIDE DEF S
  <2>2. IsFiniteSet(S)
    BY <2>1, FS_Subset, TileAllocAssumption
  <2>3. Cardinality(S) \in Nat
    BY <2>2, FS_CardinalityType
  <2> QED
    BY <2>3 DEF S
<1>3. Rebase(a, from) = [a EXCEPT !.cur = cur, !.refs = re]
  BY DEF Rebase
<1> HIDE DEF cur, re
<1>4. Rebase(a, from) = Redisplayed(a, re, cur)
  BY <1>3 DEF Good, Allocators, Redisplayed
<1> QED
  BY <1>1, <1>2, <1>4, RedisplayGood

----------------------------------------------------------------------------
(* Placing and prefetching *)

Flagged(a, te, rc) == [a EXCEPT !.tearing = te, !.reclaimed = rc]

LEMMA GoodFlagged ==
  ASSUME NEW a, Good(a), NEW te \in BOOLEAN, NEW rc \in BOOLEAN
  PROVE  /\ Good(Flagged(a, te, rc))
         /\ \A s : Vacant(a, s) => Vacant(Flagged(a, te, rc), s)
         /\ \A k : ~Resident(a, k) => ~Resident(Flagged(a, te, rc), k)
<1> DEFINE b == Flagged(a, te, rc)
<1>1. a \in Allocators
  BY DEF Good
<1>2. /\ b \in Allocators /\ b.key_slot = a.key_slot
      /\ b.slot_key = a.slot_key /\ b.free = a.free
  BY <1>1 DEF Allocators, Flagged
<1> HIDE DEF b
<1>3. Good(b)
  BY <1>2, GoodKept
<1> QED
  BY <1>2, <1>3 DEF Vacant, Resident, b

LEMMA AllocIn ==
  ASSUME NEW a, Good(a), NEW f, CanAlloc(a, f), NEW s \in AllocSlots(a, f)
  PROVE  IF a.free # {} THEN s \in a.free
         ELSE /\ Tier(a, f) \in 1 .. 5 /\ s \in Tiers(a, f)[Tier(a, f)]
              /\ s \in Slots \ a.free
<1>1. a \in Allocators /\ a.free \subseteq Slots
  BY DEF Good, Allocators
<1>2. CASE a.free # {}
  BY <1>1, <1>2, LowestIn DEF AllocSlots
<1>3. CASE a.free = {}
  <2> DEFINE S == Tiers(a, f)[Tier(a, f)]
  <2>1. Tier(a, f) \in 1 .. 5 /\ S # {} /\ S \subseteq Slots
    BY <1>3, TierFound
  <2>2. s \in S \/ s = First(a, S)
    BY <1>3 DEF AllocSlots
  <2> HIDE DEF S
  <2>3. s \in S
    BY <1>1, <2>1, <2>2, FirstIn
  <2> QED
    BY <1>3, <2>1, <2>3 DEF S
<1> QED
  BY <1>2, <1>3

LEMMA GoodAlloc ==
  ASSUME NEW a, Good(a), NEW f, CanAlloc(a, f), NEW s \in AllocSlots(a, f),
         NEW k \in Keys, ~Resident(a, k)
  PROVE  /\ Good(AllocState(a, f, s))
         /\ Vacant(AllocState(a, f, s), s)
         /\ ~Resident(AllocState(a, f, s), k)
<1> DEFINE t == Tier(a, f)
<1>1. a \in Allocators /\ a.free \subseteq Slots
  BY DEF Good, Allocators
<1>2. CASE a.free # {}
  <2>1. s \in a.free
    BY <1>2, AllocIn
  <2>2. AllocState(a, f, s) = [a EXCEPT !.free = @ \ {s}]
    BY <1>2 DEF AllocState
  <2> QED
    BY <2>1, <2>2, GoodPop
<1>3. CASE a.free = {}
  <2>1. s \in Slots \ a.free
    BY <1>3, AllocIn
  <2> DEFINE b  == IF t = 5 THEN Evict(a, s) ELSE Take(a, s)
             te == b.tearing \/ t >= 4
             rc == b.reclaimed \/ t = 3
  <2>2. Good(b) /\ Vacant(b, s) /\ ~Resident(b, k)
    BY <2>1, GoodEvict, GoodTake
  <2>3. te \in BOOLEAN /\ rc \in BOOLEAN
    BY <2>2 DEF Good, Allocators
  <2>4. AllocState(a, f, s) = [b EXCEPT !.tearing = te, !.reclaimed = rc]
    BY <1>3 DEF AllocState
  <2> HIDE DEF b, te, rc
  <2>5. AllocState(a, f, s) = Flagged(b, te, rc)
    BY <2>4 DEF Flagged
  <2> QED
    BY <2>2, <2>3, <2>5, GoodFlagged
<1> QED
  BY <1>2, <1>3

LEMMA GoodPlace ==
  ASSUME NEW a, Good(a), NEW c \in Cells, NEW k \in Keys, NEW f,
         CanAlloc(a, f), NEW s \in PlaceSlots(a, k, f)
  PROVE  Good(Place(a, c, k, f, s))
<1> DEFINE b == IF Resident(a, k) THEN Unpin(a, s, f)
                ELSE Bind(AllocState(a, f, s), k, s)
<1>1. CASE Resident(a, k)
  <2>1. s \in Slots
    BY <1>1 DEF PlaceSlots, Resident, Good, Allocators
  <2> QED
    BY <1>1, <2>1, GoodUnpin, GoodShow DEF Place
<1>2. CASE ~Resident(a, k)
  <2>1. s \in AllocSlots(a, f)
    BY <1>2 DEF PlaceSlots
  <2>2. Good(b) /\ s \in Slots
    BY <1>2, <2>1, GoodAlloc, GoodBind DEF Vacant
  <2> QED
    BY <2>2, GoodShow DEF Place
<1> QED
  BY <1>1, <1>2

LEMMA SearchFinds ==
  ASSUME NEW a, Good(a), NEW f, NEW m, NEW avoid, CanSearch(a, f, m, avoid)
  PROVE  LET s == SearchSlot(a, f, m, avoid)
         IN  /\ s \in Slots
             /\ IF a.free # {} THEN s \in a.free
                ELSE s \in Searched(a, f, m, avoid)
<1>1. a \in Allocators /\ a.free \subseteq Slots
  BY DEF Good, Allocators
<1>2. Searched(a, f, m, avoid) \subseteq Slots
  BY DEF Searched
<1>3. CASE a.free # {}
  BY <1>1, <1>3, LowestIn DEF SearchSlot
<1>4. CASE a.free = {}
  <2>1. Searched(a, f, m, avoid) # {}
    BY <1>4 DEF CanSearch
  <2> QED
    BY <1>1, <1>2, <1>4, <2>1, FirstIn DEF SearchSlot
<1> QED
  BY <1>3, <1>4

LEMMA GoodForced ==
  ASSUME NEW a, Good(a), NEW k \in Keys, ~Resident(a, k), NEW s \in Slots,
         NEW f, NEW d \in Int, NEW m, NEW avoid,
         NEW relocate
  PROVE  /\ Good(Forced(a, k, s, f, d, m, avoid, relocate))
         /\ Forced(a, k, s, f, d, m, avoid, relocate).tfp = a.tfp
<1>1. CASE ~Available(a, s, f, avoid)
  BY <1>1 DEF Forced
<1>2. CASE Available(a, s, f, avoid) /\ s \in a.free
  <2> DEFINE p == [a EXCEPT !.free = @ \ {s}]
  <2>1. Good(p) /\ Vacant(p, s) /\ p.tfp = a.tfp /\ ~Resident(p, k)
    BY <1>2, GoodPop
  <2>2. Forced(a, k, s, f, d, m, avoid, relocate) = Pin(p, k, s, d, m)
    BY <1>2 DEF Forced
  <2> HIDE DEF p
  <2> QED
    BY <2>1, <2>2, GoodPin
<1>3. CASE Available(a, s, f, avoid) /\ s \notin a.free
  <2> DEFINE p == IF relocate THEN Evict(a, s) ELSE Take(a, s)
  <2>1. Good(p) /\ Vacant(p, s) /\ p.tfp = a.tfp /\ ~Resident(p, k)
    BY <1>3, GoodEvict, GoodTake
  <2>2. Forced(a, k, s, f, d, m, avoid, relocate) = Pin(p, k, s, d, m)
    BY <1>3 DEF Forced
  <2> HIDE DEF p
  <2> QED
    BY <2>1, <2>2, GoodPin
<1> QED
  BY <1>1, <1>2, <1>3

\* A slot that the clock finds is accepted when it is given, and leaves the
\* same state; a slot of the block is accepted whatever is avoided less.
LEMMA Accepted ==
  ASSUME NEW a, Good(a), a.tfp = {}, NEW k, NEW f, NEW d, NEW m,
         NEW avoid, CanSearch(a, f, m, avoid)
  PROVE  Organic(a, k, f, d, m, avoid)
           = Forced(a, k, SearchSlot(a, f, m, avoid), f, d, m, {}, FALSE)
<1> DEFINE s == SearchSlot(a, f, m, avoid)
<1>1. s \in Slots /\ (IF a.free # {} THEN s \in a.free
                      ELSE s \in Searched(a, f, m, avoid))
  BY SearchFinds
<1>2. Available(a, s, f, {})
  BY <1>1 DEF Available, Searched, Held
<1> HIDE DEF s
<1> QED
  BY <1>2 DEF Organic, Forced, s

LEMMA Relocated ==
  ASSUME NEW a, NEW k, NEW s, NEW f, NEW d, NEW m, NEW avoid,
         Available(a, s, f, avoid)
  PROVE  Forced(a, k, s, f, d, m, avoid, TRUE)
           = Forced(a, k, s, f, d, m, {}, TRUE)
<1>1. Available(a, s, f, {})
  BY DEF Available
<1> QED
  BY <1>1 DEF Forced

----------------------------------------------------------------------------
(* The inductive invariant *)

\* A fade frame that prefetches has chosen its block, within the pool.
BlockChosen ==
  /\ block = NoSlot \/ block \in 0 .. Pool - FadeCount
  /\ phase = "prefetch" /\ frame \in FadeFrames /\ way = 0 => block # NoSlot

StreamInv ==
  /\ Good(sim) /\ Lockstep
  /\ phase # "place" => sim.tfp = {}
  /\ sel \in [Cells -> Keys \cup {NoKey}] /\ pos \in Nat /\ frame \in Nat
  /\ BlockChosen

LEMMA StreamFacts ==
  /\ Plane \in Nat \ {0} /\ Cells = 0 .. Plane - 1
  /\ FadeCount \in 1 .. Pool /\ FadeKeys \subseteq Keys
  /\ Deadline \in Int /\ NoKey \notin Keys
<1>1. Plane \in Nat
  BY FS_CardinalityType, TileAllocAssumption DEF Plane
<1>2. Plane # 0 /\ Cells = 0 .. Plane - 1
  BY <1>1, TileStreamAssumption
<1>3. FadeCount \in Nat /\ FadeCount # 0
  BY FS_CardinalityType, FS_EmptySet, TileStreamAssumption DEF FadeCount
<1>4. FadeCount <= Pool
  BY TileStreamAssumption DEF FadeCount
<1> QED
  BY <1>1, <1>2, <1>3, <1>4, TileAllocAssumption, TileStreamAssumption

LEMMA StreamInit == Init => StreamInv
  BY GoodFresh, PoolFacts
  DEF Init, StreamInv, Lockstep, Fresh, Nothing, BlockChosen

LEMMA StreamSettle == StreamInv /\ Settle => StreamInv'
<1> SUFFICES ASSUME StreamInv, Settle PROVE StreamInv'
  OBVIOUS
<1> DEFINE keys == {sel[c] : c \in Cells} \ {NoKey}
<1>1. keys \in SUBSET Keys
  BY DEF StreamInv
<1>2. sim' = Begin(sim, keys) /\ pack' = Begin(pack, keys)
  BY DEF Settle
<1> HIDE DEF keys
<1>3. Good(sim') /\ pack' = sim'
  BY <1>1, <1>2, GoodBegin DEF StreamInv, Lockstep
<1> QED
  BY <1>3 DEF StreamInv, Lockstep, Settle, BlockChosen

LEMMA StreamPlace ==
  ASSUME StreamInv, NEW c \in Cells, PlaceNext(c)
  PROVE  StreamInv'
<1>1. sel[c] \in Keys
  BY DEF StreamInv, PlaceNext
<1>2. PICK s \in PlaceSlots(sim, sel[c], frame) :
        /\ sim' = Place(sim, c, sel[c], frame, s)
        /\ pack' = Place(pack, c, sel[c], frame, s)
  BY DEF PlaceNext
<1>3. Good(sim') /\ pack' = sim'
  BY <1>1, <1>2, GoodPlace DEF StreamInv, Lockstep, PlaceNext
<1> QED
  BY <1>3 DEF StreamInv, Lockstep, PlaceNext, BlockChosen

LEMMA StreamPlaced == StreamInv /\ Placed => StreamInv'
<1> SUFFICES ASSUME StreamInv, Placed PROVE StreamInv'
  OBVIOUS
<1>1. Good(sim') /\ sim'.tfp = {} /\ pack' = sim'
  BY GoodEnd DEF StreamInv, Lockstep, Placed
<1>2. BlockStart(sim', FadeCount, frame) \in 0 .. Pool - FadeCount
  BY StreamFacts, PoolFacts DEF BlockStart
<1>3. BlockChosen'
  BY <1>2, StreamFacts, PoolFacts
  DEF Placed, StreamInv, BlockChosen, NoSlot
<1> QED
  BY <1>1, <1>3 DEF StreamInv, Lockstep, Placed

LEMMA StreamSoft ==
  ASSUME StreamInv, NEW k \in Keys, NEW d \in 1 .. MaxFrame, NEW avoid,
         Soft(k, d, avoid)
  PROVE  StreamInv'
<1> DEFINE s == SearchSlot(sim, frame, FALSE, avoid)
<1>1. /\ ~Resident(sim, k) /\ CanSearch(sim, frame, FALSE, avoid)
      /\ sim' = Organic(sim, k, frame, d, FALSE, avoid)
      /\ pack' = Forced(pack, k, s, frame, d, FALSE, {}, FALSE)
  BY DEF Soft, Replay
<1>2. Good(sim) /\ sim.tfp = {} /\ pack = sim
  BY DEF StreamInv, Lockstep, Soft
<1>3. s \in Slots
  BY <1>1, <1>2, SearchFinds
<1> HIDE DEF s
<1>4. sim' = Forced(sim, k, s, frame, d, FALSE, {}, FALSE)
  BY <1>1, <1>2, Accepted DEF s
<1>5. d \in Int
  BY TileStreamAssumption
<1>6. Good(sim') /\ sim'.tfp = {}
  <2> DEFINE no == FALSE
             b  == Forced(sim, k, s, frame, d, no, {}, no)
  <2>1. sim' = b
    BY <1>4
  <2> HIDE DEF no
  <2>2. Good(b) /\ b.tfp = sim.tfp
    BY <1>1, <1>2, <1>3, <1>5, GoodForced
  <2> QED
    BY <1>2, <2>1, <2>2
<1>7. pack' = sim'
  BY <1>1, <1>2, <1>4
<1> QED
  BY <1>6, <1>7 DEF StreamInv, Lockstep, Soft, Others, BlockChosen

LEMMA StreamFade ==
  ASSUME StreamInv, NEW k \in FadeKeys, NEW avoid, Fade(k, avoid)
  PROVE  StreamInv'
<1> DEFINE room == BlockFree(sim, frame, block, FadeCount,
                     {sim.key_slot[x] : x \in FadeKeys \ Lost}, avoid)
           s    == IF room # {} THEN Lowest(room)
                   ELSE SearchSlot(sim, frame, TRUE, avoid)
<1>1. Good(sim) /\ sim.tfp = {} /\ pack = sim /\ k \in Keys /\ Deadline \in Int
  BY StreamFacts DEF StreamInv, Lockstep, Fade
<1>2. room \subseteq Slots /\ \A x \in room : Available(sim, x, frame, avoid)
  <2>1. block \in 0 .. Pool - FadeCount
    BY DEF Fade, StreamInv, BlockChosen
  <2>2. block .. block + FadeCount - 1 \subseteq Slots
    BY <2>1, StreamFacts, PoolFacts DEF Slots
  <2> QED
    BY <2>2 DEF BlockFree
<1>3. Good(sim') /\ sim'.tfp = {} /\ pack' = sim'
  <2>1. CASE /\ Resident(sim, k)
             /\ sim'  = Upgrade(sim, sim.key_slot[k], Deadline)
             /\ pack' = Upgrade(pack, sim.key_slot[k], Deadline)
    <3>1. sim.key_slot[k] \in Slots
      BY <1>1, <2>1 DEF Resident, Good, Allocators
    <3> QED
      BY <1>1, <2>1, <3>1, GoodUpgrade
  <2>2. CASE /\ ~Resident(sim, k) /\ room # {}
             /\ sim' = Forced(sim, k, s, frame, Deadline, TRUE, avoid, TRUE)
             /\ pack' = Forced(pack, k, s, frame, Deadline, TRUE, {}, TRUE)
    <3>1. s \in room
      BY <1>2, <2>2, LowestIn
    <3> HIDE DEF s, room
    <3>2. s \in Slots /\ Available(sim, s, frame, avoid)
      BY <1>2, <3>1
    <3>3. sim' = Forced(sim, k, s, frame, Deadline, TRUE, {}, TRUE)
      BY <2>2, <3>2, Relocated
    <3>4. Good(sim') /\ sim'.tfp = {}
      <4> DEFINE yes == TRUE
                 b   == Forced(sim, k, s, frame, Deadline, yes, {}, yes)
      <4>1. sim' = b
        BY <3>3
      <4> HIDE DEF yes
      <4>2. Good(b) /\ b.tfp = sim.tfp
        BY <1>1, <2>2, <3>2, GoodForced
      <4> QED
        BY <1>1, <4>1, <4>2
    <3> QED
      BY <1>1, <2>2, <3>3, <3>4
  <2>3. CASE /\ ~Resident(sim, k) /\ room = {}
             /\ CanSearch(sim, frame, TRUE, avoid)
             /\ sim' = Organic(sim, k, frame, Deadline, TRUE, avoid)
             /\ pack' = Forced(pack, k, s, frame, Deadline, TRUE, {}, FALSE)
    <3> DEFINE r == SearchSlot(sim, frame, TRUE, avoid)
    <3>1. s = r
      BY <2>3
    <3>2. r \in Slots
      BY <1>1, <2>3, SearchFinds
    <3> HIDE DEF s, room, r
    <3>3. sim' = Forced(sim, k, r, frame, Deadline, TRUE, {}, FALSE)
      BY <1>1, <2>3, Accepted DEF r
    <3>4. Good(sim') /\ sim'.tfp = {}
      <4> DEFINE yes == TRUE
                 no  == FALSE
                 b   == Forced(sim, k, r, frame, Deadline, yes, {}, no)
      <4>1. sim' = b
        BY <3>3
      <4> HIDE DEF yes, no
      <4>2. Good(b) /\ b.tfp = sim.tfp
        BY <1>1, <2>3, <3>2, GoodForced
      <4> QED
        BY <1>1, <4>1, <4>2
    <3> QED
      BY <1>1, <2>3, <3>1, <3>3, <3>4
  <2> QED
    BY <2>1, <2>2, <2>3 DEF Fade, Replay
<1> QED
  BY <1>3 DEF StreamInv, Lockstep, Fade, Others, BlockChosen

LEMMA StreamMoved ==
  ASSUME StreamInv, phase = "prefetch", NEW from,
         \A c \in Cells \cap DOMAIN from : from[c] \in Cells, Moved(from)
  PROVE  Good(sim') /\ sim'.tfp = {} /\ pack' = sim'
<1>1. sim' = Rebase(sim, from) /\ pack' = Rebase(pack, from)
  BY DEF Moved
<1>2. Good(sim) /\ sim.tfp = {} /\ pack = sim
  BY DEF StreamInv, Lockstep
<1> QED
  BY <1>1, <1>2, GoodRebase

LEMMA StreamStep == StreamInv /\ [Next]_vars => StreamInv'
<1> SUFFICES ASSUME StreamInv, [Next]_vars PROVE StreamInv'
  OBVIOUS
<1>1. ASSUME NEW c \in Cells, NEW k \in Keys, Decide(c, k) PROVE StreamInv'
  BY <1>1 DEF Decide, StreamInv, Lockstep, BlockChosen
<1>2. ASSUME NEW k \in Keys, DecideGuard(k) PROVE StreamInv'
  BY <1>2 DEF DecideGuard, StreamInv, Lockstep, BlockChosen
<1>3. CASE NextNormal
  BY <1>3 DEF NextNormal, Flip, StreamInv, Lockstep, BlockChosen
<1>4. CASE NextScroll
  <2> DEFINE from == [c \in Primary(pos') \cup {edge'} |-> c]
  <2>1. Moved(from) /\ phase = "prefetch"
    BY <1>4 DEF NextScroll, Flip
  <2>2. \A c \in Cells \cap DOMAIN from : from[c] \in Cells
    OBVIOUS
  <2> HIDE DEF from
  <2>3. Good(sim') /\ sim'.tfp = {} /\ pack' = sim'
    BY <2>1, <2>2, StreamMoved
  <2>4. pos' \in Nat
    <3>1. PICK move \in Moves : pos' = (pos + move[2] * move[3]) % Plane
      BY <1>4 DEF NextScroll
    <3>2. pos + move[2] * move[3] \in Int
      BY <3>1, TileStreamAssumption DEF StreamInv
    <3> QED
      BY <3>1, <3>2, StreamFacts
  <2> QED
    BY <1>4, <2>3, <2>4 DEF NextScroll, Flip, StreamInv, Lockstep, BlockChosen
<1>5. CASE NextReturn
  <2> DEFINE from == [c \in 0 .. Columns - 1 |-> (pos + c) % Plane]
  <2>1. Moved(from) /\ phase = "prefetch"
    BY <1>5 DEF NextReturn, Flip
  <2>2. \A c \in Cells \cap DOMAIN from : from[c] \in Cells
    BY StreamFacts DEF StreamInv
  <2> HIDE DEF from
  <2>3. Good(sim') /\ sim'.tfp = {} /\ pack' = sim'
    BY <2>1, <2>2, StreamMoved
  <2> QED
    BY <1>5, <2>3 DEF NextReturn, Flip, StreamInv, Lockstep, BlockChosen
<1>6. CASE UNCHANGED vars
  BY <1>6 DEF vars, StreamInv, Lockstep, BlockChosen
<1> QED
  BY <1>1, <1>2, <1>3, <1>4, <1>5, <1>6, StreamSettle, StreamPlace,
     StreamPlaced, StreamSoft, StreamFade DEF Next

\* However long the movie and whatever it shows, the packer accepts every
\* recorded slot and has the encoder's allocator after every step.
THEOREM PackerFollows == Spec => []Lockstep
<1>1. StreamInv => Lockstep
  BY DEF StreamInv
<1> QED
  BY <1>1, StreamInit, StreamStep, PTL DEF Spec

\* The dictionary from patterns to slots never has two of one, and no free
\* slot holds a pattern.
THEOREM DictionaryKept == Spec => []Dictionary(sim)
<1>1. StreamInv => Dictionary(sim)
  BY DEF StreamInv, Good
<1> QED
  BY <1>1, StreamInit, StreamStep, PTL DEF Spec

----------------------------------------------------------------------------
(* A pinned fade reference.  Each operation that does not take its slot     *)
(* leaves it pinned, and only a visible update with no other slot takes it. *)

Pinned(a, k) == /\ Resident(a, k) /\ a.key_slot[k] \in a.mandatory
                /\ a.until[a.key_slot[k]] >= Deadline

\* b has k where a had it, under the same pin or a later one.
Keeps(a, b, k) ==
  /\ b.key_slot[k] = a.key_slot[k]
  /\ a.key_slot[k] \in a.mandatory => a.key_slot[k] \in b.mandatory
  /\ b.until[a.key_slot[k]] >= a.until[a.key_slot[k]]

LEMMA PinnedSlot ==
  ASSUME NEW a, Good(a), NEW k \in Keys, Pinned(a, k)
  PROVE  /\ a.key_slot[k] \in Slots \ a.free
         /\ a.slot_key[a.key_slot[k]] = k
         /\ a.until[a.key_slot[k]] \in Int
         /\ \A f \in Int : f < Deadline => a.key_slot[k] \in Held(a, f)
<1> DEFINE s == a.key_slot[k]
<1>1. a \in Allocators /\ Dictionary(a)
  BY DEF Good
<1>2. s \in Slots /\ s \in a.mandatory /\ a.until[s] >= Deadline
  BY <1>1 DEF Pinned, Resident, Allocators
<1>3. a.slot_key[s] = k /\ a.until[s] \in Int
  BY <1>1, <1>2 DEF Dictionary, Allocators
<1>4. s \notin a.free
  BY <1>1, <1>3, PoolFacts DEF Dictionary
<1>5. ASSUME NEW f \in Int, f < Deadline PROVE s \in Held(a, f)
  BY <1>2, <1>3, <1>5, StreamFacts DEF Held
<1> HIDE DEF s
<1> QED
  BY <1>2, <1>3, <1>4, <1>5 DEF s

LEMMA KeepsPinned ==
  ASSUME NEW a, Good(a), NEW b, Good(b), NEW k \in Keys, Pinned(a, k),
         Keeps(a, b, k)
  PROVE  Pinned(b, k)
<1> DEFINE s == a.key_slot[k]
<1>1. /\ s \in Slots /\ s # NoSlot /\ s \in a.mandatory
      /\ a.until[s] >= Deadline /\ a.until[s] \in Int
  BY PinnedSlot, PoolFacts DEF Pinned
<1>2. b.key_slot[k] = s /\ s \in b.mandatory /\ b.until[s] >= a.until[s]
  BY <1>1 DEF Keeps
<1>3. b.until[s] \in Int /\ Deadline \in Int
  BY <1>1, StreamFacts DEF Good, Allocators
<1> HIDE DEF s
<1>4. b.until[s] >= Deadline
  BY <1>1, <1>2, <1>3
<1> QED
  BY <1>1, <1>2, <1>4 DEF Pinned, Resident

LEMMA KeepsEvict ==
  ASSUME NEW a, Good(a), NEW k \in Keys, Pinned(a, k),
         NEW s \in Slots, s # a.key_slot[k]
  PROVE  Keeps(a, Evict(a, s), k)
<1> DEFINE b == Evict(a, s)
<1>1. a \in Allocators /\ a.slot_key[s] # k
  BY DEF Good, Dictionary
<1>2. /\ b.key_slot[k] = a.key_slot[k] /\ b.mandatory = a.mandatory \ {s}
      /\ b.until = [a.until EXCEPT ![s] = -1]
  BY <1>1 DEF Evict, Allocators
<1>3. b.until[a.key_slot[k]] = a.until[a.key_slot[k]]
  BY <1>1, <1>2, PinnedSlot DEF Allocators
<1>4. /\ a.key_slot[k] \in a.mandatory => a.key_slot[k] \in b.mandatory
      /\ b.until[a.key_slot[k]] >= a.until[a.key_slot[k]]
  BY <1>2, <1>3, PinnedSlot
<1> HIDE DEF b
<1>5. Keeps(a, b, k)
  BY <1>2, <1>4 DEF Keeps
<1> QED
  BY <1>5 DEF b

LEMMA KeepsTake ==
  ASSUME NEW a, Good(a), NEW k \in Keys, Pinned(a, k),
         NEW s \in Slots \ a.free, s # a.key_slot[k]
  PROVE  Keeps(a, Take(a, s), k)
<1> DEFINE b == Evict(a, s)
<1>1. Keeps(a, b, k) /\ b \in Allocators
  BY KeepsEvict, GoodEvict DEF Good
<1> HIDE DEF b
<1>2. Take(a, s) = [b EXCEPT !.hand = (s + 1) % Pool]
  BY DEF Take, b
<1>3. /\ Take(a, s).key_slot = b.key_slot /\ Take(a, s).until = b.until
      /\ Take(a, s).mandatory = b.mandatory
  BY <1>1, <1>2 DEF Allocators
<1> QED
  BY <1>1, <1>3 DEF Keeps

LEMMA KeepsPop ==
  ASSUME NEW a, Good(a), NEW k \in Keys, Pinned(a, k), NEW s
  PROVE  Keeps(a, [a EXCEPT !.free = @ \ {s}], k)
  BY PinnedSlot DEF Good, Allocators, Keeps

LEMMA KeepsTwice ==
  ASSUME NEW a, Good(a), NEW b, Good(b), NEW c, Good(c), NEW k \in Keys,
         Pinned(a, k), Keeps(a, b, k), Keeps(b, c, k)
  PROVE  Keeps(a, c, k)
<1>1. Pinned(b, k) /\ a.key_slot[k] \in Slots
  BY KeepsPinned, PinnedSlot
<1> QED
  BY <1>1 DEF Keeps, Good, Allocators

LEMMA KeepsRepinned ==
  ASSUME NEW a, Good(a), NEW k \in Keys, Pinned(a, k), NEW pi \in Int,
         NEW un \in [Slots -> Int], NEW ma \in SUBSET Slots,
         a.key_slot[k] \in ma, un[a.key_slot[k]] >= a.until[a.key_slot[k]]
  PROVE  Keeps(a, Repinned(a, pi, un, ma), k)
<1> DEFINE b == Repinned(a, pi, un, ma)
<1>1. a \in Allocators
  BY DEF Good
<1>2. b.key_slot = a.key_slot /\ b.until = un /\ b.mandatory = ma
  BY <1>1 DEF Repinned, Allocators
<1> HIDE DEF b
<1>3. Keeps(a, b, k)
  BY <1>2 DEF Keeps
<1> QED
  BY <1>3 DEF b

LEMMA KeepsBind ==
  ASSUME NEW a, Good(a), NEW k \in Keys, Pinned(a, k), NEW s,
         NEW x \in Keys, x # k
  PROVE  Keeps(a, Bind(a, x, s), k)
<1> DEFINE b == Bind(a, x, s)
<1>1. a \in Allocators
  BY DEF Good
<1>2. /\ b.key_slot = [a.key_slot EXCEPT ![x] = s]
      /\ b.until = a.until /\ b.mandatory = a.mandatory
  BY <1>1 DEF Bind, Allocators
<1>3. b.key_slot[k] = a.key_slot[k]
  BY <1>1, <1>2 DEF Allocators
<1> HIDE DEF b
<1>4. Keeps(a, b, k)
  BY <1>2, <1>3, PinnedSlot DEF Keeps
<1> QED
  BY <1>4 DEF b

LEMMA KeepsShow ==
  ASSUME NEW a, Good(a), NEW k \in Keys, Pinned(a, k), NEW c, NEW s
  PROVE  Keeps(a, Show(a, c, s), k)
<1>1. a \in Allocators
  BY DEF Good
<1>2. /\ Show(a, c, s).key_slot = a.key_slot
      /\ Show(a, c, s).until = a.until
      /\ Show(a, c, s).mandatory = a.mandatory
  BY <1>1 DEF Show, Allocators
<1> QED
  BY <1>2, PinnedSlot DEF Keeps

LEMMA KeepsUnpin ==
  ASSUME NEW a, Good(a), NEW k \in Keys, Pinned(a, k), NEW s \in Slots,
         NEW f \in Int, f < Deadline
  PROVE  Keeps(a, Unpin(a, s, f), k)
<1>1. CASE s = a.key_slot[k]
  <2>1. s \in a.mandatory /\ f < a.until[s]
    BY <1>1, PinnedSlot, StreamFacts DEF Pinned
  <2>2. Unpin(a, s, f) = a
    BY <2>1 DEF Unpin
  <2> QED
    BY <2>2, PinnedSlot DEF Keeps
<1>2. CASE s # a.key_slot[k]
  <2> DEFINE pi == IF a.until[s] >= 0 THEN a.pinned - 1 ELSE a.pinned
             un == [a.until EXCEPT ![s] = -1]
             ma == a.mandatory \ {s}
  <2>1. un \in [Slots -> Int] /\ ma \in SUBSET Slots /\ pi \in Int
    BY DEF Good, Allocators
  <2>2. un[a.key_slot[k]] >= a.until[a.key_slot[k]] /\ a.key_slot[k] \in ma
    BY <1>2, PinnedSlot DEF Good, Allocators, Pinned
  <2>3. Unpin(a, s, f) = a \/ Unpin(a, s, f) = Repinned(a, pi, un, ma)
    BY DEF Unpin, Repinned
  <2>4. Keeps(a, a, k)
    BY PinnedSlot DEF Keeps
  <2> HIDE DEF pi, un, ma
  <2> QED
    BY <2>1, <2>2, <2>3, <2>4, KeepsRepinned
<1> QED
  BY <1>1, <1>2

LEMMA KeepsPin ==
  ASSUME NEW a, Good(a), NEW k \in Keys, Pinned(a, k), NEW x \in Keys,
         ~Resident(a, x), NEW s, Vacant(a, s), NEW d \in Int, NEW m
  PROVE  Keeps(a, Pin(a, x, s, d, m), k)
<1> DEFINE b  == Bind(a, x, s)
           un == [b.until EXCEPT ![s] = d]
           ma == IF m THEN b.mandatory \cup {s} ELSE b.mandatory \ {s}
           pi == b.pinned + 1
<1>1. Good(b) /\ s \in Slots /\ x # k /\ s # a.key_slot[k]
  BY GoodBind, PinnedSlot, PoolFacts DEF Vacant, Pinned
<1>2. Keeps(a, b, k)
  BY <1>1, KeepsBind
<1>3. Pinned(b, k) /\ b.key_slot[k] = a.key_slot[k]
  BY <1>1, <1>2, KeepsPinned DEF Keeps
<1>4. un \in [Slots -> Int] /\ ma \in SUBSET Slots /\ pi \in Int
  BY <1>1 DEF Good, Allocators
<1>5. b.key_slot[k] \in ma /\ un[b.key_slot[k]] >= b.until[b.key_slot[k]]
  <2>1. /\ b.key_slot[k] \in Slots /\ b.key_slot[k] # s
        /\ b.key_slot[k] \in b.mandatory /\ b.until[b.key_slot[k]] \in Int
    BY <1>1, <1>3, PinnedSlot DEF Pinned
  <2> HIDE DEF b
  <2> QED
    BY <1>1, <2>1 DEF Good, Allocators
<1>6. Pin(a, x, s, d, m) =
        [b EXCEPT !.until = un, !.mandatory = ma, !.pinned = pi]
  BY DEF Pin
<1> HIDE DEF b, un, ma, pi
<1>7. Pin(a, x, s, d, m) = Repinned(b, pi, un, ma)
  BY <1>1, <1>6 DEF Good, Allocators, Repinned
<1>8. Keeps(b, Pin(a, x, s, d, m), k)
  BY <1>1, <1>3, <1>4, <1>5, <1>7, KeepsRepinned
<1>9. Good(Pin(a, x, s, d, m))
  BY GoodPin
<1> QED
  BY <1>1, <1>2, <1>8, <1>9, KeepsTwice

LEMMA KeepsUpgrade ==
  ASSUME NEW a, Good(a), NEW k \in Keys, Pinned(a, k), NEW s \in Slots
  PROVE  Keeps(a, Upgrade(a, s, Deadline), k)
<1> DEFINE pi == IF a.until[s] < 0 THEN a.pinned + 1 ELSE a.pinned
           un == [a.until EXCEPT ![s] = IF a.until[s] >= Deadline
                                        THEN a.until[s] ELSE Deadline]
           ma == a.mandatory \cup {s}
<1>1. un \in [Slots -> Int] /\ ma \in SUBSET Slots /\ pi \in Int
  BY StreamFacts DEF Good, Allocators
<1>2. un[a.key_slot[k]] >= a.until[a.key_slot[k]] /\ a.key_slot[k] \in ma
  BY PinnedSlot, StreamFacts DEF Good, Allocators, Pinned
<1>3. Upgrade(a, s, Deadline) = Repinned(a, pi, un, ma)
  BY DEF Upgrade, Repinned
<1> HIDE DEF pi, un, ma
<1> QED
  BY <1>1, <1>2, <1>3, KeepsRepinned

\* A slot that prefetch may take is not the one of a pinned reference.
LEMMA KeepsForced ==
  ASSUME NEW a, Good(a), NEW k \in Keys, Pinned(a, k), NEW x \in Keys,
         ~Resident(a, x), NEW s \in Slots, NEW f \in Int, f < Deadline,
         NEW d \in Int, NEW m, NEW avoid, NEW relocate
  PROVE  Keeps(a, Forced(a, x, s, f, d, m, avoid, relocate), k)
<1> DEFINE z == Forced(a, x, s, f, d, m, avoid, relocate)
<1>1. CASE ~Available(a, s, f, avoid)
  BY <1>1, PinnedSlot DEF Forced, Keeps
<1>2. CASE Available(a, s, f, avoid) /\ s \in a.free
  <2> DEFINE p == [a EXCEPT !.free = @ \ {s}]
  <2>1. Good(p) /\ Vacant(p, s) /\ ~Resident(p, x)
    BY <1>2, GoodPop
  <2>2. Keeps(a, p, k)
    BY KeepsPop
  <2>3. z = Pin(p, x, s, d, m)
    BY <1>2 DEF Forced
  <2> HIDE DEF p
  <2>4. Pinned(p, k)
    BY <2>1, <2>2, KeepsPinned
  <2>5. Keeps(p, Pin(p, x, s, d, m), k) /\ Good(Pin(p, x, s, d, m))
    BY <2>1, <2>4, KeepsPin, GoodPin
  <2> QED
    BY <2>1, <2>2, <2>3, <2>5, KeepsTwice
<1>3. CASE Available(a, s, f, avoid) /\ s \notin a.free
  <2> DEFINE p == IF relocate THEN Evict(a, s) ELSE Take(a, s)
  <2>1. Good(p) /\ Vacant(p, s) /\ ~Resident(p, x)
    BY <1>3, GoodEvict, GoodTake
  <2>2. s # a.key_slot[k]
    BY <1>3, PinnedSlot DEF Available
  <2>3. Keeps(a, p, k)
    BY <1>3, <2>2, KeepsEvict, KeepsTake
  <2>4. z = Pin(p, x, s, d, m)
    BY <1>3 DEF Forced
  <2> HIDE DEF p
  <2>5. Pinned(p, k)
    BY <2>1, <2>3, KeepsPinned
  <2>6. Keeps(p, Pin(p, x, s, d, m), k) /\ Good(Pin(p, x, s, d, m))
    BY <2>1, <2>5, KeepsPin, GoodPin
  <2> QED
    BY <2>1, <2>3, <2>4, <2>6, KeepsTwice
<1> QED
  BY <1>1, <1>2, <1>3

OnlyFadesLeft(a, f) ==
  \A s \in Slots \ Held(a, f) :
    a.refs[s] # 0 \/ s \in a.tfp \/ s \in a.protect

LEMMA KeepsAlloc ==
  ASSUME NEW a, Good(a), NEW k \in Keys, Pinned(a, k),
         NEW f \in Int, f < Deadline, CanAlloc(a, f),
         NEW s \in AllocSlots(a, f)
  PROVE  Keeps(a, AllocState(a, f, s), k) \/ OnlyFadesLeft(a, f)
<1> DEFINE t == Tier(a, f)
<1>2. CASE a.free # {}
  BY <1>2, AllocIn, KeepsPop DEF AllocState
<1>3. CASE a.free = {} /\ t # 3
  <2>1. /\ t \in 1 .. 5 /\ s \in Tiers(a, f)[t] /\ s \in Slots \ a.free
    BY <1>3, AllocIn
  <2>2. s # a.key_slot[k]
    <3>1. a.key_slot[k] \in Held(a, f) /\ a.key_slot[k] \in a.mandatory
      BY PinnedSlot DEF Pinned
    <3>2. s \notin Held(a, f)
      <4>1. t = 1 \/ t = 2 \/ t = 4 \/ t = 5
        BY <1>3, <2>1
      <4> HIDE DEF t
      <4> QED
        BY <2>1, <4>1 DEF Tiers, Held
    <3> QED
      BY <3>1, <3>2
  <2> DEFINE b  == IF t = 5 THEN Evict(a, s) ELSE Take(a, s)
             te == b.tearing \/ t >= 4
             rc == b.reclaimed \/ t = 3
  <2>3. Keeps(a, b, k) /\ Good(b)
    BY <2>1, <2>2, KeepsEvict, KeepsTake, GoodEvict, GoodTake
  <2>4. AllocState(a, f, s) = [b EXCEPT !.tearing = te, !.reclaimed = rc]
    BY <1>3 DEF AllocState
  <2> HIDE DEF b, te, rc
  <2>5. /\ AllocState(a, f, s).key_slot = b.key_slot
        /\ AllocState(a, f, s).until = b.until
        /\ AllocState(a, f, s).mandatory = b.mandatory
    BY <2>3, <2>4 DEF Good, Allocators
  <2> QED
    BY <2>3, <2>5 DEF Keeps
<1>4. CASE a.free = {} /\ t = 3
  <2> DEFINE I == {i \in 1 .. 5 : Tiers(a, f)[i] # {}}
  <2>1. I \subseteq Nat /\ I # {}
    BY <1>4 DEF CanAlloc
  <2>2. PICK i \in I : \A j \in I : i <= j
    BY <2>1, Minimum
  <2>3. \A j \in 1 .. i - 1 : Tiers(a, f)[j] = {}
    BY <2>2
  <2>4. \A j \in 1 .. t - 1 : Tiers(a, f)[j] = {}
    BY <2>2, <2>3 DEF Tier
  <2>5. Tiers(a, f)[2] = {}
    BY <1>4, <2>4
  <2> QED
    BY <2>5 DEF Tiers, OnlyFadesLeft
<1> QED
  BY <1>2, <1>3, <1>4

LEMMA KeepsPlace ==
  ASSUME NEW a, Good(a), NEW k \in Keys, Pinned(a, k), NEW c \in Cells,
         NEW x \in Keys, NEW f \in Int, f < Deadline, CanAlloc(a, f),
         NEW s \in PlaceSlots(a, x, f)
  PROVE  Keeps(a, Place(a, c, x, f, s), k) \/ OnlyFadesLeft(a, f)
<1> DEFINE b == IF Resident(a, x) THEN Unpin(a, s, f)
                ELSE Bind(AllocState(a, f, s), x, s)
<1>1. Place(a, c, x, f, s) = Show(b, c, s)
  BY DEF Place
<1>2. SUFFICES ASSUME ~OnlyFadesLeft(a, f)
               PROVE  Keeps(a, Place(a, c, x, f, s), k)
  OBVIOUS
<1>3. Good(b) /\ Keeps(a, b, k) /\ s \in Slots
  <2>1. CASE Resident(a, x)
    <3>1. s \in Slots
      BY <2>1 DEF PlaceSlots, Resident, Good, Allocators
    <3> QED
      BY <2>1, <3>1, GoodUnpin, KeepsUnpin
  <2>2. CASE ~Resident(a, x)
    <3> DEFINE p == AllocState(a, f, s)
    <3>1. s \in AllocSlots(a, f)
      BY <2>2 DEF PlaceSlots
    <3>2. Good(p) /\ Vacant(p, s) /\ ~Resident(p, x) /\ Keeps(a, p, k)
      BY <1>2, <2>2, <3>1, GoodAlloc, KeepsAlloc
    <3>3. x # k
      BY <2>2 DEF Pinned
    <3>4. b = Bind(p, x, s)
      BY <2>2
    <3> HIDE DEF p, b
    <3>5. Pinned(p, k)
      BY <3>2, KeepsPinned
    <3>6. Good(Bind(p, x, s)) /\ Keeps(p, Bind(p, x, s), k)
      BY <3>2, <3>3, <3>5, GoodBind, KeepsBind
    <3>7. Keeps(a, Bind(p, x, s), k) /\ s \in Slots
      BY <3>2, <3>6, KeepsTwice DEF Vacant
    <3> QED
      BY <3>4, <3>6, <3>7
  <2> QED
    BY <2>1, <2>2
<1> HIDE DEF b
<1>4. Pinned(b, k)
  BY <1>3, KeepsPinned
<1>5. Keeps(b, Show(b, c, s), k) /\ Good(Show(b, c, s))
  BY <1>3, <1>4, KeepsShow, GoodShow
<1>6. Keeps(a, Show(b, c, s), k)
  BY <1>3, <1>5, KeepsTwice
<1> QED
  BY <1>1, <1>6

LEMMA KeepsSame ==
  ASSUME NEW a, Good(a), NEW k \in Keys, Pinned(a, k), NEW b,
         b.key_slot = a.key_slot, b.until = a.until, b.mandatory = a.mandatory
  PROVE  Keeps(a, b, k)
  BY PinnedSlot DEF Keeps

LEMMA KeepsSettle ==
  ASSUME StreamInv, NEW k \in Keys, Pinned(sim, k), Settle \/ Placed
  PROVE  Keeps(sim, sim', k)
<1>1. Good(sim) /\ sim \in Allocators
  BY DEF StreamInv, Good
<1>2. CASE Settle
  <2> DEFINE keys == {sel[c] : c \in Cells} \ {NoKey}
  <2>1. sim' = Begin(sim, keys)
    BY <1>2 DEF Settle
  <2> HIDE DEF keys
  <2>2. /\ sim'.key_slot = sim.key_slot /\ sim'.until = sim.until
        /\ sim'.mandatory = sim.mandatory
    BY <1>1, <2>1 DEF Begin, Allocators
  <2> QED
    BY <1>1, <2>2, KeepsSame
<1>3. CASE Placed
  <2>1. /\ sim'.key_slot = sim.key_slot /\ sim'.until = sim.until
        /\ sim'.mandatory = sim.mandatory
    BY <1>1, <1>3 DEF Placed, End, Allocators
  <2> QED
    BY <1>1, <2>1, KeepsSame
<1> QED
  BY <1>2, <1>3

LEMMA KeepsMoved ==
  ASSUME StreamInv, NEW k \in Keys, Pinned(sim, k), NEW from, Moved(from)
  PROVE  Keeps(sim, sim', k)
<1>1. Good(sim) /\ sim \in Allocators
  BY DEF StreamInv, Good
<1>2. /\ sim'.key_slot = sim.key_slot /\ sim'.until = sim.until
      /\ sim'.mandatory = sim.mandatory
  BY <1>1 DEF Moved, Rebase, Allocators
<1> QED
  BY <1>1, <1>2, KeepsSame

LEMMA KeepsSoft ==
  ASSUME StreamInv, frame < Deadline, NEW k \in Keys, Pinned(sim, k),
         NEW x \in Keys, NEW d \in 1 .. MaxFrame, NEW avoid, Soft(x, d, avoid)
  PROVE  Keeps(sim, sim', k)
<1> DEFINE s == SearchSlot(sim, frame, FALSE, avoid)
<1>1. /\ ~Resident(sim, x) /\ CanSearch(sim, frame, FALSE, avoid)
      /\ sim' = Organic(sim, x, frame, d, FALSE, avoid)
  BY DEF Soft
<1>2. Good(sim) /\ sim.tfp = {} /\ frame \in Int /\ d \in Int
  BY TileStreamAssumption DEF StreamInv, Soft
<1>3. s \in Slots
  BY <1>1, <1>2, SearchFinds
<1> HIDE DEF s
<1>4. sim' = Forced(sim, x, s, frame, d, FALSE, {}, FALSE)
  BY <1>1, <1>2, Accepted DEF s
<1> DEFINE no == FALSE
           b  == Forced(sim, x, s, frame, d, no, {}, no)
<1>5. sim' = b
  BY <1>4
<1> HIDE DEF no
<1>6. Keeps(sim, b, k)
  BY <1>1, <1>2, <1>3, KeepsForced
<1> QED
  BY <1>5, <1>6

LEMMA KeepsFade ==
  ASSUME StreamInv, frame < Deadline, NEW k \in Keys, Pinned(sim, k),
         NEW x \in FadeKeys, NEW avoid, Fade(x, avoid)
  PROVE  Keeps(sim, sim', k)
<1> DEFINE room == BlockFree(sim, frame, block, FadeCount,
                     {sim.key_slot[y] : y \in FadeKeys \ Lost}, avoid)
           s    == IF room # {} THEN Lowest(room)
                   ELSE SearchSlot(sim, frame, TRUE, avoid)
<1>1. /\ Good(sim) /\ sim.tfp = {} /\ x \in Keys /\ Deadline \in Int
      /\ frame \in Int
  BY StreamFacts DEF StreamInv, Fade
<1>2. CASE /\ Resident(sim, x)
           /\ sim' = Upgrade(sim, sim.key_slot[x], Deadline)
  <2>1. sim.key_slot[x] \in Slots
    BY <1>1, <1>2 DEF Resident, Good, Allocators
  <2> QED
    BY <1>1, <1>2, <2>1, KeepsUpgrade
<1>3. CASE /\ ~Resident(sim, x) /\ room # {}
           /\ sim' = Forced(sim, x, s, frame, Deadline, TRUE, avoid, TRUE)
  <2>1. room \subseteq Slots
    <3>1. block \in 0 .. Pool - FadeCount
      BY DEF Fade, StreamInv, BlockChosen
    <3>2. block .. block + FadeCount - 1 \subseteq Slots
      BY <3>1, StreamFacts, PoolFacts DEF Slots
    <3> QED
      BY <3>2 DEF BlockFree
  <2>2. s \in Slots
    BY <1>3, <2>1, LowestIn
  <2> DEFINE yes == TRUE
             b   == Forced(sim, x, s, frame, Deadline, yes, avoid, yes)
  <2>3. sim' = b
    BY <1>3
  <2> HIDE DEF yes, s, room
  <2>4. Keeps(sim, b, k)
    BY <1>1, <1>3, <2>2, KeepsForced
  <2> QED
    BY <2>3, <2>4
<1>4. CASE /\ ~Resident(sim, x) /\ CanSearch(sim, frame, TRUE, avoid)
           /\ sim' = Organic(sim, x, frame, Deadline, TRUE, avoid)
  <2> DEFINE r   == SearchSlot(sim, frame, TRUE, avoid)
             yes == TRUE
             no  == FALSE
             b   == Forced(sim, x, r, frame, Deadline, yes, {}, no)
  <2>1. r \in Slots
    BY <1>1, <1>4, SearchFinds
  <2> HIDE DEF r
  <2>2. sim' = Forced(sim, x, r, frame, Deadline, TRUE, {}, FALSE)
    BY <1>1, <1>4, Accepted DEF r
  <2>3. sim' = b
    BY <2>2
  <2> HIDE DEF yes, no
  <2>4. Keeps(sim, b, k)
    BY <1>1, <1>4, <2>1, KeepsForced
  <2> QED
    BY <2>3, <2>4
<1> QED
  BY <1>2, <1>3, <1>4 DEF Fade

\* While its deadline is ahead, a pinned reference stays pinned through every
\* step but the placement of an update that has no other slot.
LEMMA FadeStep ==
  ASSUME StreamInv, Next, frame < Deadline, NEW k \in Keys, Pinned(sim, k)
  PROVE  Pinned(sim', k) \/ (phase = "place" /\ OnlyFadesLeft(sim, frame))
<1>1. Good(sim) /\ frame \in Int
  BY DEF StreamInv
<1>2. Good(sim')
  BY StreamStep DEF StreamInv
<1>3. SUFFICES ASSUME ~(phase = "place" /\ OnlyFadesLeft(sim, frame))
               PROVE  Keeps(sim, sim', k) \/ sim' = sim
  BY <1>1, <1>2, KeepsPinned
<1>4. ASSUME NEW c \in Cells, NEW x \in Keys, Decide(c, x) PROVE sim' = sim
  BY <1>4 DEF Decide
<1>5. ASSUME NEW x \in Keys, DecideGuard(x) PROVE sim' = sim
  BY <1>5 DEF DecideGuard
<1>6. ASSUME NEW c \in Cells, PlaceNext(c) PROVE Keeps(sim, sim', k)
  <2>1. /\ phase = "place" /\ CanAlloc(sim, frame)
        /\ sel[c] \in Keys
    BY <1>6 DEF PlaceNext, StreamInv
  <2>2. PICK s \in PlaceSlots(sim, sel[c], frame) :
          sim' = Place(sim, c, sel[c], frame, s)
    BY <1>6 DEF PlaceNext
  <2> QED
    BY <1>1, <1>3, <2>1, <2>2, KeepsPlace
<1>7. ASSUME NEW x \in Keys, NEW d \in 1 .. MaxFrame, NEW avoid,
             Soft(x, d, avoid)
      PROVE  Keeps(sim, sim', k)
  BY <1>7, KeepsSoft
<1>8. ASSUME NEW x \in FadeKeys, NEW avoid, Fade(x, avoid)
      PROVE  Keeps(sim, sim', k)
  BY <1>8, KeepsFade
<1>9. CASE NextNormal
  BY <1>9 DEF NextNormal
<1>10. CASE NextScroll
  BY <1>10, KeepsMoved DEF NextScroll
<1>11. CASE NextReturn
  BY <1>11, KeepsMoved DEF NextReturn
<1> QED
  BY <1>4, <1>5, <1>6, <1>7, <1>8, <1>9, <1>10, <1>11, KeepsSettle DEF Next

\* A fade reference that is pinned leaves before its deadline only for a
\* visible update that has no other slot.
THEOREM FadeReferenceKept == Spec => FadeKept
<1>1. StreamInv /\ [Next]_vars => [FadeGivenUp]_vars
  <2> SUFFICES ASSUME StreamInv, Next, NEW k \in FadeKeys \ Lost,
                      frame < Deadline, k \in Lost'
               PROVE  phase = "place" /\ OnlyFadesLeft(sim, frame)
    BY DEF FadeGivenUp, OnlyFadesLeft
  <2>1. k \in Keys /\ Pinned(sim, k)
    BY StreamFacts DEF Lost, Pinned
  <2>2. ~Pinned(sim', k)
    BY DEF Lost, Pinned
  <2> QED
    BY <2>1, <2>2, FadeStep
<1> QED
  BY <1>1, StreamInit, StreamStep, PTL DEF Spec, FadeKept
=============================================================================
