-------------------------- MODULE SectorPumpProofs -------------------------
(***************************************************************************)
(* Proofs about SectorPump, for every length of movie, rate and capacity.  *)
(* The first two theorems need nothing from the routing table: WordBuf     *)
(* sectors held back in Sub's own memory are committed to the bank of their*)
(* own parity, and no WordBuf overflows, whatever the table.  The others   *)
(* are for the tables that the encoder's replay accepts, one frame after   *)
(* the other: the player, which reads ahead as far as its buffers let it,  *)
(* is never without what a frame takes, and never fills a ring.  They rest *)
(* on two facts: what a buffer holds is what the table has delivered up to *)
(* the cursor less what the frames have taken; and a sector that the pump  *)
(* is sent for has room, whether a poll's guard says so or, for the frame  *)
(* to be fetched, the replay.                                              *)
(***************************************************************************)
EXTENDS SectorPump, WellFoundedInduction, TLAPS

\* Sub is never inside pump1_core when it hands over a bank or commits what is
\* pending, so that a sector cannot become pending between the two.
PumpOK == pump # "idle" => spc \notin {"flush", "movie_end"}

PendingInv ==
  /\ word_owned_bank \in {0, 1} /\ word_pending_count \in Nat
  /\ drain_frame \in Nat /\ word_pending_frame \in Nat
  /\ PumpOK /\ PendingOwned

LEMMA ParityIsABit == \A f \in Nat : Parity(f) \in {0, 1}
  BY DEF Parity

LEMMA PendingInit == Init => PendingInv
  BY DEF Init, PendingInv, PumpOK, PendingOwned

\* A sector becomes pending only for the bank that Main has, and only together
\* with sectors of the same frame.
LEMMA PendingPump == PendingInv /\ Pump1 => PendingInv'
<1> SUFFICES ASSUME PendingInv, Pump1 PROVE PendingInv'
  OBVIOUS
<1> USE DEF PendingInv, PumpOK, PendingOwned, player, pending, buffers
<1>1. CASE SlotGoesOn
  BY <1>1 DEF SlotGoesOn
<1>2. CASE SlotHead
  BY <1>2 DEF SlotHead
<1>3. CASE ToApply
  BY <1>3 DEF ToApply, Advance
<1>4. CASE ToRing
  BY <1>4 DEF ToRing, Advance
<1>5. CASE ToPad
  BY <1>5 DEF ToPad, Advance
<1>6. CASE ToWord
  <2>1. CASE ~WordAcceptGuard
    BY <1>6, <2>1 DEF ToWord
  <2>2. CASE WordAcceptGuard /\ Owned
    BY <1>6, <2>2 DEF ToWord, Advance
  <2>3. CASE WordAcceptGuard /\ ~Owned
    <3>1. word_pending_frame' = drain_frame
      BY <1>6, <2>3 DEF ToWord, WordAcceptGuard
    <3>2. Parity(word_pending_frame') # word_owned_bank'
      BY <1>6, <2>3, <3>1 DEF ToWord, Advance, Owned
    <3>3. spc' # "flush" /\ pump' = "idle"
      BY <1>6, <2>3 DEF ToWord, Advance
    <3>4. /\ word_pending_count' = word_pending_count + 1
          /\ drain_frame' \in Nat /\ word_owned_bank' \in {0, 1}
      BY <1>6, <2>3 DEF ToWord, Advance
    <3> QED
      BY <3>1, <3>2, <3>3, <3>4
  <2> QED
    BY <2>1, <2>2, <2>3
<1> QED
  BY <1>1, <1>2, <1>3, <1>4, <1>5, <1>6 DEF Pump1

\* The exchange makes the pending parity Sub's own, and the commit empties it.
LEMMA PendingSub == PendingInv /\ Sub => PendingInv'
<1> SUFFICES ASSUME PendingInv, Sub PROVE PendingInv'
  OBVIOUS
<1> USE DEF PendingInv, PumpOK, PendingOwned, player, pending, buffers, cursor, slot,
            SubGoes, CallPump
<1>1. CASE Pump1
  BY <1>1, PendingPump
<1>2. CASE PumpPoll
  BY <1>2 DEF PumpPoll
<1>3. CASE ArmFrame1
  BY <1>3 DEF ArmFrame1
<1>4. CASE StartupReady
  BY <1>4 DEF StartupReady
<1>5. CASE PumpFrame
  BY <1>5 DEF PumpFrame
<1>6. CASE FetchControl
  BY <1>6 DEF FetchControl
<1>7. CASE ExpandFrame
  BY <1>7 DEF ExpandFrame
<1>8. CASE GiveBank
  <2>1. word_owned_bank' = 1 - word_owned_bank /\ spc = "wait_swap" /\ spc' = "flush"
    BY <1>8 DEF GiveBank
  <2>2. Parity(word_pending_frame) \in {0, 1}
    BY ParityIsABit
  <2>3. UNCHANGED <<word_pending_count, word_pending_frame, drain_frame, pump>>
    BY <1>8 DEF GiveBank
  <2>4. pump' = "idle"
    BY <1>8, <2>3 DEF GiveBank
  <2>5. word_pending_count' # 0 => Parity(word_pending_frame') = word_owned_bank'
    BY <2>1, <2>2, <2>3
  <2> QED
    BY <2>1, <2>3, <2>4, <2>5
<1>9. CASE FlushPending
  BY <1>9 DEF FlushPending
<1>10. CASE BankReleased
  BY <1>10 DEF BankReleased
<1>11. CASE MovieEnd
  BY <1>11 DEF MovieEnd
<1>12. CASE Replay
  BY <1>12 DEF Replay
<1> QED
  BY <1>1, <1>2, <1>3, <1>4, <1>5, <1>6, <1>7, <1>8, <1>9, <1>10, <1>11, <1>12 DEF Sub

LEMMA PendingMain == PendingInv /\ (Main \/ UNCHANGED vars) => PendingInv'
  BY DEF PendingInv, PumpOK, PendingOwned, Main, AskFirst, Release, ReadPatterns,
         vars, cursor, pending, player

\* Sectors accepted before an exchange wait for the bank of their own parity: the
\* first exchange after them brings it, and they are committed right then.
THEOREM PendingGoesHome == Spec => []PendingOwned
<1>1. PendingInv /\ [Next]_vars => PendingInv'
  BY PendingSub, PendingMain DEF Next
<1>2. PendingInv => PendingOwned
  BY DEF PendingInv
<1> QED
  BY PendingInit, <1>1, <1>2, PTL DEF Spec

----------------------------------------------------------------------------
\* What the frame being expanded takes from its WordBuf is given by the table.
WordInv ==
  /\ PendingInv
  /\ plan \in Table
  /\ frame_idx \in 1 .. Frames
  /\ spc = "expand" => frame_idx - 1 \in Timed
  /\ word_level \in [{0, 1} -> Int]
  /\ WordBounded

LEMMA WordInit == Init => WordInv
<1> SUFFICES ASSUME Init PROVE WordInv
  OBVIOUS
<1>1. PendingInv
  BY PendingInit
<1>2. plan \in Table /\ frame_idx \in 1 .. Frames /\ spc # "expand"
  BY SectorPumpAssumption DEF Init
<1>3. word_level \in [{0, 1} -> 0 .. WordCap] /\ word_pending_count = 0
  BY SectorPumpAssumption DEF Init
<1>4. WordCap \in Nat
  BY SectorPumpAssumption
<1>5. WordBounded
  BY <1>3, <1>4 DEF WordBounded, Waiting
<1> QED
  BY <1>1, <1>2, <1>3, <1>5 DEF WordInv

\* Steps that touch neither a WordBuf nor what is pending for one.
LEMMA WordFrame ==
  ASSUME WordInv, PendingInv', UNCHANGED <<plan, pending, word_level>>,
         frame_idx' \in 1 .. Frames, spc' = "expand" => frame_idx' - 1 \in Timed
  PROVE  WordInv'
  BY DEF WordInv, WordBounded, Waiting, pending

\* word_accept_guard leaves room for what is pending, too.
LEMMA WordToWord == WordInv /\ ToWord => WordInv'
<1> SUFFICES ASSUME WordInv, ToWord PROVE WordInv'
  OBVIOUS
<1> DEFINE d == Parity(drain_frame)
<1>1. PendingInv'
  BY PendingPump DEF WordInv, Pump1
<1>2. UNCHANGED <<plan, frame_idx, spc>>
  BY DEF ToWord, Advance, player
<1>3. d \in {0, 1} /\ Parity(word_pending_frame) \in {0, 1}
  BY ParityIsABit DEF WordInv, PendingInv
<1>4. WordCap \in Nat
  BY SectorPumpAssumption
<1> HIDE DEF d
<1>5. CASE ~WordAcceptGuard
  <2>1. UNCHANGED <<pending, word_level>>
    BY <1>5 DEF ToWord
  <2> QED
    BY <1>1, <1>2, <2>1, WordFrame DEF WordInv
<1>6. CASE WordAcceptGuard /\ Owned
  <2>1. word_pending_count = 0 /\ word_level[d] + Unit <= WordCap
    BY <1>6 DEF WordAcceptGuard, d
  <2>2. /\ word_level' = [word_level EXCEPT ![d] = @ + Unit]
        /\ UNCHANGED pending
    BY <1>6 DEF ToWord, d
  <2>3. word_level' \in [{0, 1} -> Int]
    BY <1>3, <2>2 DEF WordInv, Unit
  <2>4. WordBounded'
    BY <1>3, <1>4, <2>1, <2>2 DEF WordInv, WordBounded, Waiting, pending, Unit
  <2> QED
    BY <1>1, <1>2, <2>3, <2>4 DEF WordInv
<1>7. CASE WordAcceptGuard /\ ~Owned
  <2>1. /\ word_level[d] + Unit * (word_pending_count + 1) <= WordCap
        /\ word_pending_count # 0 => word_pending_frame = drain_frame
    BY <1>7 DEF WordAcceptGuard, d
  <2>2. /\ word_pending_count' = word_pending_count + 1
        /\ word_pending_frame' = drain_frame
        /\ UNCHANGED word_level
    BY <1>7, <2>1 DEF ToWord
  <2>3. Parity(word_pending_frame') = d
    BY <2>2 DEF d
  <2>4. WordBounded'
    <3>1. \A b \in {0, 1} : Waiting(b)' = IF b = d THEN Unit * (word_pending_count + 1) ELSE 0
      BY <2>2, <2>3 DEF Waiting, WordInv, PendingInv
    <3>2. \A b \in {0, 1} : word_level[b] <= WordCap
      BY <1>4 DEF WordInv, PendingInv, WordBounded, Waiting, Unit
    <3>3. SUFFICES ASSUME NEW b \in {0, 1} PROVE word_level[b] + Waiting(b)' <= WordCap
      BY <2>2 DEF WordBounded
    <3>4. CASE b = d
      BY <3>1, <3>4, <2>1
    <3>5. CASE b # d
      BY <3>1, <3>2, <3>5 DEF WordInv
    <3> QED
      BY <3>4, <3>5
  <2> QED
    BY <1>1, <1>2, <2>2, <2>4 DEF WordInv
<1> QED
  BY <1>5, <1>6, <1>7

\* The commit moves what is pending into the room that was kept for it.
LEMMA WordFlush == WordInv /\ FlushPending => WordInv'
<1> SUFFICES ASSUME WordInv, FlushPending PROVE WordInv'
  OBVIOUS
<1> DEFINE w == Parity(word_pending_frame)
<1>1. PendingInv'
  BY PendingSub DEF WordInv, Sub
<1>2. UNCHANGED <<plan, frame_idx>> /\ spc' # "expand"
  BY DEF FlushPending, SubGoes
<1>3. w \in {0, 1} /\ word_pending_count \in Nat
  BY ParityIsABit DEF WordInv, PendingInv
<1>4. /\ word_level' = [word_level EXCEPT ![w] = @ + Unit * word_pending_count]
      /\ word_pending_count' = 0
  BY DEF FlushPending
<1>5. word_level' \in [{0, 1} -> Int]
  BY <1>3, <1>4 DEF WordInv, Unit
<1>6. \A b \in {0, 1} : word_level'[b] = word_level[b] + Waiting(b)
  BY <1>3, <1>4 DEF WordInv, Waiting, Unit
<1>7. WordBounded'
  <2>1. SUFFICES ASSUME NEW b \in {0, 1} PROVE word_level'[b] + Waiting(b)' <= WordCap
    BY DEF WordBounded
  <2>2. Waiting(b)' = 0
    BY <1>4 DEF Waiting
  <2>3. word_level[b] + Waiting(b) <= WordCap
    BY DEF WordInv, WordBounded
  <2>4. word_level'[b] \in Int
    BY <1>5
  <2> QED
    BY <1>6, <2>2, <2>3, <2>4
<1> QED
  BY <1>1, <1>2, <1>5, <1>7 DEF WordInv

\* Expansion only makes room.
LEMMA WordExpand == WordInv /\ ExpandFrame => WordInv'
<1> SUFFICES ASSUME WordInv, ExpandFrame PROVE WordInv'
  OBVIOUS
<1> DEFINE f == frame_idx - 1
           p == Parity(f)
<1>1. PendingInv'
  BY PendingSub DEF WordInv, Sub
<1>2. UNCHANGED <<plan, frame_idx, pending>> /\ spc = "expand" /\ spc' # "expand"
  BY DEF ExpandFrame, SubGoes
<1>3. f \in Timed
  BY <1>2 DEF WordInv
<1>4. plan.wordUse[f] \in Nat /\ p \in {0, 1}
  <2>1. plan.wordUse \in [Timed -> Nat]
    BY DEF WordInv, Table
  <2>2. f \in Nat
    BY <1>3, SectorPumpAssumption DEF Timed
  <2> HIDE DEF f
  <2> QED
    BY <1>3, <2>1, <2>2, ParityIsABit
<1>5. word_level' = [word_level EXCEPT ![p] = @ - plan.wordUse[f]]
  BY DEF ExpandFrame
<1> HIDE DEF f, p
<1>6. word_level' \in [{0, 1} -> Int]
  BY <1>4, <1>5 DEF WordInv
<1>7. \A b \in {0, 1} : word_level'[b] <= word_level[b]
  BY <1>4, <1>5 DEF WordInv
<1>8. WordBounded'
  <2>1. SUFFICES ASSUME NEW b \in {0, 1} PROVE word_level'[b] + Waiting(b)' <= WordCap
    BY DEF WordBounded
  <2>2. Waiting(b)' = Waiting(b) /\ Waiting(b) \in Int
    BY <1>2 DEF Waiting, pending, WordInv, PendingInv, Unit
  <2>3. word_level[b] + Waiting(b) <= WordCap
    BY DEF WordInv, WordBounded
  <2>4. word_level'[b] \in Int /\ word_level[b] \in Int /\ WordCap \in Int
    BY <1>6, SectorPumpAssumption DEF WordInv
  <2> QED
    BY <1>7, <2>2, <2>3, <2>4
<1> QED
  BY <1>1, <1>2, <1>6, <1>8 DEF WordInv

LEMMA WordStep == WordInv /\ [Next]_vars => WordInv'
<1> SUFFICES ASSUME WordInv, [Next]_vars PROVE WordInv'
  OBVIOUS
<1>1. PendingInv'
  BY PendingSub, PendingMain DEF WordInv, Next
<1>2. frame_idx \in 1 .. Frames /\ (spc = "expand" => frame_idx - 1 \in Timed)
  BY DEF WordInv
<1> USE DEF buffers, player, cursor, SubGoes
<1>3. CASE Pump1
  <2>1. CASE ToWord
    BY <2>1, WordToWord
  <2>2. CASE SlotGoesOn \/ SlotHead \/ ToApply \/ ToRing \/ ToPad
    <3>1. UNCHANGED <<plan, pending, word_level, frame_idx, spc>>
      BY <2>2 DEF SlotGoesOn, SlotHead, ToApply, ToRing, ToPad, Advance, pending
    <3> QED
      BY <1>1, <1>2, <3>1, WordFrame
  <2> QED
    BY <1>3, <2>1, <2>2 DEF Pump1
<1>4. CASE PumpPoll \/ ArmFrame1 \/ PumpFrame
  <2>1. UNCHANGED <<plan, pending, word_level, frame_idx, spc>>
    BY <1>4 DEF PumpPoll, ArmFrame1, PumpFrame, CallPump
  <2> QED
    BY <1>1, <1>2, <2>1, WordFrame
<1>5. CASE StartupReady \/ GiveBank \/ BankReleased \/ MovieEnd
  <2>1. UNCHANGED <<plan, pending, word_level, frame_idx>> /\ spc' # "expand"
    BY <1>5 DEF StartupReady, GiveBank, BankReleased, MovieEnd
  <2> QED
    BY <1>1, <1>2, <2>1, WordFrame
<1>6. CASE FetchControl
  <2>1. /\ UNCHANGED <<plan, pending, word_level>>
        /\ frame_idx' = frame_idx + 1 /\ frame_idx < Frames
    BY <1>6 DEF FetchControl
  <2>2. frame_idx' \in 1 .. Frames /\ frame_idx' - 1 \in Timed
    BY <1>2, <2>1, SectorPumpAssumption DEF Timed
  <2> QED
    BY <1>1, <2>1, <2>2, WordFrame
<1>7. CASE ExpandFrame
  BY <1>7, WordExpand
<1>8. CASE FlushPending
  BY <1>8, WordFlush
<1>9. CASE Replay
  <2>1. /\ word_level' = WordBoot /\ word_pending_count' = 0 /\ frame_idx' = 1
        /\ spc' # "expand" /\ UNCHANGED plan
    BY <1>9 DEF Replay
  <2>2. WordBoot \in [{0, 1} -> 0 .. WordCap] /\ WordCap \in Nat /\ 1 \in 1 .. Frames
    BY SectorPumpAssumption
  <2>3. WordBounded'
    BY <2>1, <2>2 DEF WordBounded, Waiting
  <2> QED
    BY <1>1, <2>1, <2>2, <2>3 DEF WordInv
<1>10. CASE Main \/ UNCHANGED vars
  <2>1. UNCHANGED <<plan, pending, word_level, frame_idx, spc>>
    BY <1>10 DEF Main, AskFirst, Release, ReadPatterns, vars
  <2> QED
    BY <1>1, <1>2, <2>1, WordFrame
<1> QED
  BY <1>3, <1>4, <1>5, <1>6, <1>7, <1>8, <1>9, <1>10 DEF Next, Sub

\* Whatever table is on the disc, the read-ahead never writes a WordBuf beyond
\* its capacity: not directly, and not by the commit of pending sectors.
THEOREM WordBufNeverOverflows == Spec => []WordBounded
<1>1. WordInv => WordBounded
  BY DEF WordInv
<1> QED
  BY WordInit, WordStep, <1>1, PTL DEF Spec

----------------------------------------------------------------------------
(* What a table has delivered by the time its cursor is at sector k of slot d *)

SumOf(col) ==
  LET sum[f \in 0 .. Frames - 1] == IF f = 0 THEN 0 ELSE sum[f - 1] + col[f]
  IN  sum

Sectors(p, f) == (SumOf(p.len)[f] + Unit - 1) \div Unit

\* How many of a slot's first k sectors are among the n after the first a.
Part(k, a, n) == IF k = 0 \/ k <= a THEN 0 ELSE IF k - a <= n THEN k - a ELSE n

\* The frames of parity b.
Mine(col, b) == [f \in Timed |-> IF Parity(f) = b THEN col[f] ELSE 0]

\* A WordBuf's level after slot d, when no frame lags behind.
LevelAfter(p, b, d) == IF Parity(d) = b THEN WordAfter(p)[d] ELSE WordAfter(p)[d - 1]

ControlIn(p, d, k) == Unit * (Sectors(p, d - 1) + Part(k, 0, p.ctrl[d]))

RingIn(p, d, k) ==
  PrgAfter(p)[d - 1] + SumOf(p.prgUse)[d - 1]
    + Unit * Part(k, p.ctrl[d] + p.word[d], p.prg[d])

WordIn(p, b, d, k) ==
  LevelAfter(p, b, d - 1) + SumOf(Mine(p.wordUse, b))[d - 1]
    + IF Parity(d) = b THEN Unit * Part(k, p.ctrl[d], p.word[d]) ELSE 0

----------------------------------------------------------------------------
InSlot == pump = "p1_read" \/ drain_k # 0

CursorInv ==
  /\ drain_frame \in 1 .. Frames /\ drain_k \in Nat /\ lead = 0
  /\ InSlot =>
       /\ drain_frame < Frames /\ drain_k < cur_fsec
       /\ cur_fsec = SlotTime(drain_frame)
       /\ sec_phase = drain_frame % Period
       /\ sec_acc = Due[drain_frame] % SecMod
  /\ ~InSlot =>
       /\ sec_phase = (drain_frame - 1) % Period
       /\ sec_acc = Due[drain_frame - 1] % SecMod

\* The frames that have taken their patterns: all that are fetched, but for the
\* one being expanded.
Expanded == IF spc = "expand" THEN frame_idx - 2 ELSE frame_idx - 1

\* What the two WordBufs hold, with what is pending for them.
Held == [b \in {0, 1} |-> word_level[b] + Waiting(b)]

LevelsAt(p, d, k, f, e, control, patterns, held) ==
  /\ control = ControlIn(p, d, k) - SumOf(p.len)[f]
  /\ patterns = RingIn(p, d, k) - SumOf(p.prgUse)[e]
  /\ \A b \in {0, 1} : held[b] = WordIn(p, b, d, k) - SumOf(Mine(p.wordUse, b))[e]

Levels ==
  LevelsAt(plan, drain_frame, drain_k, frame_idx - 1, Expanded, apply, ring, Held)

\* A fetched frame's control and WordBuf sectors are in.
Fetched ==
  frame_idx >= 2 =>
    \/ drain_frame > frame_idx - 1
    \/ /\ drain_frame = frame_idx - 1
       /\ drain_k >= plan.ctrl[frame_idx - 1] + plan.word[frame_idx - 1]

Stages ==
  /\ spc = "arm_frame1" => frame_idx = 1
  /\ spc \in {"expand", "wait_swap", "flush", "wait_release"} => frame_idx >= 2
  /\ spc \in {"expand", "wait_swap"} => word_owned_bank = Parity(frame_idx - 1)
  /\ spc \in {"arm_frame1", "pf_pump", "flush", "wait_release"} =>
        word_owned_bank = Parity(frame_idx)

PendingAhead ==
  word_pending_count # 0 => word_pending_frame \in frame_idx .. drain_frame

\* A sector that the pump is sent for has room.
Ready ==
  pump # "idle" /\ drain_frame < Frames =>
    /\ ForControl => apply + Unit < ApplySize
    /\ ForWord => WordAcceptGuard
    /\ ForRing => ring + Unit < RingSize

PumpInv ==
  /\ WordInv /\ plan \in Candidates /\ PlanOK(plan)
  /\ CursorInv /\ Levels /\ Fetched /\ Stages /\ PendingAhead /\ Ready
  /\ ring >= 0 /\ RingsBounded
----------------------------------------------------------------------------
(* Sums *)

Less == OpToRel(<, Nat)

LEMMA LessMember == \A x, y \in Nat : x < y => <<x, y>> \in Less
  BY Zenon DEF Less, OpToRel

LEMMA LessWellFounded == IsWellFoundedOn(Less, Nat)
  BY ONLY NatLessThanWellFounded, Zenon DEF Less

LEMMA Minimum ==
  ASSUME NEW S, S \subseteq Nat, S # {}
  PROVE  \E s \in S : \A t \in S : s <= t
<1>1. PICK s \in S : \A t \in S : ~(<<t, s>> \in Less)
  BY ONLY LessWellFounded, WFMin, S \subseteq Nat, S # {}, Zenon
<1>2. \A t \in S : ~(t < s)
  BY <1>1, LessMember
<1>3. \A t \in S : s <= t
  BY <1>2
<1> QED
  BY <1>3

\* A function defined at f from its value at f - k exists, for k = 1 or 2.
IsSum(g, n, k, c, d) ==
  g = [f \in 1 - k .. n |-> IF f <= 0 THEN c[f] ELSE g[f - k] + d[f]]

LEMMA SumExists ==
  ASSUME NEW k \in {1, 2}, NEW c, NEW d
  PROVE  \A n \in Nat : \E g : IsSum(g, n, k, c, d)
<1> DEFINE S == {n \in Nat : ~ \E g : IsSum(g, n, k, c, d)}
<1> SUFFICES ASSUME S # {} PROVE FALSE
  OBVIOUS
<1>1. PICK n \in S : \A t \in S : n <= t
  BY Minimum
<1>2. CASE n = 0
  <2> DEFINE g == [f \in 1 - k .. n |-> c[f]]
  <2>1. IsSum(g, n, k, c, d)
    BY <1>2 DEF IsSum
  <2> QED
    BY <2>1
<1>3. CASE n # 0
  <2>1. n - 1 \in Nat /\ n - 1 \notin S
    BY <1>1, <1>3
  <2>2. PICK g : IsSum(g, n - 1, k, c, d)
    BY <2>1
  <2> DEFINE h == [f \in 1 - k .. n |-> IF f = n THEN g[n - k] + d[n] ELSE g[f]]
  <2>3. \A f \in 1 - k .. n - 1 : g[f] = IF f <= 0 THEN c[f] ELSE g[f - k] + d[f]
    BY <2>1, <2>2 DEF IsSum
  <2>4. \A f \in 1 - k .. n : h[f] = IF f <= 0 THEN c[f] ELSE h[f - k] + d[f]
    <3> SUFFICES ASSUME NEW f \in 1 - k .. n
                 PROVE  h[f] = IF f <= 0 THEN c[f] ELSE h[f - k] + d[f]
      OBVIOUS
    <3>1. CASE f = n
      <4>1. n > 0 /\ n - k \in 1 - k .. n /\ n - k # n
        BY <1>3, <2>1
      <4>2. h[n - k] = g[n - k]
        BY <4>1
      <4> QED
        BY <3>1, <4>1, <4>2
    <3>2. CASE f # n
      <4>1. f \in 1 - k .. n - 1
        BY <3>2, <2>1
      <4>2. h[f] = g[f]
        BY <3>2
      <4>3. f > 0 => f - k \in 1 - k .. n /\ f - k # n
        BY <4>1
      <4> QED
        BY <2>3, <4>1, <4>2, <4>3
    <3> QED
      BY <3>1, <3>2
  <2>5. IsSum(h, n, k, c, d)
    <3>1. h = [f \in 1 - k .. n |-> h[f]]
      OBVIOUS
    <3> HIDE DEF h
    <3> QED
      BY <2>4, <3>1 DEF IsSum
  <2> QED
    BY <2>5
<1> QED
  BY <1>2, <1>3

LEMMA FramesNat == Frames \in Nat /\ Frames >= 2 /\ Frames - 1 \in Nat
  BY SectorPumpAssumption

\* The sum of a column, as SumOf defines it.
LEMMA SumSteps ==
  ASSUME NEW col
  PROVE  /\ SumOf(col)[0] = 0
         /\ \A f \in Timed : SumOf(col)[f] = SumOf(col)[f - 1] + col[f]
<1> DEFINE P(g) == g = [f \in 0 .. Frames - 1 |-> IF f = 0 THEN 0 ELSE g[f - 1] + col[f]]
<1>1. \E g : P(g)
  <2> DEFINE c == [f \in {0} |-> 0]
  <2>1. PICK g : IsSum(g, Frames - 1, 1, c, col)
    BY SumExists, FramesNat
  <2>2. P(g)
    BY <2>1, FramesNat DEF IsSum
  <2> QED
    BY <2>2
<1>2. SumOf(col) = CHOOSE g : P(g)
  BY DEF SumOf
<1>3. P(SumOf(col))
  BY <1>1, <1>2, Zenon
<1> DEFINE s == SumOf(col)
<1> HIDE DEF s
<1>4. P(s)
  BY <1>3 DEF s
<1>5. s[0] = 0 /\ \A f \in Timed : s[f] = s[f - 1] + col[f]
  BY <1>4, FramesNat DEF Timed
<1> QED
  BY <1>5 DEF s

LEMMA IntSteps ==
  ASSUME NEW g, NEW n \in Nat, NEW k \in {1, 2}, \A f \in 1 - k .. 0 : g[f] \in Int,
         \A f \in 1 .. n : g[f - k] \in Int => g[f] \in Int
  PROVE  \A f \in 1 - k .. n : g[f] \in Int
<1> DEFINE S == {f \in 1 .. n : g[f] \notin Int}
<1>1. S = {}
  <2> SUFFICES ASSUME S # {} PROVE FALSE
    OBVIOUS
  <2>1. S \subseteq Nat
    OBVIOUS
  <2>2. PICK f \in S : \A e \in S : f <= e
    BY <2>1, Minimum
  <2>3. f - k \in 1 - k .. n /\ f - k \notin S
    BY <2>2
  <2>4. g[f - k] \in Int
    BY <2>3
  <2>5. f \in 1 .. n /\ g[f] \notin Int
    OBVIOUS
  <2> QED
    BY <2>4, <2>5
<1> QED
  BY <1>1

LEMMA SumIsInt ==
  ASSUME NEW g, NEW n \in Nat, NEW k \in {1, 2}, NEW c, NEW d, IsSum(g, n, k, c, d),
         \A f \in 1 - k .. 0 : c[f] \in Int, \A f \in 1 .. n : d[f] \in Int
  PROVE  \A f \in 1 - k .. n : g[f] \in Int
<1>1. \A f \in 1 - k .. n : g[f] = IF f <= 0 THEN c[f] ELSE g[f - k] + d[f]
  BY DEF IsSum
<1>2. (\A f \in 1 - k .. 0 : g[f] = c[f]) /\ (\A f \in 1 .. n : g[f] = g[f - k] + d[f])
  BY <1>1
<1>3. \A f \in 1 - k .. 0 : g[f] \in Int
  BY <1>2
<1>4. \A f \in 1 .. n : g[f - k] \in Int => g[f] \in Int
  BY <1>2
<1> QED
  BY <1>3, <1>4, IntSteps

LEMMA SumGrows ==
  ASSUME NEW col \in [Timed -> Nat]
  PROVE  \A f \in 0 .. Frames - 1 :
           SumOf(col)[f] \in Nat /\ \A e \in 0 .. f : SumOf(col)[e] <= SumOf(col)[f]
<1> DEFINE s == SumOf(col)
           Bad == {f \in 0 .. Frames - 1 :
                     ~ (s[f] \in Nat /\ \A e \in 0 .. f : s[e] <= s[f])}
<1>1. s[0] = 0 /\ \A f \in Timed : s[f] = s[f - 1] + col[f]
  BY SumSteps
<1> HIDE DEF s
<1>2. Bad = {}
  <2> SUFFICES ASSUME Bad # {} PROVE FALSE
    OBVIOUS
  <2>1. Bad \subseteq Nat
    BY FramesNat
  <2>2. PICK f \in Bad : \A e \in Bad : f <= e
    BY <2>1, Minimum
  <2>3. f # 0
    BY <1>1, <2>2
  <2>4. f \in Timed /\ f - 1 \in 0 .. Frames - 1 /\ f - 1 \notin Bad
    BY <2>2, <2>3, FramesNat DEF Timed
  <2>5. s[f - 1] \in Nat /\ \A e \in 0 .. f - 1 : s[e] <= s[f - 1]
    BY <2>4
  <2>6. col[f] \in Nat /\ s[f] = s[f - 1] + col[f]
    BY <1>1, <2>4
  <2>7. s[f] \in Nat /\ s[f - 1] <= s[f]
    BY <2>5, <2>6
  <2>8. \A e \in 0 .. f : s[e] <= s[f]
    <3> SUFFICES ASSUME NEW e \in 0 .. f PROVE s[e] <= s[f]
      OBVIOUS
    <3>1. CASE e = f
      BY <2>7, <3>1
    <3>2. CASE e # f
      <4>1. e \in 0 .. f - 1
        BY <2>4, <3>2 DEF Timed
      <4>2. s[e] \in Nat
        BY <2>1, <2>2, <2>4, <4>1, FramesNat DEF Timed
      <4> QED
        BY <2>5, <2>7, <4>1, <4>2
    <3> QED
      BY <3>1, <3>2
  <2> QED
    BY <2>2, <2>7, <2>8
<1> QED
  BY <1>2 DEF s

LEMMA CadenceTurns ==
  \A f \in Nat : /\ f % Period \in 0 .. Period - 1
                 /\ ((f % Period) + 1) % Period = (f + 1) % Period
<1>1. CASE Period = 1
  BY <1>1
<1>2. CASE Period = 2
  BY <1>2
<1> QED
  BY <1>1, <1>2, SectorPumpAssumption

\* The CD sectors due, and the two buffers' levels in the encoder's replay.
LEMMA DueSteps ==
  /\ Due[0] = 0
  /\ \A f \in Timed : Due[f] = Due[f - 1] + SecBase[(f - 1) % Period] * SecMod
                                 + SecRem[(f - 1) % Period]
<1> DEFINE d == [f \in Timed |-> SecBase[(f - 1) % Period] * SecMod
                                   + SecRem[(f - 1) % Period]]
           P(g) == g = [f \in 0 .. Frames - 1 |->
                          IF f = 0 THEN 0
                          ELSE g[f - 1] + SecBase[(f - 1) % Period] * SecMod
                                 + SecRem[(f - 1) % Period]]
<1>t. \A f \in Timed : /\ SecBase[(f - 1) % Period] * SecMod \in Int
                       /\ SecRem[(f - 1) % Period] \in Int
  <2> SUFFICES ASSUME NEW f \in Timed
               PROVE  /\ SecBase[(f - 1) % Period] * SecMod \in Int
                      /\ SecRem[(f - 1) % Period] \in Int
    OBVIOUS
  <2>1. (f - 1) % Period \in 0 .. Period - 1
    BY CadenceTurns, FramesNat DEF Timed
  <2>2. SecBase[(f - 1) % Period] \in Nat /\ SecRem[(f - 1) % Period] \in Nat /\ SecMod \in Nat
    BY <2>1, SectorPumpAssumption
  <2> QED
    BY <2>2
<1>1. \E g : P(g)
  <2> DEFINE c == [f \in {0} |-> 0]
  <2>1. PICK g : IsSum(g, Frames - 1, 1, c, d)
    BY SumExists, FramesNat
  <2>2. \A f \in 0 .. 0 : c[f] \in Int
    OBVIOUS
  <2>3. \A f \in Timed : d[f] \in Int
    BY <1>t
  <2>4. \A f \in 0 .. Frames - 1 : g[f] \in Int
    <3> HIDE DEF c, d
    <3>1. \A f \in 1 - 1 .. Frames - 1 : g[f] \in Int
      BY <2>1, <2>2, <2>3, SumIsInt, FramesNat DEF Timed
    <3> QED
      BY <3>1
  <2>5. P(g)
    <3>1. g = [f \in 0 .. Frames - 1 |-> IF f = 0 THEN 0 ELSE g[f - 1] + d[f]]
      BY <2>1, FramesNat DEF IsSum
    <3>2. \A f \in 0 .. Frames - 1 : f # 0 =>
            g[f - 1] + d[f] = g[f - 1] + SecBase[(f - 1) % Period] * SecMod
                                 + SecRem[(f - 1) % Period]
      BY <1>t, <2>4, FramesNat DEF Timed
    <3> HIDE DEF d
    <3> QED
      BY <3>1, <3>2
  <2> QED
    BY <2>5
<1>2. Due = CHOOSE g : P(g)
  BY DEF Due
<1>3. P(Due)
  BY <1>1, <1>2, Zenon
<1> QED
  BY <1>3, FramesNat DEF Timed

LEMMA PrgLevels ==
  ASSUME NEW p \in Table
  PROVE  /\ PrgAfter(p)[0] = PreBuf
         /\ \A f \in Timed :
              PrgAfter(p)[f] = PrgAfter(p)[f - 1] + Unit * p.prg[f] - p.prgUse[f]
         /\ \A f \in 0 .. Frames - 1 : PrgAfter(p)[f] \in Int
<1> DEFINE c == [f \in {0} |-> PreBuf]
           d == [f \in Timed |-> Unit * p.prg[f] - p.prgUse[f]]
           P(g) == g = [f \in 0 .. Frames - 1 |->
                          IF f = 0 THEN PreBuf
                          ELSE g[f - 1] + Unit * p.prg[f] - p.prgUse[f]]
<1>1. \A f \in Timed : p.prg[f] \in Nat /\ p.prgUse[f] \in Nat
  BY DEF Table
<1>2. PICK g : IsSum(g, Frames - 1, 1, c, d)
  BY SumExists, FramesNat
<1>3. (\A f \in 0 .. 0 : c[f] \in Int) /\ (\A f \in Timed : d[f] \in Int)
  BY <1>1, SectorPumpAssumption DEF Unit
<1>4. \A f \in 0 .. Frames - 1 : g[f] \in Int
  <2> HIDE DEF c, d
  <2>1. \A f \in 1 - 1 .. Frames - 1 : g[f] \in Int
    BY <1>2, <1>3, SumIsInt, FramesNat DEF Timed
  <2> QED
    BY <2>1
<1>5. P(g)
  <2>1. g = [f \in 0 .. Frames - 1 |-> IF f = 0 THEN PreBuf ELSE g[f - 1] + d[f]]
    <3>1. c[0] = PreBuf
      OBVIOUS
    <3> HIDE DEF c, d, P
    <3> QED
      BY <1>2, <3>1, FramesNat DEF IsSum
  <2>2. \A f \in 0 .. Frames - 1 : f # 0 =>
          g[f - 1] + d[f] = g[f - 1] + Unit * p.prg[f] - p.prgUse[f]
    BY <1>1, <1>4, FramesNat DEF Timed, Unit
  <2> HIDE DEF d
  <2> QED
    BY <2>1, <2>2
<1>6. PrgAfter(p) = CHOOSE h : P(h)
  BY DEF PrgAfter
<1>7. P(PrgAfter(p))
  BY <1>5, <1>6, Zenon
<1> DEFINE s == PrgAfter(p)
<1> HIDE DEF s
<1>8. P(s)
  BY <1>7 DEF s
<1>9. /\ s[0] = PreBuf
      /\ \A f \in Timed : s[f] = s[f - 1] + Unit * p.prg[f] - p.prgUse[f]
  BY <1>8, FramesNat DEF Timed
<1>10. \A f \in 0 .. Frames - 1 : s[f] \in Int
  <2>1. \A f \in 1 - 1 .. 0 : s[f] \in Int
    BY <1>9, SectorPumpAssumption
  <2>2. \A f \in 1 .. Frames - 1 : s[f - 1] \in Int => s[f] \in Int
    BY <1>1, <1>9 DEF Unit, Timed
  <2>3. \A f \in 1 - 1 .. Frames - 1 : s[f] \in Int
    BY <2>1, <2>2, IntSteps, FramesNat
  <2> QED
    BY <2>3
<1> QED
  BY <1>9, <1>10 DEF s

LEMMA WordLevels ==
  ASSUME NEW p \in Table
  PROVE  /\ \A f \in {-1, 0} : WordAfter(p)[f] = WordBoot[Parity(f + 2)]
         /\ \A f \in Timed :
              WordAfter(p)[f] = WordAfter(p)[f - 2] + Unit * p.word[f] - p.wordUse[f]
         /\ \A f \in -1 .. Frames - 1 : WordAfter(p)[f] \in Int
<1> DEFINE c == [f \in {-1, 0} |-> WordBoot[Parity(f + 2)]]
           d == [f \in Timed |-> Unit * p.word[f] - p.wordUse[f]]
           P(g) == g = [f \in -1 .. Frames - 1 |->
                          IF f <= 0 THEN WordBoot[Parity(f + 2)]
                          ELSE g[f - 2] + Unit * p.word[f] - p.wordUse[f]]
<1>1. \A f \in Timed : p.word[f] \in Nat /\ p.wordUse[f] \in Nat
  BY DEF Table
<1>2. PICK g : IsSum(g, Frames - 1, 2, c, d)
  BY SumExists, FramesNat
<1>3. \A f \in {-1, 0} : WordBoot[Parity(f + 2)] \in Int
  <2>1. \A f \in {-1, 0} : Parity(f + 2) \in {0, 1}
    BY DEF Parity
  <2>2. \A b \in {0, 1} : WordBoot[b] \in Int
    BY SectorPumpAssumption
  <2> QED
    BY <2>1, <2>2
<1>4. \A f \in -1 .. Frames - 1 : g[f] \in Int
  <2>1. \A f \in 1 - 2 .. 0 : c[f] \in Int
    BY <1>3
  <2>2. \A f \in 1 .. Frames - 1 : d[f] \in Int
    BY <1>1 DEF Unit, Timed
  <2> HIDE DEF c, d
  <2>3. \A f \in 1 - 2 .. Frames - 1 : g[f] \in Int
    BY <1>2, <2>1, <2>2, SumIsInt, FramesNat
  <2> QED
    BY <2>3
<1>5. P(g)
  <2>1. g = [f \in -1 .. Frames - 1 |-> IF f <= 0 THEN c[f] ELSE g[f - 2] + d[f]]
    <3> HIDE DEF c, d, P
    <3>1. 1 - 2 = -1
      OBVIOUS
    <3> QED
      BY <1>2, <3>1 DEF IsSum
  <2>2. \A f \in -1 .. Frames - 1 : ~(f <= 0) =>
          g[f - 2] + d[f] = g[f - 2] + Unit * p.word[f] - p.wordUse[f]
    BY <1>1, <1>4, FramesNat DEF Timed, Unit
  <2>3. \A f \in -1 .. Frames - 1 : f <= 0 => c[f] = WordBoot[Parity(f + 2)]
    BY FramesNat
  <2> HIDE DEF c, d
  <2> QED
    BY <2>1, <2>2, <2>3
<1>6. WordAfter(p) = CHOOSE h : P(h)
  BY DEF WordAfter
<1>7. P(WordAfter(p))
  BY <1>5, <1>6, Zenon
<1> DEFINE s == WordAfter(p)
<1> HIDE DEF s
<1>8. P(s)
  BY <1>7 DEF s
<1>9. /\ \A f \in {-1, 0} : s[f] = WordBoot[Parity(f + 2)]
      /\ \A f \in Timed : s[f] = s[f - 2] + Unit * p.word[f] - p.wordUse[f]
  BY <1>8, FramesNat DEF Timed
<1>10. \A f \in -1 .. Frames - 1 : s[f] \in Int
  <2>1. \A f \in 1 - 2 .. 0 : s[f] \in Int
    BY <1>3, <1>9
  <2>2. \A f \in 1 .. Frames - 1 : s[f - 2] \in Int => s[f] \in Int
    BY <1>1, <1>9 DEF Unit, Timed
  <2>3. \A f \in 1 - 2 .. Frames - 1 : s[f] \in Int
    BY <2>1, <2>2, IntSteps, FramesNat
  <2> QED
    BY <2>3
<1> QED
  BY <1>9, <1>10 DEF s

LEMMA Quotient ==
  ASSUME NEW m \in Nat \ {0}, NEW x \in Nat, NEW q \in Nat, NEW r \in 0 .. m - 1,
         x = q * m + r
  PROVE  x \div m = q /\ x % m = r
  OBVIOUS

LEMMA Rest ==
  ASSUME NEW m \in Nat \ {0}, NEW x \in Nat
  PROVE  /\ x \div m \in Nat /\ x % m \in 0 .. m - 1
         /\ x = (x \div m) * m + (x % m)
<1>1. x % m \in 0 .. m - 1
  OBVIOUS
<1>2. x \div m \in Nat
  OBVIOUS
<1>3. x = (x \div m) * m + (x % m)
  OBVIOUS
<1> QED
  BY <1>1, <1>2, <1>3

LEMMA DueNat == \A f \in 0 .. Frames - 1 : Due[f] \in Nat
<1> DEFINE Bad == {f \in 0 .. Frames - 1 : Due[f] \notin Nat}
<1>1. Bad = {}
  <2> SUFFICES ASSUME Bad # {} PROVE FALSE
    OBVIOUS
  <2>1. PICK f \in Bad : \A e \in Bad : f <= e
    <3>1. Bad \subseteq Nat
      BY FramesNat
    <3> QED
      BY <3>1, Minimum
  <2>2. f # 0
    BY <2>1, DueSteps
  <2>3. f \in Timed /\ f - 1 \in 0 .. Frames - 1 /\ f - 1 \notin Bad
    BY <2>1, <2>2, FramesNat DEF Timed
  <2>4. Due[f - 1] \in Nat
    BY <2>3
  <2>5. (f - 1) % Period \in 0 .. Period - 1
    BY <2>3, CadenceTurns, FramesNat DEF Timed
  <2>6. SecBase[(f - 1) % Period] * SecMod \in Nat /\ SecRem[(f - 1) % Period] \in Nat
    <3>1. /\ SecBase[(f - 1) % Period] \in Nat /\ SecMod \in Nat
          /\ SecRem[(f - 1) % Period] \in Nat
      BY <2>5, SectorPumpAssumption
    <3> QED
      BY <3>1
  <2> QED
    BY <2>1, <2>3, <2>4, <2>6, DueSteps
<1> QED
  BY <1>1

\* The cursor's accumulator carries exactly when the CD's clock does.
LEMMA SlotClock ==
  ASSUME NEW f \in Timed
  PROVE  LET acc == (Due[f - 1] % SecMod) + SecRem[(f - 1) % Period]
             carry == One(acc >= SecMod)
         IN  /\ Due[f] % SecMod = acc - carry * SecMod
             /\ SlotTime(f) = SecBase[(f - 1) % Period] + carry
             /\ SlotTime(f) \in Nat \ {0}
<1> DEFINE m == SecMod
           b == SecBase[(f - 1) % Period]
           r == SecRem[(f - 1) % Period]
           q == Due[f - 1] \div m
           a == Due[f - 1] % m
<1>1. m \in Nat \ {0} /\ b \in Nat \ {0} /\ r \in 0 .. m - 1
  <2>1. (f - 1) % Period \in 0 .. Period - 1
    BY CadenceTurns, FramesNat DEF Timed
  <2> QED
    BY <2>1, SectorPumpAssumption
<1>2. Due[f - 1] \in Nat /\ Due[f] \in Nat
  BY DueNat, FramesNat DEF Timed
<1>3. Due[f] = Due[f - 1] + b * m + r
  BY DueSteps
<1>4. q \in Nat /\ a \in 0 .. m - 1 /\ Due[f - 1] = q * m + a
  BY <1>1, <1>2, Rest
<1>g. SlotTime(f) = (Due[f] \div m) - q
  BY DEF SlotTime
<1> HIDE DEF m, b, r, q, a
<1>5. CASE a + r >= m
  <2>1. Due[f] = (q + b + 1) * m + (a + r - m)
    BY <1>1, <1>3, <1>4
  <2>2. a + r - m \in 0 .. m - 1 /\ q + b + 1 \in Nat
    BY <1>1, <1>4, <1>5
  <2>3. Due[f] \div m = q + b + 1 /\ Due[f] % m = a + r - m
    BY <1>1, <1>2, <2>1, <2>2, Quotient
  <2>4. SlotTime(f) = b + 1
    BY <1>1, <1>4, <2>3, <1>g
  <2> QED
    BY <1>1, <1>4, <1>5, <2>3, <2>4 DEF One, m, b, r, a
<1>6. CASE ~(a + r >= m)
  <2>1. Due[f] = (q + b) * m + (a + r)
    BY <1>1, <1>3, <1>4
  <2>2. a + r \in 0 .. m - 1 /\ q + b \in Nat
    BY <1>1, <1>4, <1>6
  <2>3. Due[f] \div m = q + b /\ Due[f] % m = a + r
    BY <1>1, <1>2, <2>1, <2>2, Quotient
  <2>4. SlotTime(f) = b
    BY <1>1, <1>4, <2>3, <1>g
  <2> QED
    BY <1>1, <1>4, <1>6, <2>3, <2>4 DEF One, m, b, r, a
<1> QED
  BY <1>5, <1>6

----------------------------------------------------------------------------
(* What the encoder's replay has checked of a table *)

LEMMA TablePlan ==
  ASSUME NEW p \in Table, NEW f \in Timed
  PROVE  /\ p.len[f] \in Nat /\ p.ctrl[f] \in Nat /\ p.word[f] \in Nat
         /\ p.prg[f] \in Nat /\ p.wordUse[f] \in Nat /\ p.prgUse[f] \in Nat
  BY DEF Table

LEMMA PlanFacts ==
  ASSUME NEW p \in Table, PlanOK(p), NEW f \in Timed
  PROVE  /\ p.ctrl[f] = Sectors(p, f) - Sectors(p, f - 1)
         /\ p.ctrl[f] + p.word[f] + p.prg[f] <= SlotTime(f)
         /\ PrgAfter(p)[f - 1] >= p.prgUse[f]
         /\ PrgAfter(p)[f] + p.prgUse[f] <= PrgCap
         /\ WordAfter(p)[f - 2] >= p.wordUse[f]
<1>1. p.ctrl[f] = JustInTime(p.len)[f]
  BY DEF PlanOK
<1>2. JustInTime(p.len)[f] = Sectors(p, f) - Sectors(p, f - 1)
  BY DEF JustInTime, Sectors, SumOf
<1>3. /\ p.ctrl[f] + p.word[f] + p.prg[f] <= SlotTime(f)
      /\ PrgAfter(p)[f - 1] >= p.prgUse[f]
      /\ PrgAfter(p)[f] + p.prgUse[f] <= PrgCap
      /\ WordAfter(p)[f - 2] >= p.wordUse[f]
  BY Zenon DEF PlanOK
<1> QED
  BY <1>1, <1>2, <1>3

\* A frame's control is there with the sectors that the table has up to it, and
\* less than a sector too much of it.
LEMMA ControlInTime ==
  ASSUME NEW p \in Table
  PROVE  \A f \in 0 .. Frames - 1 :
           /\ SumOf(p.len)[f] \in Nat /\ Sectors(p, f) \in Nat
           /\ Unit * Sectors(p, f) - SumOf(p.len)[f] \in {0, 1}
           /\ \A e \in 0 .. f : Sectors(p, e) <= Sectors(p, f)
<1>1. p.len \in [Timed -> Nat]
  BY DEF Table
<1>2. \A f \in 0 .. Frames - 1 :
        SumOf(p.len)[f] \in Nat /\ \A e \in 0 .. f : SumOf(p.len)[e] <= SumOf(p.len)[f]
  BY <1>1, SumGrows
<1> SUFFICES ASSUME NEW f \in 0 .. Frames - 1
             PROVE  /\ SumOf(p.len)[f] \in Nat /\ Sectors(p, f) \in Nat
                    /\ Unit * Sectors(p, f) - SumOf(p.len)[f] \in {0, 1}
                    /\ \A e \in 0 .. f : Sectors(p, e) <= Sectors(p, f)
  OBVIOUS
<1>3. SumOf(p.len)[f] \in Nat
  BY <1>2
<1>4. \A e \in 0 .. f : e \in 0 .. Frames - 1 /\ SumOf(p.len)[e] \in Nat
                        /\ SumOf(p.len)[e] <= SumOf(p.len)[f]
  BY <1>2, FramesNat
<1>5. \A e \in 0 .. f : Sectors(p, e) <= Sectors(p, f)
  BY <1>3, <1>4 DEF Sectors, Unit
<1>6. Sectors(p, f) \in Nat /\ Unit * Sectors(p, f) - SumOf(p.len)[f] \in {0, 1}
  BY <1>3 DEF Sectors, Unit
<1> QED
  BY <1>3, <1>5, <1>6

LEMMA PartNone == \A a, n : Part(0, a, n) = 0
  BY DEF Part

LEMMA ParityTurns == \A f \in Int : Parity(f) \in {0, 1} /\ Parity(f + 1) = 1 - Parity(f)
  BY DEF Parity

LEMMA MineFacts ==
  ASSUME NEW p \in Table, NEW b \in {0, 1}
  PROVE  /\ Mine(p.wordUse, b) \in [Timed -> Nat]
         /\ \A f \in Timed :
              SumOf(Mine(p.wordUse, b))[f]
                = SumOf(Mine(p.wordUse, b))[f - 1] + One(Parity(f) = b) * p.wordUse[f]
         /\ \A f \in 0 .. Frames - 1 :
              SumOf(Mine(p.wordUse, b))[f] \in Nat
              /\ \A e \in 0 .. f :
                   SumOf(Mine(p.wordUse, b))[e] <= SumOf(Mine(p.wordUse, b))[f]
<1>1. \A f \in Timed : p.wordUse[f] \in Nat
  BY TablePlan
<1>2. Mine(p.wordUse, b) \in [Timed -> Nat]
  BY <1>1 DEF Mine
<1>3. \A f \in Timed : Mine(p.wordUse, b)[f] = One(Parity(f) = b) * p.wordUse[f]
  BY <1>1 DEF Mine, One
<1>4. \A f \in Timed :
        SumOf(Mine(p.wordUse, b))[f]
          = SumOf(Mine(p.wordUse, b))[f - 1] + Mine(p.wordUse, b)[f]
  BY SumSteps
<1>5. \A f \in 0 .. Frames - 1 :
        SumOf(Mine(p.wordUse, b))[f] \in Nat
        /\ \A e \in 0 .. f :
             SumOf(Mine(p.wordUse, b))[e] <= SumOf(Mine(p.wordUse, b))[f]
  BY <1>2, SumGrows
<1> HIDE DEF Mine
<1> QED
  BY <1>2, <1>3, <1>4, <1>5

LEMMA LevelSteps ==
  ASSUME NEW p \in Table, NEW b \in {0, 1}
  PROVE  /\ LevelAfter(p, b, 0) = WordBoot[b]
         /\ \A f \in 0 .. Frames - 1 : LevelAfter(p, b, f) \in Int
         /\ \A f \in Timed :
              LevelAfter(p, b, f)
                = LevelAfter(p, b, f - 1)
                    + One(Parity(f) = b) * (Unit * p.word[f] - p.wordUse[f])
<1> DEFINE w == WordAfter(p)
<1>1. /\ \A f \in {-1, 0} : w[f] = WordBoot[Parity(f + 2)]
      /\ \A f \in Timed : w[f] = w[f - 2] + Unit * p.word[f] - p.wordUse[f]
      /\ \A f \in -1 .. Frames - 1 : w[f] \in Int
  BY WordLevels
<1>2. \A f \in Timed : p.word[f] \in Nat /\ p.wordUse[f] \in Nat
  BY TablePlan
<1> HIDE DEF w
<1>3. LevelAfter(p, b, 0) = WordBoot[b]
  <2>1. Parity(0) = 0 /\ Parity(0 + 2) = 0 /\ Parity(0 - 1 + 2) = 1 /\ 0 - 1 = -1
    BY DEF Parity
  <2>2. w[0] = WordBoot[0] /\ w[0 - 1] = WordBoot[1]
    BY <1>1, <2>1
  <2> QED
    BY <2>1, <2>2 DEF LevelAfter, w
<1>4. \A f \in 0 .. Frames - 1 : LevelAfter(p, b, f) \in Int
  BY <1>1, FramesNat DEF LevelAfter, w
<1>5. \A f \in Timed :
        LevelAfter(p, b, f)
          = LevelAfter(p, b, f - 1)
              + One(Parity(f) = b) * (Unit * p.word[f] - p.wordUse[f])
  <2> SUFFICES ASSUME NEW f \in Timed
               PROVE  LevelAfter(p, b, f)
                        = LevelAfter(p, b, f - 1)
                            + One(Parity(f) = b) * (Unit * p.word[f] - p.wordUse[f])
    OBVIOUS
  <2>1. f \in 1 .. Frames - 1 /\ f - 1 \in Int /\ f - 1 + 1 = f /\ f - 1 - 1 = f - 2
    BY FramesNat DEF Timed
  <2>2. Parity(f) \in {0, 1} /\ Parity(f) = 1 - Parity(f - 1) /\ Parity(f - 1) \in {0, 1}
    BY <2>1, ParityTurns
  <2>3. w[f - 1] \in Int /\ w[f - 2] \in Int
    <3>1. f - 1 \in -1 .. Frames - 1 /\ f - 2 \in -1 .. Frames - 1
      BY <2>1, FramesNat
    <3> QED
      BY <1>1, <3>1
  <2>4. LevelAfter(p, b, f) = IF Parity(f) = b THEN w[f] ELSE w[f - 1]
    BY DEF LevelAfter, w
  <2>5. LevelAfter(p, b, f - 1) = IF Parity(f) = b THEN w[f - 2] ELSE w[f - 1]
    BY <2>1, <2>2 DEF LevelAfter, w
  <2> QED
    BY <1>1, <1>2, <2>3, <2>4, <2>5 DEF One, Unit
<1> QED
  BY <1>3, <1>4, <1>5

LEMMA PrgUseFacts ==
  ASSUME NEW p \in Table
  PROVE  /\ \A f \in Timed :
              SumOf(p.prgUse)[f] = SumOf(p.prgUse)[f - 1] + p.prgUse[f]
         /\ \A f \in 0 .. Frames - 1 :
              SumOf(p.prgUse)[f] \in Nat
              /\ \A e \in 0 .. f : SumOf(p.prgUse)[e] <= SumOf(p.prgUse)[f]
<1>1. p.prgUse \in [Timed -> Nat]
  BY DEF Table
<1> QED
  BY <1>1, SumSteps, SumGrows

----------------------------------------------------------------------------
(* What one more sector of the table delivers *)

\* Where the cursor goes from sector k of slot d.
Follows(e, l, d, k) ==
  \/ e = d /\ l = k + 1
  \/ e = d + 1 /\ l = 0 /\ k + 1 >= SlotTime(d)

\* At the head of the slot after x.
LEMMA AtHead ==
  ASSUME NEW p \in Table, NEW x \in 0 .. Frames - 1, NEW d, x = d - 1
  PROVE  /\ ControlIn(p, d, 0) = Unit * Sectors(p, x)
         /\ RingIn(p, d, 0) = PrgAfter(p)[x] + SumOf(p.prgUse)[x]
         /\ \A b \in {0, 1} : WordIn(p, b, d, 0)
                                = LevelAfter(p, b, x) + SumOf(Mine(p.wordUse, b))[x]
<1>1. Sectors(p, x) \in Int
  BY ControlInTime
<1>2. PrgAfter(p)[x] \in Int /\ SumOf(p.prgUse)[x] \in Int
  BY PrgLevels, PrgUseFacts
<1>3. ControlIn(p, d, 0) = Unit * Sectors(p, x)
  BY <1>1, PartNone DEF ControlIn, Unit
<1>4. RingIn(p, d, 0) = PrgAfter(p)[x] + SumOf(p.prgUse)[x]
  <2>1. RingIn(p, d, 0) = PrgAfter(p)[x] + SumOf(p.prgUse)[x] + Unit * 0
    BY PartNone DEF RingIn
  <2> QED
    BY <1>2, <2>1 DEF Unit
<1>5. ASSUME NEW b \in {0, 1}
      PROVE  WordIn(p, b, d, 0) = LevelAfter(p, b, x) + SumOf(Mine(p.wordUse, b))[x]
  <2> DEFINE l == LevelAfter(p, b, x)
             s == SumOf(Mine(p.wordUse, b))[x]
             z == IF Parity(d) = b THEN Unit * Part(0, p.ctrl[d], p.word[d]) ELSE 0
  <2>1. l \in Int /\ s \in Int
    BY LevelSteps, MineFacts
  <2>2. z = 0
    BY PartNone DEF Unit
  <2>3. WordIn(p, b, d, 0) = l + s + z
    BY DEF WordIn
  <2> HIDE DEF l, s, z
  <2>4. WordIn(p, b, d, 0) = l + s
    BY <2>1, <2>2, <2>3
  <2> QED
    BY <2>4 DEF l, s
<1> QED
  BY <1>3, <1>4, <1>5

LEMMA ControlMoves ==
  ASSUME NEW p \in Table, PlanOK(p), NEW d \in Timed, NEW k \in Nat,
         NEW e, NEW l, Follows(e, l, d, k)
  PROVE  ControlIn(p, e, l) = ControlIn(p, d, k) + (IF k < p.ctrl[d] THEN Unit ELSE 0)
<1>1. /\ p.ctrl[d] \in Nat /\ p.word[d] \in Nat /\ p.prg[d] \in Nat
      /\ p.ctrl[d] = Sectors(p, d) - Sectors(p, d - 1)
      /\ p.ctrl[d] + p.word[d] + p.prg[d] <= SlotTime(d)
  BY TablePlan, PlanFacts
<1>2. Sectors(p, d) \in Nat /\ Sectors(p, d - 1) \in Nat /\ SlotTime(d) \in Nat /\ d \in Nat
  <2>1. d \in 0 .. Frames - 1 /\ d - 1 \in 0 .. Frames - 1
    BY FramesNat DEF Timed
  <2> QED
    BY <2>1, ControlInTime, SlotClock
<1>3. /\ Part(k, 0, p.ctrl[d]) \in 0 .. p.ctrl[d]
      /\ Part(k + 1, 0, p.ctrl[d]) = Part(k, 0, p.ctrl[d]) + (IF k < p.ctrl[d] THEN 1 ELSE 0)
      /\ k + 1 >= p.ctrl[d] => Part(k + 1, 0, p.ctrl[d]) = p.ctrl[d]
  BY <1>1 DEF Part, One
<1>5. CASE e = d /\ l = k + 1
  BY <1>1, <1>2, <1>3, <1>5 DEF ControlIn, Unit
<1>6. CASE e = d + 1 /\ l = 0 /\ k + 1 >= SlotTime(d)
  <2>1. ControlIn(p, e, l) = Unit * Sectors(p, d)
    <3>1. d \in 0 .. Frames - 1 /\ d = e - 1
      BY <1>2, <1>6 DEF Timed
    <3> QED
      BY <1>6, <3>1, AtHead
  <2>2. Part(k, 0, p.ctrl[d]) + (IF k < p.ctrl[d] THEN 1 ELSE 0) = p.ctrl[d]
    BY <1>1, <1>2, <1>3, <1>6
  <2> QED
    BY <1>1, <1>2, <1>3, <2>1, <2>2 DEF ControlIn, Unit
<1> QED
  BY <1>5, <1>6 DEF Follows

LEMMA RingMoves ==
  ASSUME NEW p \in Table, PlanOK(p), NEW d \in Timed, NEW k \in Nat,
         NEW e, NEW l, Follows(e, l, d, k)
  PROVE  RingIn(p, e, l)
           = RingIn(p, d, k) + IF /\ p.ctrl[d] + p.word[d] <= k
                                  /\ k < p.ctrl[d] + p.word[d] + p.prg[d]
                               THEN Unit ELSE 0
<1> DEFINE a == p.ctrl[d] + p.word[d]
           n == p.prg[d]
           one == IF a <= k /\ k < a + n THEN 1 ELSE 0
<1>1. /\ a \in Nat /\ n \in Nat /\ p.prgUse[d] \in Nat
      /\ a + n <= SlotTime(d)
  BY TablePlan, PlanFacts
<1>2. SlotTime(d) \in Nat /\ d \in Nat /\ d - 1 \in 0 .. Frames - 1
  BY FramesNat, SlotClock DEF Timed
<1>3. /\ PrgAfter(p)[d] = PrgAfter(p)[d - 1] + Unit * n - p.prgUse[d]
      /\ PrgAfter(p)[d - 1] \in Int
      /\ SumOf(p.prgUse)[d] = SumOf(p.prgUse)[d - 1] + p.prgUse[d]
      /\ SumOf(p.prgUse)[d - 1] \in Nat
  BY <1>2, PrgLevels, PrgUseFacts
<1>4. RingIn(p, d, k) = PrgAfter(p)[d - 1] + SumOf(p.prgUse)[d - 1] + Unit * Part(k, a, n)
  BY DEF RingIn
<1>5. Unit * one = IF /\ p.ctrl[d] + p.word[d] <= k
                      /\ k < p.ctrl[d] + p.word[d] + p.prg[d]
                   THEN Unit ELSE 0
  BY DEF Unit
<1>6. one \in {0, 1}
  OBVIOUS
<1> HIDE DEF a, n, one
<1>7. /\ Part(k, a, n) \in 0 .. n
      /\ Part(k + 1, a, n) = Part(k, a, n) + one
      /\ k + 1 >= a + n => Part(k + 1, a, n) = n
  BY <1>1 DEF Part, one
<1>8. CASE e = d /\ l = k + 1
  <2>1. RingIn(p, e, l)
          = PrgAfter(p)[d - 1] + SumOf(p.prgUse)[d - 1] + Unit * Part(k + 1, a, n)
    BY <1>8 DEF RingIn, a, n
  <2> QED
    BY <1>1, <1>3, <1>4, <1>5, <1>6, <1>7, <2>1 DEF Unit
<1>9. CASE e = d + 1 /\ l = 0 /\ k + 1 >= SlotTime(d)
  <2>1. RingIn(p, e, l) = PrgAfter(p)[d] + SumOf(p.prgUse)[d]
    <3>1. d \in 0 .. Frames - 1 /\ d = e - 1
      BY <1>2, <1>9 DEF Timed
    <3> QED
      BY <1>9, <3>1, AtHead
  <2>2. Part(k, a, n) + one = n
    BY <1>1, <1>2, <1>7, <1>9
  <2> QED
    BY <1>1, <1>3, <1>4, <1>5, <1>6, <1>7, <2>1, <2>2 DEF Unit
<1> QED
  BY <1>8, <1>9 DEF Follows

LEMMA WordMoves ==
  ASSUME NEW p \in Table, PlanOK(p), NEW d \in Timed, NEW k \in Nat,
         NEW e, NEW l, Follows(e, l, d, k), NEW b \in {0, 1}
  PROVE  WordIn(p, b, e, l)
           = WordIn(p, b, d, k) + IF /\ Parity(d) = b /\ p.ctrl[d] <= k
                                     /\ k < p.ctrl[d] + p.word[d]
                                  THEN Unit ELSE 0
<1> DEFINE a == p.ctrl[d]
           n == p.word[d]
           u == p.wordUse[d]
           one == IF Parity(d) = b /\ a <= k /\ k < a + n THEN 1 ELSE 0
           L(f) == LevelAfter(p, b, f)
           S(f) == SumOf(Mine(p.wordUse, b))[f]
           part(j) == IF Parity(d) = b THEN Unit * Part(j, a, n) ELSE 0
<1>1. /\ a \in Nat /\ n \in Nat /\ u \in Nat
      /\ a + n <= SlotTime(d)
  <2>1. /\ p.ctrl[d] \in Nat /\ p.word[d] \in Nat /\ p.prg[d] \in Nat
        /\ p.ctrl[d] + p.word[d] + p.prg[d] <= SlotTime(d) /\ SlotTime(d) \in Nat
    BY TablePlan, PlanFacts, SlotClock
  <2> QED
    BY <2>1, TablePlan
<1>2. SlotTime(d) \in Nat /\ d \in Nat /\ d - 1 \in 0 .. Frames - 1
  BY FramesNat, SlotClock DEF Timed
<1>3. /\ L(d) = L(d - 1) + One(Parity(d) = b) * (Unit * n - u)
      /\ L(d - 1) \in Int
      /\ S(d) = S(d - 1) + One(Parity(d) = b) * u
      /\ S(d - 1) \in Nat
  BY <1>2, LevelSteps, MineFacts
<1>4. WordIn(p, b, d, k) = L(d - 1) + S(d - 1) + part(k)
  BY DEF WordIn
<1>5. Unit * one = IF /\ Parity(d) = b /\ p.ctrl[d] <= k
                      /\ k < p.ctrl[d] + p.word[d]
                   THEN Unit ELSE 0
  BY DEF Unit
<1>6. one \in {0, 1}
  OBVIOUS
<1>7. /\ Part(k, a, n) \in 0 .. n
      /\ Part(k + 1, a, n) = Part(k, a, n) + (IF a <= k /\ k < a + n THEN 1 ELSE 0)
      /\ k + 1 >= a + n => Part(k + 1, a, n) = n
  BY <1>1 DEF Part
<1>8. part(k + 1) = part(k) + Unit * one /\ part(k) \in Int
  <2> HIDE DEF a, n
  <2> QED
    BY <1>1, <1>7 DEF One, Unit
<1>9. CASE e = d /\ l = k + 1
  <2>1. WordIn(p, b, e, l) = L(d - 1) + S(d - 1) + part(k + 1)
    BY <1>9 DEF WordIn
  <2> HIDE DEF L, S, one, part
  <2> QED
    BY <1>3, <1>4, <1>5, <1>6, <1>8, <2>1 DEF Unit
<1>10. CASE e = d + 1 /\ l = 0 /\ k + 1 >= SlotTime(d)
  <2>0. L(d) \in Int /\ S(d) \in Int
    <3> HIDE DEF L, S, a, n, u
    <3> QED
      BY <1>1, <1>3 DEF One, Unit
  <2>1. WordIn(p, b, e, l) = L(d) + S(d)
    <3>1. d \in 0 .. Frames - 1 /\ d = e - 1
      BY <1>2, <1>10 DEF Timed
    <3> QED
      BY <1>10, <3>1, AtHead
  <2>2. part(k + 1) = One(Parity(d) = b) * (Unit * n)
    <3>1. k + 1 >= a + n
      BY <1>1, <1>2, <1>10
    <3>2. Part(k + 1, a, n) = n
      BY <1>7, <3>1
    <3> HIDE DEF a, n
    <3> QED
      BY <1>1, <3>2 DEF One, Unit
  <2>3. L(d) + S(d) = L(d - 1) + S(d - 1) + part(k + 1)
    <3> HIDE DEF L, S, part, a, n, u
    <3>1. CASE Parity(d) = b
      BY <1>1, <1>3, <2>0, <2>2, <3>1 DEF One, Unit
    <3>2. CASE Parity(d) # b
      BY <1>1, <1>3, <2>0, <2>2, <3>2 DEF One, Unit
    <3> QED
      BY <3>1, <3>2
  <2> HIDE DEF L, S, one, part
  <2> QED
    BY <1>3, <1>4, <1>5, <1>6, <1>8, <2>1, <2>3 DEF Unit
<1> QED
  BY <1>9, <1>10 DEF Follows

----------------------------------------------------------------------------
(* Enough is delivered in time, and never more than there is room for *)

\* Where a cursor may be.
At(d, k) == d \in 1 .. Frames /\ k \in Nat /\ (k # 0 => d < Frames)

LEMMA PartBounds ==
  ASSUME NEW p \in Table, NEW d, NEW k, At(d, k)
  PROVE  /\ Part(k, 0, p.ctrl[d]) \in Nat
         /\ Part(k, p.ctrl[d], p.word[d]) \in Nat
         /\ Part(k, p.ctrl[d] + p.word[d], p.prg[d]) \in Nat
<1>1. CASE k = 0
  BY <1>1, PartNone
<1>2. CASE k # 0
  <2>1. d \in Timed /\ k \in Nat
    BY <1>2, FramesNat DEF At, Timed
  <2>2. p.ctrl[d] \in Nat /\ p.word[d] \in Nat /\ p.prg[d] \in Nat
    BY <2>1, TablePlan
  <2> QED
    BY <2>1, <2>2 DEF Part
<1> QED
  BY <1>1, <1>2

LEMMA InIsInt ==
  ASSUME NEW p \in Table, NEW d, NEW k, At(d, k)
  PROVE  /\ ControlIn(p, d, k) \in Int /\ RingIn(p, d, k) \in Int
         /\ \A b \in {0, 1} : WordIn(p, b, d, k) \in Int
<1> DEFINE x == d - 1
<1>1. x \in 0 .. Frames - 1
  BY FramesNat DEF At
<1>2. /\ Sectors(p, x) \in Int /\ PrgAfter(p)[x] \in Int /\ SumOf(p.prgUse)[x] \in Int
      /\ \A b \in {0, 1} : LevelAfter(p, b, x) \in Int /\ SumOf(Mine(p.wordUse, b))[x] \in Int
  <2> HIDE DEF x
  <2> QED
    BY <1>1, ControlInTime, PrgLevels, PrgUseFacts, LevelSteps, MineFacts
<1>3. ControlIn(p, d, k) \in Int
  BY <1>2, PartBounds DEF ControlIn, Unit
<1>4. RingIn(p, d, k) \in Int
  BY <1>2, PartBounds DEF RingIn, Unit
<1>5. ASSUME NEW b \in {0, 1} PROVE WordIn(p, b, d, k) \in Int
  BY <1>2, PartBounds DEF WordIn, Unit
<1> QED
  BY <1>3, <1>4, <1>5

\* Whatever the cursor reads ahead, a fetched frame's control is in.
LEMMA ControlEnough ==
  ASSUME NEW p \in Table, PlanOK(p), NEW d, NEW k, At(d, k), NEW f \in 0 .. Frames - 1,
         d > f \/ (f \in Timed /\ d = f /\ k >= p.ctrl[f])
  PROVE  ControlIn(p, d, k) >= SumOf(p.len)[f]
<1>1. /\ SumOf(p.len)[f] \in Nat /\ Sectors(p, f) \in Nat
      /\ Unit * Sectors(p, f) >= SumOf(p.len)[f]
  BY ControlInTime DEF Unit
<1>2. Part(k, 0, p.ctrl[d]) \in Nat
  BY PartBounds
<1>3. Sectors(p, d - 1) + Part(k, 0, p.ctrl[d]) >= Sectors(p, f)
  <2>1. CASE d > f
    <3>1. d - 1 \in 0 .. Frames - 1 /\ f \in 0 .. d - 1
      BY <2>1, FramesNat DEF At
    <3>2. Sectors(p, f) <= Sectors(p, d - 1) /\ Sectors(p, d - 1) \in Nat
      BY <3>1, ControlInTime
    <3> QED
      BY <1>1, <1>2, <3>2
  <2>2. CASE f \in Timed /\ d = f /\ k >= p.ctrl[f]
    <3>1. p.ctrl[f] = Sectors(p, f) - Sectors(p, f - 1) /\ p.ctrl[f] \in Nat
      BY <2>2, PlanFacts, TablePlan
    <3>2. f - 1 \in 0 .. Frames - 1
      BY <2>2, FramesNat DEF Timed
    <3>3. Sectors(p, f - 1) \in Nat
      BY <3>2, ControlInTime
    <3>4. Part(k, 0, p.ctrl[d]) = p.ctrl[f]
      BY <2>2, <3>1 DEF Part, At
    <3> QED
      BY <1>1, <2>2, <3>1, <3>3, <3>4
  <2> QED
    BY <2>1, <2>2
<1>4. Sectors(p, d - 1) \in Nat
  <2>1. d - 1 \in 0 .. Frames - 1
    BY FramesNat DEF At
  <2> QED
    BY <2>1, ControlInTime
<1> QED
  BY <1>1, <1>2, <1>3, <1>4 DEF ControlIn, Unit

\* Before a frame is fetched, APPLY holds its control and half a sector.
LEMMA ControlRoom ==
  ASSUME NEW p \in Table, NEW d \in Timed, NEW k \in Nat, k < p.ctrl[d]
  PROVE  ControlIn(p, d, k) - SumOf(p.len)[d - 1] + Unit <= Unit * p.ctrl[d] + 1
<1>1. d - 1 \in 0 .. Frames - 1 /\ p.ctrl[d] \in Nat
  BY TablePlan, FramesNat DEF Timed
<1>2. /\ Unit * Sectors(p, d - 1) - SumOf(p.len)[d - 1] <= 1
      /\ Sectors(p, d - 1) \in Nat /\ SumOf(p.len)[d - 1] \in Nat
  BY <1>1, ControlInTime
<1>3. Part(k, 0, p.ctrl[d]) = k
  BY <1>1 DEF Part
<1> QED
  BY <1>1, <1>2, <1>3 DEF ControlIn, Unit

\* A frame's PrgBuf patterns are there before its own slot.
LEMMA RingEnough ==
  ASSUME NEW p \in Table, PlanOK(p), NEW d, NEW k, At(d, k), NEW f \in Timed, d >= f
  PROVE  RingIn(p, d, k) - SumOf(p.prgUse)[f - 1] >= p.prgUse[f]
<1> DEFINE x == d - 1
           s == SumOf(p.prgUse)
           part == Part(k, p.ctrl[d] + p.word[d], p.prg[d])
<1>1. x \in 0 .. Frames - 1 /\ f \in Nat /\ f - 1 \in 0 .. x /\ f - 1 \in 0 .. Frames - 1
  BY FramesNat DEF At, Timed
<1>2. /\ \A e \in Timed : s[e] = s[e - 1] + p.prgUse[e]
      /\ \A e \in 0 .. Frames - 1 : s[e] \in Nat /\ \A c \in 0 .. e : s[c] <= s[e]
  BY PrgUseFacts
<1>3. /\ \A e \in Timed : PrgAfter(p)[e - 1] >= p.prgUse[e] /\ p.prgUse[e] \in Nat
      /\ \A e \in 0 .. Frames - 1 : PrgAfter(p)[e] \in Int
  BY PlanFacts, TablePlan, PrgLevels
<1>4. part \in Nat
  BY PartBounds
<1>5. RingIn(p, d, k) = PrgAfter(p)[x] + s[x] + Unit * part
  BY DEF RingIn
<1>6. x = f - 1 \/ x >= f
  BY <1>1
<1> HIDE DEF x, s, part
<1>7. CASE x = f - 1
  <2>1. PrgAfter(p)[x] >= p.prgUse[f] /\ PrgAfter(p)[x] \in Int /\ p.prgUse[f] \in Nat
    BY <1>1, <1>3, <1>7
  <2>2. s[x] = s[f - 1] /\ s[x] \in Nat
    BY <1>1, <1>2, <1>7
  <2> QED
    BY <1>4, <1>5, <2>1, <2>2 DEF Unit, s
<1>8. CASE x >= f
  <2>1. PrgAfter(p)[x] >= 0 /\ PrgAfter(p)[x] \in Int
    <3>1. x \in Timed
      BY <1>1, <1>8, FramesNat DEF Timed
    <3>2. PrgAfter(p)[x] = PrgAfter(p)[x - 1] + Unit * p.prg[x] - p.prgUse[x]
      BY <3>1, PrgLevels
    <3>3. PrgAfter(p)[x - 1] >= p.prgUse[x] /\ p.prgUse[x] \in Nat /\ p.prg[x] \in Nat
      BY <1>3, <3>1, TablePlan
    <3>4. PrgAfter(p)[x - 1] \in Int
      <4>1. x - 1 \in 0 .. Frames - 1
        BY <3>1, FramesNat DEF Timed
      <4> QED
        BY <1>3, <4>1
    <3> QED
      BY <3>2, <3>3, <3>4 DEF Unit
  <2>2. s[x] >= s[f] /\ s[x] \in Nat /\ s[f] \in Nat /\ s[f - 1] \in Nat
    <3>1. f \in 0 .. x /\ f \in 0 .. Frames - 1
      BY <1>1, <1>8, FramesNat DEF Timed
    <3> QED
      BY <1>1, <1>2, <3>1
  <2>3. s[f] = s[f - 1] + p.prgUse[f] /\ p.prgUse[f] \in Nat
    BY <1>2, <1>3
  <2> QED
    BY <1>4, <1>5, <2>1, <2>2, <2>3 DEF Unit, s
<1> QED
  BY <1>6, <1>7, <1>8

\* A slot's PrgBuf sectors have room as soon as the frame before it is expanded.
LEMMA RingRoom ==
  ASSUME NEW p \in Table, PlanOK(p), NEW d \in Timed, NEW k \in Nat,
         p.ctrl[d] + p.word[d] <= k, k < p.ctrl[d] + p.word[d] + p.prg[d],
         NEW e \in d - 1 .. Frames - 1
  PROVE  RingIn(p, d, k) - SumOf(p.prgUse)[e] + Unit <= PrgCap
<1> DEFINE x == d - 1
           s == SumOf(p.prgUse)
           part == Part(k, p.ctrl[d] + p.word[d], p.prg[d])
<1>1. x \in 0 .. Frames - 1 /\ x \in 0 .. e /\ e \in 0 .. Frames - 1
  BY FramesNat DEF Timed
<1>2. s[x] \in Nat /\ s[e] \in Nat /\ s[x] <= s[e]
  <2> HIDE DEF x
  <2> QED
    BY <1>1, PrgUseFacts
<1>3. /\ p.ctrl[d] \in Nat /\ p.word[d] \in Nat /\ p.prg[d] \in Nat /\ p.prgUse[d] \in Nat
  BY TablePlan
<1>4. part \in Nat /\ part + 1 <= p.prg[d]
  BY <1>3 DEF Part
<1>5. /\ PrgAfter(p)[d] + p.prgUse[d] <= PrgCap
      /\ PrgAfter(p)[d] = PrgAfter(p)[x] + Unit * p.prg[d] - p.prgUse[d]
      /\ PrgAfter(p)[x] \in Int
  <2>1. PrgAfter(p)[d] + p.prgUse[d] <= PrgCap
    BY PlanFacts
  <2>2. PrgAfter(p)[x] \in Int
    <3> HIDE DEF x
    <3> QED
      BY <1>1, PrgLevels
  <2> QED
    BY <2>1, <2>2, PrgLevels
<1>6. RingIn(p, d, k) = PrgAfter(p)[x] + s[x] + Unit * part
  BY DEF RingIn
<1>7. PrgCap \in Int
  BY SectorPumpAssumption
<1> HIDE DEF x, part
<1> QED
  BY <1>2, <1>3, <1>4, <1>5, <1>6, <1>7 DEF Unit

\* A frame's WordBuf patterns are there before its own slot.
LEMMA WordEnough ==
  ASSUME NEW p \in Table, PlanOK(p), NEW d, NEW k, At(d, k), NEW f \in Timed, d >= f
  PROVE  WordIn(p, Parity(f), d, k) - SumOf(Mine(p.wordUse, Parity(f)))[f - 1]
           >= p.wordUse[f]
<1> DEFINE x == d - 1
           b == Parity(f)
           s == SumOf(Mine(p.wordUse, b))
           w == WordAfter(p)
           part == IF Parity(d) = b THEN Unit * Part(k, p.ctrl[d], p.word[d]) ELSE 0
<1>1. x \in 0 .. Frames - 1 /\ f \in Nat /\ f - 1 \in 0 .. x /\ f - 1 \in 0 .. Frames - 1
  BY FramesNat DEF At, Timed
<1>2. b \in {0, 1}
  BY <1>1, ParityIsABit
<1>3. /\ \A e \in 0 .. Frames - 1 : s[e] \in Nat /\ \A c \in 0 .. e : s[c] <= s[e]
      /\ s[f] = s[f - 1] + p.wordUse[f]
  <2>1. s[f] = s[f - 1] + One(Parity(f) = b) * p.wordUse[f] /\ p.wordUse[f] \in Nat
    <3> HIDE DEF b
    <3> QED
      BY <1>2, MineFacts, TablePlan
  <2>2. \A e \in 0 .. Frames - 1 : s[e] \in Nat /\ \A c \in 0 .. e : s[c] <= s[e]
    <3> HIDE DEF b
    <3> QED
      BY <1>2, MineFacts
  <2>3. One(Parity(f) = b) * p.wordUse[f] = p.wordUse[f]
    <3> HIDE DEF s
    <3> QED
      BY <2>1 DEF One
  <2> QED
    BY <2>1, <2>2, <2>3
<1>4. /\ \A e \in Timed : w[e - 2] >= p.wordUse[e] /\ p.wordUse[e] \in Nat
                         /\ p.word[e] \in Nat
                         /\ w[e] = w[e - 2] + Unit * p.word[e] - p.wordUse[e]
      /\ \A e \in -1 .. Frames - 1 : w[e] \in Int
  BY PlanFacts, TablePlan, WordLevels
<1>5. part \in Nat
  BY PartBounds DEF Unit
<1>6. WordIn(p, b, d, k) = LevelAfter(p, b, x) + s[x] + part
  BY DEF WordIn
<1>7. LevelAfter(p, b, x) = IF Parity(x) = b THEN w[x] ELSE w[x - 1]
  BY DEF LevelAfter
<1>8. b = 1 - Parity(f - 1) /\ Parity(f - 1) \in {0, 1}
  <2>1. f - 1 \in Int /\ f - 1 + 1 = f
    BY <1>1
  <2> QED
    BY <2>1, ParityTurns
<1>9. x = f - 1 \/ x >= f
  BY <1>1
<1> SUFFICES WordIn(p, b, d, k) - s[f - 1] >= p.wordUse[f]
  OBVIOUS
<1> HIDE DEF x, s, part, b, w
<1>10. CASE x = f - 1
  <2>1. LevelAfter(p, b, x) = w[f - 2]
    <3>1. x - 1 = f - 2 /\ Parity(x) # b
      BY <1>1, <1>8, <1>10
    <3> QED
      BY <1>7, <3>1
  <2>2. w[f - 2] >= p.wordUse[f] /\ p.wordUse[f] \in Nat /\ w[f - 2] \in Int
    <3>1. f - 2 \in -1 .. Frames - 1
      BY <1>1, FramesNat DEF Timed
    <3> QED
      BY <1>4, <3>1
  <2>3. s[x] = s[f - 1] /\ s[x] \in Nat
    BY <1>1, <1>3, <1>10
  <2> QED
    BY <1>5, <1>6, <2>1, <2>2, <2>3
<1>11. CASE x >= f
  <2>1. LevelAfter(p, b, x) >= 0 /\ LevelAfter(p, b, x) \in Int
    <3>1. \A e \in Timed : w[e] >= 0 /\ w[e] \in Int
      <4> SUFFICES ASSUME NEW e \in Timed PROVE w[e] >= 0 /\ w[e] \in Int
        OBVIOUS
      <4>1. e - 2 \in -1 .. Frames - 1
        BY FramesNat DEF Timed
      <4>2. w[e - 2] \in Int
        BY <1>4, <4>1
      <4> QED
        BY <1>4, <4>2 DEF Unit
    <3>2. x \in Timed
      BY <1>1, <1>11, FramesNat DEF Timed
    <3>3. CASE x = f
      <4>1. LevelAfter(p, b, x) = w[x]
        BY <1>7, <3>3 DEF b
      <4> QED
        BY <3>1, <3>2, <4>1
    <3>4. CASE x # f
      <4>1. x - 1 \in Timed
        BY <1>1, <1>11, <3>4, FramesNat DEF Timed
      <4> QED
        BY <1>7, <3>1, <3>2, <4>1
    <3> QED
      BY <3>3, <3>4
  <2>2. s[x] >= s[f] /\ s[x] \in Nat /\ s[f] \in Nat /\ s[f - 1] \in Nat
    <3>1. f \in 0 .. x /\ f \in 0 .. Frames - 1
      BY <1>1, <1>11, FramesNat DEF Timed
    <3> QED
      BY <1>1, <1>3, <3>1
  <2>3. p.wordUse[f] \in Nat
    BY <1>4
  <2> QED
    BY <1>3, <1>5, <1>6, <2>1, <2>2, <2>3
<1> QED
  BY <1>9, <1>10, <1>11

\* A WordBuf sector has room as soon as the frame before its own is expanded.
LEMMA WordRoom ==
  ASSUME NEW p \in Table, PlanOK(p), NEW d \in Timed, NEW k \in Nat,
         p.ctrl[d] <= k, k < p.ctrl[d] + p.word[d]
  PROVE  WordIn(p, Parity(d), d, k) - SumOf(Mine(p.wordUse, Parity(d)))[d - 1] + Unit
           <= WordCap
<1> DEFINE x == d - 1
           b == Parity(d)
           s == SumOf(Mine(p.wordUse, b))[x]
           l == LevelAfter(p, b, x)
           part == Part(k, p.ctrl[d], p.word[d])
<1>1. x \in 0 .. Frames - 1 /\ d \in Nat /\ d \in 0 .. Frames - 1
  BY FramesNat DEF Timed
<1>2. b \in {0, 1}
  BY <1>1, ParityIsABit
<1>3. s \in Nat /\ l \in Int
  <2> HIDE DEF b, x
  <2> QED
    BY <1>1, <1>2, MineFacts, LevelSteps
<1>4. p.ctrl[d] \in Nat /\ p.word[d] \in Nat /\ p.wordUse[d] \in Nat
  BY TablePlan
<1>5. part \in Nat /\ part + 1 <= p.word[d]
  BY <1>4 DEF Part
<1>6. LevelAfter(p, b, d) = l + Unit * p.word[d] - p.wordUse[d]
  <2>1. LevelAfter(p, b, d) = l + One(Parity(d) = b) * (Unit * p.word[d] - p.wordUse[d])
    <3> HIDE DEF b
    <3> QED
      BY <1>2, LevelSteps
  <2>2. One(Parity(d) = b) = 1
    BY DEF One
  <2> HIDE DEF l
  <2> QED
    BY <1>3, <1>4, <2>1, <2>2 DEF Unit
<1>7. LevelAfter(p, b, d) + p.wordUse[d] <= WordCap
  <2>1. LevelAfter(p, b, d) = WordAfter(p)[d]
    BY DEF LevelAfter
  <2>2. WordAfter(p)[d] + p.wordUse[d] <= WordCap
    BY Zenon DEF PlanOK
  <2> QED
    BY <2>1, <2>2
<1>8. WordIn(p, b, d, k) = l + s + Unit * part
  BY DEF WordIn
<1>9. WordCap \in Int
  BY SectorPumpAssumption
<1> SUFFICES WordIn(p, b, d, k) - s + Unit <= WordCap
  OBVIOUS
<1> HIDE DEF x, b, s, l, part
<1> QED
  BY <1>3, <1>4, <1>5, <1>6, <1>7, <1>8, <1>9 DEF Unit

----------------------------------------------------------------------------
(* The cursor *)

LEMMA PumpFacts ==
  ASSUME PumpInv
  PROVE  /\ plan \in Table /\ PlanOK(plan) /\ At(drain_frame, drain_k)
         /\ frame_idx \in 1 .. Frames /\ frame_idx - 1 \in 0 .. Frames - 1
         /\ word_pending_count \in Nat /\ word_pending_frame \in Nat
         /\ word_owned_bank \in {0, 1} /\ word_level \in [{0, 1} -> Int]
         /\ drain_frame \in Nat /\ Frames \in Nat
<1>1. At(drain_frame, drain_k)
  BY DEF PumpInv, CursorInv, InSlot, At
<1>2. frame_idx \in 1 .. Frames /\ frame_idx - 1 \in 0 .. Frames - 1
  BY FramesNat DEF PumpInv, WordInv
<1> QED
  BY <1>1, <1>2, FramesNat DEF PumpInv, WordInv, PendingInv, At

\* A sector that is read is one of a frame's slot, and the last only if the slot
\* ends with it.
Reads == ToApply \/ ToWord \/ ToRing \/ ToPad

LEMMA Reading ==
  ASSUME PumpInv, pump = "p1_read"
  PROVE  /\ drain_frame \in Timed /\ drain_k \in Nat /\ drain_k < cur_fsec
         /\ cur_fsec = SlotTime(drain_frame) /\ cur_fsec \in Nat
  BY SlotClock, FramesNat DEF PumpInv, CursorInv, InSlot, Timed

\* No sector is refused once the pump is sent for it.
LEMMA WordTaken == ASSUME PumpInv, ToWord PROVE WordAcceptGuard /\ Advance
<1>1. pump = "p1_read" /\ ForWord
  BY DEF ToWord
<1>2. drain_frame < Frames
  BY <1>1, Reading, FramesNat DEF Timed
<1>3. WordAcceptGuard
  BY <1>1, <1>2 DEF PumpInv, Ready
<1> QED
  BY <1>3 DEF ToWord

LEMMA ReadsAdvance ==
  ASSUME PumpInv, Reads
  PROVE  /\ Advance /\ drain_frame \in Timed /\ drain_k \in Nat
         /\ Follows(drain_frame', drain_k', drain_frame, drain_k)
         /\ pump' = "idle" /\ UNCHANGED <<plan, frame_idx, spc, word_owned_bank>>
<1>1. Advance
  BY WordTaken DEF Reads, ToApply, ToRing, ToPad
<1>2. pump = "p1_read" /\ pump' = "idle" /\ UNCHANGED <<plan, frame_idx, spc, word_owned_bank>>
  BY <1>1 DEF Advance, player
<1>3. /\ drain_frame \in Timed /\ drain_k \in Nat /\ drain_k < cur_fsec
      /\ cur_fsec = SlotTime(drain_frame) /\ cur_fsec \in Nat
  BY <1>2, Reading
<1>4. Follows(drain_frame', drain_k', drain_frame, drain_k)
  BY <1>1, <1>3 DEF Advance, Follows
<1> QED
  BY <1>1, <1>2, <1>3, <1>4

LEMMA CursorReads == ASSUME PumpInv, Reads PROVE CursorInv'
<1>1. /\ Advance /\ pump' = "idle" /\ drain_frame \in Timed /\ drain_k \in Nat
  BY ReadsAdvance
<1>2. /\ pump = "p1_read" /\ UNCHANGED <<plan, cur_fsec, sec_acc, sec_phase, lead>>
  BY <1>1 DEF Advance, slot
<1>3. /\ drain_k < cur_fsec /\ cur_fsec = SlotTime(drain_frame) /\ cur_fsec \in Nat
      /\ sec_phase = drain_frame % Period /\ sec_acc = Due[drain_frame] % SecMod
      /\ lead = 0 /\ drain_frame < Frames
  BY <1>2, Reading DEF PumpInv, CursorInv, InSlot
<1>4. CASE drain_k + 1 < cur_fsec
  <2>1. drain_k' = drain_k + 1 /\ drain_frame' = drain_frame
    BY <1>1, <1>4 DEF Advance
  <2>2. InSlot'
    BY <1>1, <2>1 DEF InSlot
  <2> QED
    BY <1>1, <1>2, <1>3, <1>4, <2>1, <2>2, FramesNat DEF CursorInv, Timed
<1>5. CASE ~(drain_k + 1 < cur_fsec)
  <2>1. drain_k' = 0 /\ drain_frame' = drain_frame + 1
    BY <1>1, <1>5 DEF Advance
  <2>2. ~InSlot'
    BY <1>1, <2>1 DEF InSlot
  <2>3. drain_frame' - 1 = drain_frame /\ drain_frame' \in 1 .. Frames
    BY <1>1, <2>1, FramesNat DEF Timed
  <2> QED
    BY <1>2, <1>3, <2>1, <2>2, <2>3 DEF CursorInv
<1> QED
  BY <1>4, <1>5

LEMMA HeadReads ==
  ASSUME PumpInv, SlotHead
  PROVE  /\ CursorInv' /\ pump' = "p1_read" /\ drain_frame' = drain_frame
         /\ UNCHANGED <<drain_k, pending, buffers, player, plan>>
<1> DEFINE f == drain_frame
           acc == sec_acc + SecRem[sec_phase]
           carry == One(acc >= SecMod)
           delta == SecBase[sec_phase] + carry
           due == delta - lead
           fsec == IF Total(f) >= due THEN Total(f) ELSE due
<1>1. pump = "p1_top" /\ f < Frames /\ drain_k = 0
  BY DEF SlotHead
<1>2. /\ f \in Timed /\ lead = 0 /\ sec_phase = (f - 1) % Period
      /\ sec_acc = Due[f - 1] % SecMod
  BY <1>1, FramesNat DEF PumpInv, CursorInv, InSlot, Timed
<1>3. /\ sec_acc' = acc - carry * SecMod
      /\ sec_phase' = (sec_phase + 1) % Period
      /\ cur_fsec' = fsec
      /\ lead' = lead + fsec - delta
      /\ IF fsec = 0 THEN drain_frame' = drain_frame + 1 /\ UNCHANGED pump
                     ELSE pump' = "p1_read" /\ UNCHANGED drain_frame
      /\ UNCHANGED <<drain_k, pending, buffers, player, plan>>
  BY DEF SlotHead
<1>4. /\ Due[f] % SecMod = acc - carry * SecMod
      /\ SlotTime(f) = delta /\ SlotTime(f) \in Nat \ {0}
  BY <1>2, SlotClock
<1>5. Total(f) <= SlotTime(f) /\ Total(f) \in Nat
  BY <1>2, PumpFacts, PlanFacts, TablePlan DEF Total
<1>6. fsec = delta
  <2> HIDE DEF delta, f
  <2> QED
    BY <1>2, <1>4, <1>5
<1>7. (sec_phase + 1) % Period = f % Period
  <2>1. f - 1 \in Nat /\ f - 1 + 1 = f
    BY <1>2, FramesNat DEF Timed
  <2> QED
    BY <1>2, <2>1, CadenceTurns
<1> HIDE DEF delta, fsec, acc, carry
<1>8. /\ cur_fsec' = SlotTime(f) /\ cur_fsec' # 0 /\ lead' = 0
      /\ pump' = "p1_read" /\ drain_frame' = f
  BY <1>2, <1>3, <1>4, <1>6
<1>9. CursorInv'
  <2>1. InSlot'
    BY <1>8 DEF InSlot
  <2> QED
    BY <1>1, <1>2, <1>3, <1>4, <1>7, <1>8, <2>1, FramesNat DEF CursorInv, Timed
<1> QED
  BY <1>3, <1>8, <1>9

LEMMA CursorKept ==
  ASSUME CursorInv, UNCHANGED <<drain_frame, drain_k, slot>>, InSlot' <=> InSlot
  PROVE  CursorInv'
  BY DEF CursorInv, slot

\* The steps that leave the cursor and the pump alone, and those that call it.
Elsewhere ==
  \/ StartupReady \/ FetchControl \/ ExpandFrame \/ GiveBank \/ FlushPending
  \/ BankReleased \/ MovieEnd \/ Main \/ UNCHANGED vars

Calls == PumpPoll \/ ArmFrame1 \/ PumpFrame

LEMMA Kinds ==
  [Next]_vars => Reads \/ SlotHead \/ SlotGoesOn \/ Calls \/ Elsewhere \/ Replay
  BY Zenon DEF Next, Sub, Pump1, Reads, Calls, Elsewhere

LEMMA CallFacts ==
  ASSUME Calls
  PROVE  /\ pump = "idle" /\ pump' = "p1_top"
         /\ UNCHANGED <<plan, drain_frame, drain_k, slot, pending, buffers, player>>
  BY DEF Calls, PumpPoll, ArmFrame1, PumpFrame, CallPump

LEMMA ElsewhereFacts ==
  ASSUME Elsewhere
  PROVE  UNCHANGED <<plan, drain_frame, drain_k, slot, pump>>
<1> USE DEF cursor, vars, Main
<1> QED
  BY DEF Elsewhere, StartupReady, FetchControl, ExpandFrame, GiveBank, FlushPending,
         BankReleased, MovieEnd, AskFirst, Release, ReadPatterns

LEMMA CursorStep == ASSUME PumpInv, [Next]_vars PROVE CursorInv'
<1>0. CursorInv
  BY DEF PumpInv
<1>1. CASE Reads
  BY <1>1, CursorReads
<1>2. CASE SlotHead
  BY <1>2, HeadReads
<1>3. CASE SlotGoesOn
  <2>1. UNCHANGED <<drain_frame, drain_k, slot>> /\ pump = "p1_top"
    BY <1>3 DEF SlotGoesOn
  <2>2. InSlot' <=> InSlot
    <3>1. CASE drain_frame >= Frames
      BY <1>3, <2>1, <3>1 DEF SlotGoesOn, InSlot
    <3>2. CASE ~(drain_frame >= Frames)
      BY <1>3, <2>1, <3>2 DEF SlotGoesOn, InSlot
    <3> QED
      BY <3>1, <3>2
  <2> QED
    BY <1>0, <2>1, <2>2, CursorKept
<1>4. CASE Calls
  <2>1. UNCHANGED <<drain_frame, drain_k, slot>> /\ (InSlot' <=> InSlot)
    BY <1>4, CallFacts DEF InSlot
  <2> QED
    BY <1>0, <2>1, CursorKept
<1>5. CASE Elsewhere
  <2>1. UNCHANGED <<drain_frame, drain_k, slot>> /\ (InSlot' <=> InSlot)
    BY <1>5, ElsewhereFacts DEF InSlot
  <2> QED
    BY <1>0, <2>1, CursorKept
<1>6. CASE Replay
  <2>1. /\ drain_frame' = 1 /\ drain_k' = 0 /\ sec_acc' = 0 /\ sec_phase' = 0
        /\ lead' = 0 /\ pump' = "idle"
    BY <1>6 DEF Replay, SubGoes
  <2>2. ~InSlot'
    BY <2>1 DEF InSlot
  <2>3. 0 % Period = 0 /\ Due[0] % SecMod = 0
    BY DueSteps, SectorPumpAssumption
  <2> QED
    BY <2>1, <2>2, <2>3, FramesNat DEF CursorInv
<1> QED
  BY <1>1, <1>2, <1>3, <1>4, <1>5, <1>6, Kinds

----------------------------------------------------------------------------
(* What is in the buffers is what was delivered and is not taken yet *)

LEMMA HeldIs == \A b \in {0, 1} : Held[b] = word_level[b] + Waiting(b)
  BY DEF Held

LEMMA LevelFacts ==
  ASSUME PumpInv
  PROVE  /\ apply \in Int /\ ring \in Int
         /\ \A b \in {0, 1} : Waiting(b) \in Nat /\ Held[b] \in Int
         /\ Expanded \in -1 .. Frames - 1
         /\ spc # "expand" => Expanded = frame_idx - 1
         /\ spc = "expand" => Expanded = frame_idx - 2 /\ frame_idx - 1 \in Timed
<1>1. /\ plan \in Table /\ At(drain_frame, drain_k) /\ frame_idx \in 1 .. Frames
      /\ frame_idx - 1 \in 0 .. Frames - 1
  BY PumpFacts
<1>2. \A b \in {0, 1} : Waiting(b) \in Nat
  BY PumpFacts DEF Waiting, Unit
<1>3. \A b \in {0, 1} : Held[b] \in Int
  BY <1>2, PumpFacts, HeldIs
<1>4. /\ Expanded \in -1 .. Frames - 1
      /\ spc # "expand" => Expanded = frame_idx - 1
      /\ spc = "expand" => Expanded = frame_idx - 2 /\ frame_idx - 1 \in Timed
  BY <1>1, FramesNat DEF Expanded, PumpInv, WordInv, Timed
<1>5. Expanded \in 0 .. Frames - 1
  BY <1>1, <1>4, FramesNat DEF Timed
<1>6. SumOf(plan.len)[frame_idx - 1] \in Int /\ SumOf(plan.prgUse)[Expanded] \in Int
  BY <1>1, <1>5, ControlInTime, PrgUseFacts
<1>7. ControlIn(plan, drain_frame, drain_k) \in Int /\ RingIn(plan, drain_frame, drain_k) \in Int
  BY <1>1, InIsInt
<1>8. apply \in Int /\ ring \in Int
  BY <1>6, <1>7 DEF PumpInv, Levels, LevelsAt
<1> QED
  BY <1>2, <1>3, <1>4, <1>8

\* A sector adds a unit or two to the buffer it is for, in either ledger.
LEMMA LevelsReads == ASSUME PumpInv, Reads PROVE Levels'
<1> DEFINE d == drain_frame
           k == drain_k
           e == drain_frame'
           l == drain_k'
           control == ControlIn(plan, d, k)
           patterns == RingIn(plan, d, k)
           words(b) == WordIn(plan, b, d, k)
<1>1. /\ Advance /\ d \in Timed /\ k \in Nat /\ Follows(e, l, d, k)
      /\ UNCHANGED <<plan, frame_idx, spc, word_owned_bank>>
  BY ReadsAdvance
<1>2. plan \in Table /\ PlanOK(plan) /\ At(d, k)
  BY PumpFacts
<1>3. Levels
  BY DEF PumpInv
<1>4. /\ ControlIn(plan, e, l) = control + (IF ForControl THEN Unit ELSE 0)
      /\ control \in Int
  <2> HIDE DEF d, k, e, l, control
  <2>1. ControlIn(plan, e, l) = ControlIn(plan, d, k) + (IF k < plan.ctrl[d] THEN Unit ELSE 0)
    BY <1>1, <1>2, ControlMoves
  <2>2. ControlIn(plan, d, k) \in Int
    BY <1>2, InIsInt
  <2> QED
    BY <2>1, <2>2 DEF ForControl, control, d, k
<1>5. /\ RingIn(plan, e, l) = patterns + (IF ForRing THEN Unit ELSE 0)
      /\ patterns \in Int
  <2>0. /\ plan.ctrl[d] \in Nat /\ plan.word[d] \in Nat
    BY <1>1, <1>2, TablePlan
  <2>3. (plan.ctrl[d] + plan.word[d] <= k /\ k < plan.ctrl[d] + plan.word[d] + plan.prg[d])
          <=> ForRing
    BY <1>1, <2>0 DEF ForRing, ForWord, ForControl, Total
  <2> HIDE DEF d, k, e, l, patterns
  <2>1. RingIn(plan, e, l)
          = RingIn(plan, d, k) + IF /\ plan.ctrl[d] + plan.word[d] <= k
                                    /\ k < plan.ctrl[d] + plan.word[d] + plan.prg[d]
                                 THEN Unit ELSE 0
    BY <1>1, <1>2, RingMoves
  <2>2. RingIn(plan, d, k) \in Int
    BY <1>2, InIsInt
  <2> QED
    BY <2>1, <2>2, <2>3 DEF patterns
<1>6. ASSUME NEW b \in {0, 1}
      PROVE  /\ WordIn(plan, b, e, l)
                  = words(b) + (IF ForWord /\ Parity(d) = b THEN Unit ELSE 0)
             /\ words(b) \in Int
  <2>0. /\ plan.ctrl[d] \in Nat /\ plan.word[d] \in Nat
    BY <1>1, <1>2, TablePlan
  <2>3. (Parity(d) = b /\ plan.ctrl[d] <= k /\ k < plan.ctrl[d] + plan.word[d])
          <=> (ForWord /\ Parity(d) = b)
    BY <1>1, <2>0 DEF ForWord, ForControl
  <2> HIDE DEF d, k, e, l
  <2>1. WordIn(plan, b, e, l)
          = WordIn(plan, b, d, k) + IF /\ Parity(d) = b /\ plan.ctrl[d] <= k
                                       /\ k < plan.ctrl[d] + plan.word[d]
                                    THEN Unit ELSE 0
    BY <1>1, <1>2, WordMoves
  <2>2. WordIn(plan, b, d, k) \in Int
    BY <1>2, InIsInt
  <2> QED
    BY <2>1, <2>2, <2>3
<1>7. ForControl => ~ForWord /\ ~ForRing
  BY DEF ForWord, ForRing
<1>8. /\ apply' = apply + (IF ForControl THEN Unit ELSE 0)
      /\ ring' = ring + (IF ForRing THEN Unit ELSE 0)
  <2>0. apply \in Int /\ ring \in Int
    BY LevelFacts
  <2>1. CASE ToApply
    BY <1>7, <2>0, <2>1 DEF ToApply
  <2>2. CASE ToWord
    BY <2>0, <2>2 DEF ToWord, ForWord, ForRing
  <2>3. CASE ToRing
    BY <2>0, <2>3 DEF ToRing, ForRing
  <2>4. CASE ToPad
    <3>1. ~ForControl /\ ~ForRing
      <4>1. /\ plan.ctrl[d] \in Nat /\ plan.word[d] \in Nat /\ plan.prg[d] \in Nat
        BY <1>1, <1>2, TablePlan
      <4> QED
        BY <1>1, <2>4, <4>1 DEF ToPad, ForPad, ForControl, ForRing, Total
    <3> QED
      BY <2>0, <2>4, <3>1 DEF ToPad, buffers
  <2> QED
    BY <2>1, <2>2, <2>3, <2>4 DEF Reads
<1>9. ASSUME NEW b \in {0, 1}
      PROVE  Held'[b] = Held[b] + (IF ForWord /\ Parity(d) = b THEN Unit ELSE 0)
  <2>0. /\ Held'[b] = word_level'[b] + Waiting(b)' /\ Held[b] = word_level[b] + Waiting(b)
        /\ word_level[b] \in Int /\ Waiting(b) \in Int /\ word_level \in [{0, 1} -> Int]
    BY HeldIs, LevelFacts, PumpFacts DEF Held
  <2>1. CASE ToApply \/ ToRing \/ ToPad
    <3>1. UNCHANGED <<word_level, word_pending_count, word_pending_frame>>
      BY <2>1 DEF ToApply, ToRing, ToPad, pending, buffers
    <3>2. ~ForWord
      <4>1. /\ plan.ctrl[d] \in Nat /\ plan.word[d] \in Nat /\ plan.prg[d] \in Nat
        BY <1>1, <1>2, TablePlan
      <4> QED
        BY <1>1, <2>1, <4>1 DEF ToApply, ToRing, ToPad, ForWord, ForRing, ForPad, Total
    <3> QED
      BY <2>0, <3>1, <3>2 DEF Waiting
  <2>2. CASE ToWord
    <3>1. WordAcceptGuard /\ ForWord
      BY <2>2, WordTaken DEF ToWord
    <3>2. d \in Nat /\ Parity(d) \in {0, 1}
      BY <1>1, ParityIsABit, FramesNat DEF Timed
    <3>3. CASE Owned
      <4>1. /\ word_level' = [word_level EXCEPT ![Parity(d)] = @ + Unit]
            /\ UNCHANGED <<word_pending_count, word_pending_frame>>
        BY <2>2, <3>1, <3>3 DEF ToWord, pending
      <4> QED
        BY <2>0, <3>1, <3>2, <4>1 DEF Waiting, Unit
    <3>4. CASE ~Owned
      <4>1. /\ word_pending_count' = word_pending_count + 1
            /\ word_pending_frame' = d /\ UNCHANGED word_level
            /\ word_pending_count # 0 => word_pending_frame = d
        BY <2>2, <3>1, <3>4 DEF ToWord, WordAcceptGuard
      <4>2. word_pending_count \in Nat
        BY PumpFacts
      <4>3. Waiting(b)' = IF Parity(d) = b THEN Unit * (word_pending_count + 1) ELSE 0
        BY <4>1, <4>2 DEF Waiting
      <4>4. Waiting(b) = IF Parity(d) = b THEN Unit * word_pending_count ELSE 0
        BY <4>1, <4>2 DEF Waiting, Unit
      <4> QED
        BY <2>0, <3>1, <4>1, <4>2, <4>3, <4>4 DEF Unit
    <3> QED
      BY <3>3, <3>4
  <2> QED
    BY <2>1, <2>2 DEF Reads
<1>10. Expanded' = Expanded
  BY <1>1 DEF Expanded
<1>11. /\ apply = control - SumOf(plan.len)[frame_idx - 1]
       /\ ring = patterns - SumOf(plan.prgUse)[Expanded]
       /\ \A b \in {0, 1} : Held[b] = words(b) - SumOf(Mine(plan.wordUse, b))[Expanded]
  BY <1>3 DEF Levels, LevelsAt
<1>12. /\ frame_idx - 1 \in 0 .. Frames - 1 /\ Expanded \in 0 .. Frames - 1
  BY LevelFacts, PumpFacts, FramesNat DEF Timed
<1>13. /\ SumOf(plan.len)[frame_idx - 1] \in Int /\ SumOf(plan.prgUse)[Expanded] \in Int
       /\ \A b \in {0, 1} : SumOf(Mine(plan.wordUse, b))[Expanded] \in Int
  BY <1>2, <1>12, ControlInTime, PrgUseFacts, MineFacts
<1>14. apply' = ControlIn(plan, e, l) - SumOf(plan.len)[frame_idx - 1]
  <2> HIDE DEF control, e, l
  <2> QED
    BY <1>4, <1>8, <1>11, <1>13 DEF Unit
<1>15. ring' = RingIn(plan, e, l) - SumOf(plan.prgUse)[Expanded]
  <2> HIDE DEF patterns, e, l
  <2> QED
    BY <1>5, <1>8, <1>11, <1>13 DEF Unit
<1>16. ASSUME NEW b \in {0, 1}
       PROVE  Held'[b] = WordIn(plan, b, e, l) - SumOf(Mine(plan.wordUse, b))[Expanded]
  <2> HIDE DEF words, e, l
  <2>1. Held[b] = words(b) - SumOf(Mine(plan.wordUse, b))[Expanded]
    BY <1>11
  <2>2. SumOf(Mine(plan.wordUse, b))[Expanded] \in Int
    BY <1>13
  <2> QED
    BY <1>6, <1>9, <2>1, <2>2 DEF Unit
<1>17. LevelsAt(plan, e, l, frame_idx - 1, Expanded, apply', ring', Held')
  BY <1>14, <1>15, <1>16 DEF LevelsAt
<1> QED
  BY <1>1, <1>10, <1>17 DEF Levels

LEMMA LevelsKept ==
  ASSUME Levels, UNCHANGED <<plan, drain_frame, drain_k, frame_idx, apply, ring>>,
         Held' = Held, Expanded' = Expanded
  PROVE  Levels'
  BY DEF Levels

\* What is taken leaves the buffers as it is fetched and expanded.
LEMMA LevelsFetch == ASSUME PumpInv, FetchControl PROVE Levels'
<1> DEFINE f == frame_idx
<1>1. /\ UNCHANGED <<plan, drain_frame, drain_k, word_level, pending, ring>>
      /\ frame_idx' = f + 1 /\ apply' = apply - plan.len[f]
      /\ spc = "pf_pump" /\ spc' = "expand" /\ f < Frames
  BY DEF FetchControl, SubGoes, cursor
<1>2. f \in Timed /\ f - 1 \in 0 .. Frames - 1 /\ plan \in Table /\ At(drain_frame, drain_k)
  BY <1>1, PumpFacts, FramesNat DEF Timed
<1>3. Expanded' = Expanded /\ Held' = Held
  <2>1. Expanded = f - 1 /\ Expanded' = frame_idx' - 2
    BY <1>1 DEF Expanded
  <2>2. Held' = Held
    BY <1>1 DEF Held, Waiting, pending
  <2> QED
    BY <1>1, <1>2, <2>1, <2>2, FramesNat DEF Timed
<1>4. SumOf(plan.len)[f] = SumOf(plan.len)[f - 1] + plan.len[f] /\ plan.len[f] \in Nat
  BY <1>2, SumSteps, TablePlan
<1>5. /\ SumOf(plan.len)[f - 1] \in Int /\ ControlIn(plan, drain_frame, drain_k) \in Int
  BY <1>2, ControlInTime, InIsInt
<1>6. apply = ControlIn(plan, drain_frame, drain_k) - SumOf(plan.len)[f - 1]
  BY DEF PumpInv, Levels, LevelsAt
<1>7. apply' = ControlIn(plan, drain_frame, drain_k) - SumOf(plan.len)[f]
  BY <1>1, <1>4, <1>5, <1>6
<1>8. frame_idx' - 1 = f
  BY <1>1, <1>2, FramesNat DEF Timed
<1>9. /\ ring = RingIn(plan, drain_frame, drain_k) - SumOf(plan.prgUse)[Expanded]
      /\ \A b \in {0, 1} : Held[b] = WordIn(plan, b, drain_frame, drain_k)
                                      - SumOf(Mine(plan.wordUse, b))[Expanded]
  BY DEF PumpInv, Levels, LevelsAt
<1>10. LevelsAt(plan, drain_frame, drain_k, frame_idx' - 1, Expanded, apply', ring, Held)
  BY <1>7, <1>8, <1>9 DEF LevelsAt
<1> QED
  BY <1>1, <1>3, <1>10 DEF Levels

LEMMA LevelsExpand == ASSUME PumpInv, ExpandFrame PROVE Levels'
<1> DEFINE f == frame_idx - 1
<1>1. /\ UNCHANGED <<plan, drain_frame, drain_k, pending, apply, frame_idx>>
      /\ ring' = ring - plan.prgUse[f]
      /\ word_level' = [word_level EXCEPT ![Parity(f)] = @ - plan.wordUse[f]]
      /\ spc = "expand" /\ spc' = "wait_swap"
  BY DEF ExpandFrame, SubGoes, cursor
<1>2. f \in Timed /\ f - 1 \in 0 .. Frames - 1 /\ plan \in Table /\ At(drain_frame, drain_k)
  BY <1>1, PumpFacts, LevelFacts, FramesNat DEF Timed
<1>3. Expanded = f - 1 /\ Expanded' = f
  BY <1>1, PumpFacts DEF Expanded
<1>4. Parity(f) \in {0, 1} /\ plan.wordUse[f] \in Nat /\ plan.prgUse[f] \in Nat
  <2>1. f \in Nat
    BY <1>2, FramesNat DEF Timed
  <2> HIDE DEF f
  <2> QED
    BY <1>2, <2>1, ParityIsABit, TablePlan
<1>5. ring' = RingIn(plan, drain_frame, drain_k) - SumOf(plan.prgUse)[f]
  <2>1. ring = RingIn(plan, drain_frame, drain_k) - SumOf(plan.prgUse)[f - 1]
    BY <1>3 DEF PumpInv, Levels, LevelsAt
  <2>2. SumOf(plan.prgUse)[f] = SumOf(plan.prgUse)[f - 1] + plan.prgUse[f]
    BY <1>2, PrgUseFacts
  <2>3. SumOf(plan.prgUse)[f - 1] \in Int /\ RingIn(plan, drain_frame, drain_k) \in Int
    BY <1>2, PrgUseFacts, InIsInt
  <2> HIDE DEF f
  <2> QED
    BY <1>1, <1>4, <2>1, <2>2, <2>3
<1>6. ASSUME NEW b \in {0, 1}
      PROVE  Held'[b] = WordIn(plan, b, drain_frame, drain_k) - SumOf(Mine(plan.wordUse, b))[f]
  <2>1. Held[b] = WordIn(plan, b, drain_frame, drain_k) - SumOf(Mine(plan.wordUse, b))[f - 1]
    BY <1>3 DEF PumpInv, Levels, LevelsAt
  <2>2. SumOf(Mine(plan.wordUse, b))[f]
          = SumOf(Mine(plan.wordUse, b))[f - 1] + One(Parity(f) = b) * plan.wordUse[f]
    BY <1>2, MineFacts
  <2>3. /\ SumOf(Mine(plan.wordUse, b))[f - 1] \in Int
        /\ WordIn(plan, b, drain_frame, drain_k) \in Int
    BY <1>2, MineFacts, InIsInt
  <2>4. /\ Held'[b] = word_level'[b] + Waiting(b)' /\ Held[b] = word_level[b] + Waiting(b)
        /\ word_level[b] \in Int /\ Waiting(b) \in Int /\ word_level \in [{0, 1} -> Int]
    BY HeldIs, LevelFacts, PumpFacts DEF Held
  <2>5. Waiting(b)' = Waiting(b)
    BY <1>1 DEF Waiting, pending
  <2> HIDE DEF f
  <2>6. Held'[b] = Held[b] - (IF Parity(f) = b THEN plan.wordUse[f] ELSE 0)
    BY <1>1, <1>4, <2>4, <2>5
  <2>7. CASE Parity(f) = b
    BY <1>4, <2>1, <2>2, <2>3, <2>6, <2>7 DEF One
  <2>8. CASE Parity(f) # b
    BY <1>4, <2>1, <2>2, <2>3, <2>6, <2>8 DEF One
  <2> QED
    BY <2>7, <2>8
<1>7. apply = ControlIn(plan, drain_frame, drain_k) - SumOf(plan.len)[f]
  BY DEF PumpInv, Levels, LevelsAt
<1>8. LevelsAt(plan, drain_frame, drain_k, frame_idx - 1, f, apply, ring', Held')
  BY <1>5, <1>6, <1>7 DEF LevelsAt
<1> QED
  BY <1>1, <1>3, <1>8 DEF Levels

\* At the start of a stream, and of its replay.
LEMMA LevelsAtStart ==
  ASSUME NEW p \in Table, NEW held, \A b \in {0, 1} : held[b] = WordBoot[b]
  PROVE  LevelsAt(p, 1, 0, 0, 0, 0, PreBuf, held)
<1>1. 0 \in 0 .. Frames - 1 /\ 0 = 1 - 1
  BY FramesNat
<1>2. Sectors(p, 0) = 0 /\ SumOf(p.len)[0] = 0 /\ SumOf(p.prgUse)[0] = 0
  BY SumSteps DEF Sectors, Unit
<1>3. /\ PrgAfter(p)[0] = PreBuf /\ PreBuf \in Int
      /\ \A b \in {0, 1} : /\ LevelAfter(p, b, 0) = WordBoot[b] /\ WordBoot[b] \in Int
                           /\ SumOf(Mine(p.wordUse, b))[0] = 0
  BY PrgLevels, LevelSteps, SumSteps, SectorPumpAssumption
<1>4. /\ ControlIn(p, 1, 0) = Unit * Sectors(p, 0)
      /\ RingIn(p, 1, 0) = PrgAfter(p)[0] + SumOf(p.prgUse)[0]
      /\ \A b \in {0, 1} : WordIn(p, b, 1, 0)
                             = LevelAfter(p, b, 0) + SumOf(Mine(p.wordUse, b))[0]
  BY <1>1, AtHead
<1>5. 0 = ControlIn(p, 1, 0) - SumOf(p.len)[0]
  BY <1>2, <1>4 DEF Unit
<1>6. PreBuf = RingIn(p, 1, 0) - SumOf(p.prgUse)[0]
  BY <1>2, <1>3, <1>4
<1>7. \A b \in {0, 1} : held[b] = WordIn(p, b, 1, 0) - SumOf(Mine(p.wordUse, b))[0]
  BY <1>3, <1>4
<1> QED
  BY <1>5, <1>6, <1>7 DEF LevelsAt

LEMMA LevelsReplay == ASSUME PumpInv, Replay PROVE Levels'
<1>1. /\ drain_frame' = 1 /\ drain_k' = 0 /\ frame_idx' = 1 /\ word_pending_count' = 0
      /\ word_level' = WordBoot /\ ring' = PreBuf /\ apply' = 0
      /\ spc' = "arm_frame1" /\ UNCHANGED plan
  BY DEF Replay, SubGoes
<1>2. \A b \in {0, 1} : Held'[b] = WordBoot[b]
  <2>1. \A b \in {0, 1} : Waiting(b)' = 0 /\ WordBoot[b] \in Int
    BY <1>1, SectorPumpAssumption DEF Waiting
  <2>2. \A b \in {0, 1} : Held'[b] = WordBoot[b] + Waiting(b)'
    BY <1>1 DEF Held
  <2> QED
    BY <2>1, <2>2
<1>3. plan \in Table
  BY PumpFacts
<1>4. LevelsAt(plan, 1, 0, 0, 0, 0, PreBuf, Held')
  BY <1>2, <1>3, LevelsAtStart
<1>5. frame_idx' - 1 = 0 /\ Expanded' = 0
  BY <1>1 DEF Expanded
<1> QED
  BY <1>1, <1>4, <1>5 DEF Levels

LEMMA LevelsStep == ASSUME PumpInv, [Next]_vars PROVE Levels'
<1>0. Levels
  BY DEF PumpInv
<1>1. CASE Reads
  BY <1>1, LevelsReads
<1>2. CASE SlotHead
  <2>1. UNCHANGED <<plan, drain_frame, drain_k, frame_idx, apply, ring, word_level,
                    word_pending_count, word_pending_frame, spc>>
    BY <1>2, HeadReads DEF pending, buffers, player
  <2>2. Held' = Held /\ Expanded' = Expanded
    BY <2>1 DEF Held, Waiting, Expanded
  <2> QED
    BY <1>0, <2>1, <2>2, LevelsKept
<1>3. CASE SlotGoesOn \/ Calls
  <2>1. UNCHANGED <<plan, drain_frame, drain_k, frame_idx, apply, ring, word_level,
                    word_pending_count, word_pending_frame, spc>>
    BY <1>3, CallFacts DEF SlotGoesOn, pending, buffers, player
  <2>2. Held' = Held /\ Expanded' = Expanded
    BY <2>1 DEF Held, Waiting, Expanded
  <2> QED
    BY <1>0, <2>1, <2>2, LevelsKept
<1>4. CASE FetchControl
  BY <1>4, LevelsFetch
<1>5. CASE ExpandFrame
  BY <1>5, LevelsExpand
<1>6. CASE FlushPending
  <2>1. /\ UNCHANGED <<plan, drain_frame, drain_k, frame_idx, apply, ring>>
        /\ spc = "flush" /\ spc' = "wait_release"
    BY <1>6 DEF FlushPending, SubGoes, cursor
  <2>2. Held' = Held
    <3> DEFINE w == Parity(word_pending_frame)
    <3>1. /\ word_level' = [word_level EXCEPT ![w] = @ + Unit * word_pending_count]
          /\ word_pending_count' = 0
      BY <1>6 DEF FlushPending
    <3>2. w \in {0, 1} /\ word_pending_count \in Nat /\ word_level \in [{0, 1} -> Int]
      BY PumpFacts, ParityIsABit
    <3>3. \A b \in {0, 1} : word_level'[b] + Waiting(b)' = word_level[b] + Waiting(b)
      BY <3>1, <3>2 DEF Waiting, Unit
    <3> QED
      BY <3>3 DEF Held
  <2>3. Expanded' = Expanded
    BY <2>1 DEF Expanded
  <2> QED
    BY <1>0, <2>1, <2>2, <2>3, LevelsKept
<1>7. CASE StartupReady \/ GiveBank \/ BankReleased \/ MovieEnd \/ Main \/ UNCHANGED vars
  <2>1. /\ UNCHANGED <<plan, drain_frame, drain_k, frame_idx, apply, ring, word_level,
                       word_pending_count, word_pending_frame>>
        /\ spc' = "expand" <=> spc = "expand"
    BY <1>7 DEF StartupReady, GiveBank, BankReleased, MovieEnd, Main, AskFirst, Release,
                ReadPatterns, SubGoes, cursor, pending, buffers, player, vars
  <2>2. Held' = Held /\ Expanded' = Expanded
    BY <2>1 DEF Held, Waiting, Expanded
  <2> QED
    BY <1>0, <2>1, <2>2, LevelsKept
<1>8. CASE Replay
  BY <1>8, LevelsReplay
<1> QED
  BY <1>1, <1>2, <1>3, <1>4, <1>5, <1>6, <1>7, <1>8, Kinds DEF Elsewhere

----------------------------------------------------------------------------
(* The stages of a frame *)

LEMMA StagesStep == ASSUME PumpInv, [Next]_vars PROVE Stages'
<1>0. Stages /\ frame_idx \in Nat /\ frame_idx >= 1 /\ word_owned_bank \in {0, 1}
  BY PumpFacts, FramesNat DEF PumpInv
<1> USE DEF Stages
<1>1. CASE Reads
  BY <1>0, <1>1, ReadsAdvance
<1>2. CASE SlotHead \/ SlotGoesOn \/ Calls
  <2>1. UNCHANGED <<frame_idx, spc, word_owned_bank>>
    BY <1>2, HeadReads, CallFacts DEF SlotGoesOn, player
  <2> QED
    BY <1>0, <2>1
<1>3. CASE StartupReady
  BY <1>0, <1>3 DEF StartupReady, SubGoes
<1>4. CASE FetchControl
  <2>1. frame_idx' = frame_idx + 1 /\ spc = "pf_pump" /\ spc' = "expand"
        /\ word_owned_bank' = word_owned_bank
    BY <1>4 DEF FetchControl, SubGoes
  <2>2. frame_idx' - 1 = frame_idx /\ frame_idx' >= 2
    BY <1>0, <2>1
  <2> QED
    BY <1>0, <2>1, <2>2
<1>5. CASE ExpandFrame
  BY <1>0, <1>5 DEF ExpandFrame, SubGoes
<1>6. CASE GiveBank
  <2>1. /\ spc = "wait_swap" /\ spc' = "flush" /\ frame_idx' = frame_idx
        /\ word_owned_bank' = 1 - word_owned_bank
    BY <1>6 DEF GiveBank, SubGoes
  <2>2. word_owned_bank = Parity(frame_idx - 1)
    BY <1>0, <2>1
  <2>3. Parity(frame_idx) = 1 - Parity(frame_idx - 1)
    <3>1. frame_idx - 1 \in Int /\ frame_idx - 1 + 1 = frame_idx
      BY <1>0
    <3> QED
      BY <3>1, ParityTurns
  <2> QED
    BY <1>0, <2>1, <2>2, <2>3
<1>7. CASE FlushPending
  BY <1>0, <1>7 DEF FlushPending, SubGoes
<1>8. CASE BankReleased
  BY <1>0, <1>8 DEF BankReleased, SubGoes
<1>9. CASE MovieEnd
  BY <1>0, <1>9 DEF MovieEnd, SubGoes
<1>10. CASE Main \/ UNCHANGED vars
  BY <1>0, <1>10 DEF Main, AskFirst, Release, ReadPatterns, vars, player
<1>11. CASE Replay
  BY <1>11 DEF Replay, SubGoes, Parity
<1> QED
  BY <1>1, <1>2, <1>3, <1>4, <1>5, <1>6, <1>7, <1>8, <1>9, <1>10, <1>11, Kinds
     DEF Elsewhere

LEMMA FetchedStep == ASSUME PumpInv, [Next]_vars PROVE Fetched'
<1>0. Fetched /\ frame_idx \in Nat /\ drain_frame \in Nat /\ drain_k \in Nat
  BY PumpFacts, FramesNat DEF PumpInv, At
<1> USE DEF Fetched
<1>1. CASE Reads
  <2>1. /\ Follows(drain_frame', drain_k', drain_frame, drain_k)
        /\ UNCHANGED <<plan, frame_idx>> /\ drain_frame \in Timed
    BY <1>1, ReadsAdvance
  <2>2. /\ plan.ctrl[drain_frame] \in Nat /\ plan.word[drain_frame] \in Nat
    BY <2>1, PumpFacts, TablePlan
  <2> QED
    BY <1>0, <2>1, <2>2 DEF Follows
<1>2. CASE SlotHead \/ SlotGoesOn \/ Calls
  <2>1. UNCHANGED <<plan, frame_idx, drain_frame, drain_k>>
    BY <1>2, HeadReads, CallFacts DEF SlotGoesOn, player
  <2> QED
    BY <1>0, <2>1
<1>3. CASE FetchControl
  <2>1. /\ frame_idx' = frame_idx + 1 /\ FrameDrained
        /\ UNCHANGED <<plan, drain_frame, drain_k>>
    BY <1>3 DEF FetchControl, cursor
  <2>2. frame_idx' - 1 = frame_idx
    BY <1>0, <2>1
  <2> QED
    BY <1>0, <2>1, <2>2 DEF FrameDrained
<1>4. CASE Elsewhere /\ ~FetchControl
  <2>1. UNCHANGED <<plan, drain_frame, drain_k>>
    BY <1>4, ElsewhereFacts
  <2>2. UNCHANGED frame_idx
    BY <1>4 DEF Elsewhere, StartupReady, ExpandFrame, GiveBank, FlushPending, BankReleased,
                MovieEnd, Main, AskFirst, Release, ReadPatterns, vars, player
  <2> QED
    BY <1>0, <2>1, <2>2
<1>5. CASE Replay
  BY <1>5 DEF Replay
<1> QED
  BY <1>1, <1>2, <1>3, <1>4, <1>5, Kinds

LEMMA PendingAheadStep == ASSUME PumpInv, [Next]_vars PROVE PendingAhead'
<1>0. /\ PendingAhead /\ frame_idx \in Nat /\ drain_frame \in Nat
      /\ word_pending_count \in Nat /\ word_pending_frame \in Nat
  BY PumpFacts, FramesNat DEF PumpInv
<1> USE DEF PendingAhead
<1>1. CASE Reads
  <2>1. /\ Follows(drain_frame', drain_k', drain_frame, drain_k) /\ UNCHANGED frame_idx
    BY <1>1, ReadsAdvance
  <2>2. drain_frame' >= drain_frame /\ drain_frame' \in Nat
    BY <1>0, <2>1 DEF Follows
  <2>3. CASE ~ToWord
    <3>1. UNCHANGED <<word_pending_count, word_pending_frame>>
      BY <1>1, <2>3 DEF Reads, ToApply, ToRing, ToPad, pending
    <3> QED
      BY <1>0, <2>1, <2>2, <3>1
  <2>4. CASE ToWord
    <3>1. WordAcceptGuard
      BY <2>4, WordTaken
    <3>2. CASE Owned
      BY <1>0, <2>1, <2>2, <2>4, <3>1, <3>2 DEF ToWord, pending
    <3>3. CASE ~Owned
      <4>1. word_pending_frame' = drain_frame /\ drain_frame >= frame_idx
        BY <2>4, <3>1, <3>3 DEF ToWord, WordAcceptGuard
      <4> QED
        BY <1>0, <2>1, <2>2, <4>1
    <3> QED
      BY <3>2, <3>3
  <2> QED
    BY <2>3, <2>4
<1>2. CASE SlotHead \/ SlotGoesOn \/ Calls
  <2>1. UNCHANGED <<frame_idx, drain_frame, word_pending_count, word_pending_frame>>
    BY <1>2, HeadReads, CallFacts DEF SlotGoesOn, player, pending
  <2> QED
    BY <1>0, <2>1
<1>3. CASE FetchControl
  <2>1. /\ frame_idx' = frame_idx + 1 /\ spc = "pf_pump"
        /\ UNCHANGED <<drain_frame, word_pending_count, word_pending_frame>>
    BY <1>3 DEF FetchControl, SubGoes, cursor, pending
  <2>2. word_owned_bank = Parity(frame_idx)
    BY <2>1 DEF PumpInv, Stages
  <2>3. word_pending_count # 0 => Parity(word_pending_frame) # word_owned_bank
    BY <2>1 DEF PumpInv, WordInv, PendingInv, PendingOwned
  <2>4. word_pending_count # 0 => word_pending_frame # frame_idx
    BY <2>2, <2>3
  <2> QED
    BY <1>0, <2>1, <2>4
<1>4. CASE FlushPending
  BY <1>4 DEF FlushPending
<1>5. CASE Elsewhere /\ ~FetchControl /\ ~FlushPending
  <2>1. UNCHANGED <<frame_idx, drain_frame, word_pending_count, word_pending_frame>>
    BY <1>5 DEF Elsewhere, StartupReady, ExpandFrame, GiveBank, BankReleased, MovieEnd,
                Main, AskFirst, Release, ReadPatterns, vars, player, pending, cursor
  <2> QED
    BY <1>0, <2>1
<1>6. CASE Replay
  BY <1>6 DEF Replay
<1> QED
  BY <1>1, <1>2, <1>3, <1>4, <1>5, <1>6, Kinds

----------------------------------------------------------------------------
(* No underrun, and room for every sector the pump is sent for *)

LEMMA InTime == ASSUME PumpInv PROVE NoUnderrun
<1> DEFINE d == drain_frame
           k == drain_k
           f == frame_idx - 1
<1>1. plan \in Table /\ PlanOK(plan) /\ At(d, k) /\ f \in 0 .. Frames - 1
  BY PumpFacts
<1>2. d > f \/ (f \in Timed /\ d = f /\ k >= plan.ctrl[f] + plan.word[f])
  <2>1. CASE frame_idx >= 2
    BY <1>1, <2>1, PumpFacts, FramesNat DEF PumpInv, Fetched, Timed
  <2>2. CASE ~(frame_idx >= 2)
    BY <1>1, <2>2, PumpFacts DEF At
  <2> QED
    BY <2>1, <2>2
<1>3. f \in Timed => plan.ctrl[f] \in Nat /\ plan.word[f] \in Nat
  BY <1>1, TablePlan
<1>4. d > f \/ (f \in Timed /\ d = f /\ k >= plan.ctrl[f])
  BY <1>1, <1>2, <1>3 DEF At
<1>5. apply >= 0
  <2>1. ControlIn(plan, d, k) >= SumOf(plan.len)[f]
    <3> HIDE DEF d, k, f
    <3> QED
      BY <1>1, <1>4, ControlEnough
  <2>2. ControlIn(plan, d, k) \in Int /\ SumOf(plan.len)[f] \in Int
    <3> HIDE DEF d, k, f
    <3> QED
      BY <1>1, InIsInt, ControlInTime
  <2>3. apply = ControlIn(plan, d, k) - SumOf(plan.len)[f]
    BY DEF PumpInv, Levels, LevelsAt
  <2> QED
    BY <2>1, <2>2, <2>3
<1>6. ASSUME spc = "expand"
      PROVE  /\ ring >= plan.prgUse[f]
             /\ word_level[Parity(f)] >= plan.wordUse[f]
  <2>1. f \in Timed /\ Expanded = f - 1 /\ d >= f
    BY <1>1, <1>2, <1>6, LevelFacts, PumpFacts DEF At
  <2>2. /\ ring = RingIn(plan, d, k) - SumOf(plan.prgUse)[f - 1]
        /\ \A b \in {0, 1} : Held[b] = WordIn(plan, b, d, k)
                                        - SumOf(Mine(plan.wordUse, b))[f - 1]
    BY <2>1 DEF PumpInv, Levels, LevelsAt
  <2>3. Parity(f) \in {0, 1}
    BY <1>1, ParityIsABit
  <2>4. Waiting(Parity(f)) = 0
    <3>1. word_owned_bank = Parity(f)
      BY <1>6 DEF PumpInv, Stages
    <3>2. word_pending_count # 0 => Parity(word_pending_frame) # word_owned_bank
      BY <1>6 DEF PumpInv, WordInv, PendingInv, PendingOwned
    <3> QED
      BY <3>1, <3>2 DEF Waiting
  <2>5. word_level[Parity(f)] = Held[Parity(f)]
    <3>1. word_level[Parity(f)] \in Int
      BY <2>3, PumpFacts
    <3>2. Held[Parity(f)] = word_level[Parity(f)] + Waiting(Parity(f))
      BY <2>3, HeldIs
    <3> QED
      BY <2>4, <3>1, <3>2
  <2> HIDE DEF d, k, f
  <2> QED
    BY <1>1, <2>1, <2>2, <2>3, <2>5, RingEnough, WordEnough
<1> QED
  BY <1>5, <1>6 DEF NoUnderrun, Expanding

LEMMA Positions ==
  ASSUME NEW n \in Nat, NEW x \in Int, 0 <= x, x < n
  PROVE  x % n = x
<1>1. n \in Nat \ {0} /\ x \in Nat /\ x \in 0 .. n - 1 /\ x = 0 * n + x
  OBVIOUS
<1> QED
  BY <1>1, Quotient

\* Without the polls' guards, sectors are read for the frame to be fetched only,
\* or at the end of the slot before.
LEMMA Unguarded ==
  ASSUME PumpInv, ArmFrame1 \/ PumpFrame, drain_frame < Frames
  PROVE  /\ drain_frame \in Timed /\ drain_k \in Nat
         /\ \/ drain_frame = frame_idx
            \/ /\ drain_frame = frame_idx - 1
               /\ drain_k >= plan.ctrl[drain_frame] + plan.word[drain_frame]
         /\ Expanded = frame_idx - 1 /\ word_owned_bank = Parity(frame_idx)
         /\ spc # "flush"
<1>1. /\ drain_frame \in Nat /\ drain_frame >= 1 /\ drain_k \in Nat
      /\ frame_idx \in Nat /\ frame_idx >= 1
  BY PumpFacts DEF At
<1>2. drain_frame \in Timed
  BY <1>1, FramesNat DEF Timed
<1>3. CASE ArmFrame1
  <2>1. spc = "arm_frame1" /\ drain_frame < 2
    BY <1>3 DEF ArmFrame1
  <2>2. frame_idx = 1 /\ drain_frame = 1 /\ word_owned_bank = Parity(frame_idx)
    BY <1>1, <2>1 DEF PumpInv, Stages
  <2> QED
    BY <1>1, <1>2, <2>1, <2>2 DEF Expanded
<1>4. CASE PumpFrame
  <2>1. spc = "pf_pump" /\ ~FrameDrained
    BY <1>4 DEF PumpFrame
  <2>2. drain_frame <= frame_idx
    BY <1>1, <2>1 DEF FrameDrained
  <2>3. \/ drain_frame = frame_idx
        \/ /\ drain_frame = frame_idx - 1
           /\ drain_k >= plan.ctrl[drain_frame] + plan.word[drain_frame]
    BY <1>1, <2>2 DEF PumpInv, Fetched
  <2>4. word_owned_bank = Parity(frame_idx)
    BY <2>1 DEF PumpInv, Stages
  <2> QED
    BY <1>1, <1>2, <2>1, <2>3, <2>4 DEF Expanded
<1> QED
  BY <1>3, <1>4

LEMMA ReadyUnguarded ==
  ASSUME PumpInv, ArmFrame1 \/ PumpFrame, drain_frame < Frames
  PROVE  /\ ForControl => apply + Unit < ApplySize
         /\ ForWord => WordAcceptGuard
         /\ ForRing => ring + Unit < RingSize
<1> DEFINE d == drain_frame
           k == drain_k
<1>1. /\ d \in Timed /\ k \in Nat
      /\ d = frame_idx \/ (d = frame_idx - 1 /\ k >= plan.ctrl[d] + plan.word[d])
      /\ Expanded = frame_idx - 1 /\ word_owned_bank = Parity(frame_idx)
      /\ spc # "flush"
  BY Unguarded
<1>2. /\ plan \in Table /\ PlanOK(plan) /\ frame_idx \in 1 .. Frames
      /\ plan \in Candidates /\ At(d, k)
  BY PumpFacts DEF PumpInv
<1>3. /\ plan.ctrl[d] \in Nat /\ plan.word[d] \in Nat /\ plan.prg[d] \in Nat
  BY <1>1, <1>2, TablePlan
<1>4. /\ apply = ControlIn(plan, d, k) - SumOf(plan.len)[frame_idx - 1]
      /\ ring = RingIn(plan, d, k) - SumOf(plan.prgUse)[frame_idx - 1]
      /\ \A b \in {0, 1} : Held[b] = WordIn(plan, b, d, k)
                                      - SumOf(Mine(plan.wordUse, b))[frame_idx - 1]
  BY <1>1 DEF PumpInv, Levels, LevelsAt
<1>5. ASSUME ForControl PROVE apply + Unit < ApplySize
  <2>1. k < plan.ctrl[d]
    BY <1>5 DEF ForControl
  <2>2. d = frame_idx
    BY <1>1, <1>3, <2>1
  <2>3. ControlIn(plan, d, k) - SumOf(plan.len)[d - 1] + Unit <= Unit * plan.ctrl[d] + 1
    <3> HIDE DEF d, k
    <3> QED
      BY <1>1, <1>2, <2>1, ControlRoom
  <2>4. Unit * plan.ctrl[d] + 1 < ApplySize /\ ApplySize \in Nat
    BY <1>1, <1>2, SectorPumpAssumption
  <2>5. apply \in Int
    BY LevelFacts
  <2>6. apply + Unit <= Unit * plan.ctrl[d] + 1
    BY <1>4, <2>2, <2>3
  <2> QED
    BY <1>3, <2>4, <2>5, <2>6 DEF Unit
<1>6. ASSUME ForRing PROVE ring + Unit < RingSize
  <2>1. plan.ctrl[d] + plan.word[d] <= k /\ k < plan.ctrl[d] + plan.word[d] + plan.prg[d]
    BY <1>1, <1>3, <1>6 DEF ForRing, ForWord, ForControl, Total
  <2>2. frame_idx - 1 \in d - 1 .. Frames - 1
    BY <1>1, <1>2, FramesNat DEF Timed
  <2>3. RingIn(plan, d, k) - SumOf(plan.prgUse)[frame_idx - 1] + Unit <= PrgCap
    <3> HIDE DEF d, k
    <3> QED
      BY <1>1, <1>2, <2>1, <2>2, RingRoom
  <2>4. PrgCap \in Nat /\ RingSize \in Nat /\ PrgCap <= RingSize - Guard
    BY SectorPumpAssumption
  <2>5. ring \in Int /\ ring + Unit <= PrgCap
    BY <1>4, <2>3, LevelFacts
  <2> QED
    BY <2>4, <2>5 DEF Guard, Unit
<1>7. ASSUME ForWord PROVE WordAcceptGuard
  <2>1. plan.ctrl[d] <= k /\ k < plan.ctrl[d] + plan.word[d]
    BY <1>1, <1>3, <1>7 DEF ForWord, ForControl
  <2>2. d = frame_idx
    BY <1>1, <1>3, <2>1
  <2>3. WordIn(plan, Parity(d), d, k) - SumOf(Mine(plan.wordUse, Parity(d)))[d - 1] + Unit
          <= WordCap
    <3> HIDE DEF d, k
    <3> QED
      BY <1>1, <1>2, <2>1, WordRoom
  <2>4. Parity(d) \in {0, 1}
    BY PumpFacts, ParityIsABit
  <2>5. Owned
    BY <1>1, <2>2 DEF Owned
  <2>6. word_pending_count = 0
    <3>1. word_pending_count # 0 => Parity(word_pending_frame) # word_owned_bank
      BY <1>1 DEF PumpInv, WordInv, PendingInv, PendingOwned
    <3>2. word_pending_count # 0 => word_pending_frame = d
      BY <1>2, <2>2, PumpFacts DEF PumpInv, PendingAhead
    <3> QED
      BY <2>5, <3>1, <3>2 DEF Owned
  <2>7. word_level[Parity(d)] + Unit <= WordCap
    <3>1. Held[Parity(d)] + Unit <= WordCap
      BY <1>4, <2>2, <2>3, <2>4
    <3>2. Held[Parity(d)] = word_level[Parity(d)] + Waiting(Parity(d))
      BY <2>4, HeldIs
    <3>3. Waiting(Parity(d)) = 0
      BY <2>6 DEF Waiting
    <3>4. word_level[Parity(d)] \in Int
      BY <2>4, PumpFacts
    <3> QED
      BY <3>1, <3>2, <3>3, <3>4
  <2> QED
    BY <1>2, <2>2, <2>5, <2>6, <2>7 DEF WordAcceptGuard
<1> QED
  BY <1>5, <1>6, <1>7

LEMMA ReadyPolled ==
  ASSUME PumpInv, PumpPoll
  PROVE  /\ ForControl => apply + Unit < ApplySize
         /\ ForWord => WordAcceptGuard
         /\ ForRing => ring + Unit < RingSize
<1>1. PollGuard
  BY DEF PumpPoll
<1>2. apply >= 0 /\ apply < ApplySize /\ apply \in Int /\ ApplySize \in Nat
  BY InTime, LevelFacts, SectorPumpAssumption DEF NoUnderrun, PumpInv, RingsBounded
<1>3. ring >= 0 /\ ring < RingSize /\ ring \in Int /\ RingSize \in Nat
  BY LevelFacts, SectorPumpAssumption DEF PumpInv, RingsBounded
<1>4. apply % ApplySize = apply /\ ring % RingSize = ring
  BY <1>2, <1>3, Positions
<1>5. /\ ForControl => apply % ApplySize < ApplySize - Guard
      /\ ForWord => WordAcceptGuard
      /\ ForRing => ring % RingSize < RingSize - Guard
  BY <1>1 DEF PollGuard
<1> QED
  BY <1>2, <1>3, <1>4, <1>5 DEF Guard, Unit

LEMMA ReadyKept ==
  ASSUME Ready, pump # "idle" \/ pump' = "idle",
         UNCHANGED <<plan, drain_frame, drain_k, frame_idx, word_owned_bank,
                     word_pending_count, word_pending_frame, word_level, ring, apply>>
  PROVE  Ready'
<1> SUFFICES ASSUME pump # "idle", drain_frame < Frames PROVE Ready'
  BY DEF Ready
<1>1. /\ ForControl' <=> ForControl
      /\ ForWord' <=> ForWord
      /\ ForRing' <=> ForRing
      /\ WordAcceptGuard' <=> WordAcceptGuard
  BY DEF ForControl, ForWord, ForRing, Total, WordAcceptGuard, Owned
<1> QED
  BY <1>1 DEF Ready

LEMMA ReadyStep == ASSUME PumpInv, [Next]_vars PROVE Ready'
<1>0. Ready
  BY DEF PumpInv
<1>1. CASE Reads
  BY <1>1, ReadsAdvance DEF Ready
<1>2. CASE SlotHead \/ SlotGoesOn
  <2>1. /\ UNCHANGED <<plan, drain_frame, drain_k, frame_idx, word_owned_bank,
                       word_pending_count, word_pending_frame, word_level, ring, apply>>
        /\ pump = "p1_top"
    BY <1>2, HeadReads DEF SlotHead, SlotGoesOn, pending, buffers, player
  <2> QED
    BY <1>0, <2>1, ReadyKept
<1>3. CASE Calls
  <2>1. UNCHANGED <<plan, drain_frame, drain_k, frame_idx, word_owned_bank,
                    word_pending_count, word_pending_frame, word_level, ring, apply>>
    BY <1>3, CallFacts DEF pending, buffers, player
  <2>2. drain_frame < Frames =>
          /\ ForControl => apply + Unit < ApplySize
          /\ ForWord => WordAcceptGuard
          /\ ForRing => ring + Unit < RingSize
    BY <1>3, ReadyUnguarded, ReadyPolled DEF Calls
  <2>3. /\ ForControl' <=> ForControl
        /\ ForWord' <=> ForWord
        /\ ForRing' <=> ForRing
        /\ WordAcceptGuard' <=> WordAcceptGuard
    BY <2>1 DEF ForControl, ForWord, ForRing, Total, WordAcceptGuard, Owned
  <2> QED
    BY <2>1, <2>2, <2>3 DEF Ready
<1>4. CASE Main \/ UNCHANGED vars
  <2>1. UNCHANGED <<plan, drain_frame, drain_k, frame_idx, word_owned_bank, pump,
                    word_pending_count, word_pending_frame, word_level, ring, apply>>
    BY <1>4 DEF Main, AskFirst, Release, ReadPatterns, vars, cursor, pending, buffers,
                player
  <2>2. CASE pump = "idle"
    BY <2>1, <2>2 DEF Ready
  <2>3. CASE pump # "idle"
    BY <1>0, <2>1, <2>3, ReadyKept
  <2> QED
    BY <2>2, <2>3
<1>5. CASE (Elsewhere /\ ~Main /\ ~UNCHANGED vars) \/ Replay
  <2>1. pump = "idle" /\ pump' = "idle"
    BY <1>5 DEF Elsewhere, StartupReady, FetchControl, ExpandFrame, GiveBank, FlushPending,
                BankReleased, MovieEnd, Replay, SubGoes, cursor
  <2> QED
    BY <2>1 DEF Ready
<1> QED
  BY <1>1, <1>2, <1>3, <1>4, <1>5, Kinds DEF Elsewhere

LEMMA BoundsStep == ASSUME PumpInv, [Next]_vars PROVE ring' >= 0 /\ RingsBounded'
<1>0. /\ ring >= 0 /\ apply < ApplySize /\ ring < RingSize /\ ring \in Int /\ apply \in Int
      /\ ApplySize \in Nat /\ RingSize \in Nat
  BY LevelFacts, SectorPumpAssumption DEF PumpInv, RingsBounded
<1> USE DEF RingsBounded
<1>1. CASE Reads
  <2>1. drain_frame < Frames /\ pump # "idle"
    BY <1>1, ReadsAdvance, FramesNat DEF Advance, Timed
  <2>2. /\ ForControl => apply + Unit < ApplySize
        /\ ForRing => ring + Unit < RingSize
    BY <2>1 DEF PumpInv, Ready
  <2>3. CASE ToApply
    BY <1>0, <2>2, <2>3 DEF ToApply
  <2>4. CASE ToRing
    BY <1>0, <2>2, <2>4 DEF ToRing, Unit
  <2>5. CASE ToWord \/ ToPad
    BY <1>0, <2>5 DEF ToWord, ToPad, buffers
  <2> QED
    BY <1>1, <2>3, <2>4, <2>5 DEF Reads
<1>2. CASE SlotHead \/ SlotGoesOn \/ Calls
  BY <1>0, <1>2, HeadReads, CallFacts DEF SlotGoesOn, buffers
<1>3. CASE FetchControl
  <2>1. frame_idx \in Timed /\ plan \in Table
    BY <1>3, PumpFacts, FramesNat DEF FetchControl, Timed
  <2>2. plan.len[frame_idx] \in Nat
    BY <2>1, TablePlan
  <2> QED
    BY <1>0, <1>3, <2>2 DEF FetchControl
<1>4. CASE ExpandFrame
  <2> DEFINE f == frame_idx - 1
  <2>1. spc = "expand" /\ f \in Timed /\ plan \in Table
    BY <1>4, LevelFacts, PumpFacts DEF ExpandFrame, SubGoes
  <2>2. ring >= plan.prgUse[f] /\ plan.prgUse[f] \in Nat
    BY <2>1, InTime, TablePlan DEF NoUnderrun, Expanding
  <2>3. ring' = ring - plan.prgUse[f] /\ apply' = apply
    BY <1>4 DEF ExpandFrame
  <2> HIDE DEF f
  <2> QED
    BY <1>0, <2>2, <2>3
<1>5. CASE Elsewhere /\ ~FetchControl /\ ~ExpandFrame
  <2>1. UNCHANGED <<ring, apply>>
    BY <1>5 DEF Elsewhere, StartupReady, GiveBank, FlushPending, BankReleased, MovieEnd,
                Main, AskFirst, Release, ReadPatterns, vars, buffers
  <2> QED
    BY <1>0, <2>1
<1>6. CASE Replay
  <2>1. ring' = PreBuf /\ apply' = 0
    BY <1>6 DEF Replay
  <2>2. /\ PreBuf \in Nat /\ PrgCap \in Nat /\ PreBuf <= PrgCap /\ PrgCap <= RingSize - Guard
        /\ ApplySize > Guard
    BY SectorPumpAssumption
  <2> QED
    BY <1>0, <2>1, <2>2 DEF Guard, Unit
<1> QED
  BY <1>1, <1>2, <1>3, <1>4, <1>5, <1>6, Kinds

LEMMA PumpInit == ASSUME Init PROVE PumpInv
<1>1. WordInv
  BY WordInit
<1>2. plan \in Candidates /\ PlanOK(plan) /\ plan \in Table
  BY SectorPumpAssumption DEF Init
<1>3. /\ drain_frame = 1 /\ drain_k = 0 /\ pump = "idle" /\ sec_acc = 0 /\ sec_phase = 0
      /\ lead = 0 /\ frame_idx = 1 /\ word_owned_bank = 1 /\ word_pending_count = 0
      /\ word_level = WordBoot /\ ring = PreBuf /\ apply = 0 /\ spc = "arm_frame1"
  BY DEF Init
<1>4. CursorInv
  <2>1. 0 % Period = 0 /\ Due[0] % SecMod = 0
    BY DueSteps, SectorPumpAssumption
  <2> QED
    BY <1>3, <2>1, FramesNat DEF CursorInv, InSlot
<1>5. Levels
  <2>1. \A b \in {0, 1} : Held[b] = WordBoot[b]
    BY <1>3, SectorPumpAssumption DEF Held, Waiting
  <2>2. LevelsAt(plan, 1, 0, 0, 0, 0, PreBuf, Held)
    BY <1>2, <2>1, LevelsAtStart
  <2>3. frame_idx - 1 = 0 /\ Expanded = 0
    BY <1>3 DEF Expanded
  <2> QED
    BY <1>3, <2>2, <2>3 DEF Levels
<1>6. Fetched /\ Stages /\ PendingAhead /\ Ready
  BY <1>3 DEF Fetched, Stages, PendingAhead, Ready, Parity
<1>7. ring >= 0 /\ RingsBounded
  <2>1. /\ PreBuf \in Nat /\ PrgCap \in Nat /\ PreBuf <= PrgCap /\ PrgCap <= RingSize - Guard
        /\ ApplySize > Guard /\ RingSize \in Nat /\ ApplySize \in Nat
    BY SectorPumpAssumption
  <2> QED
    BY <1>3, <2>1 DEF Guard, Unit, RingsBounded
<1> QED
  BY <1>1, <1>2, <1>4, <1>5, <1>6, <1>7 DEF PumpInv

LEMMA PlanKept == ASSUME [Next]_vars PROVE plan' = plan
<1> USE DEF cursor, vars, Main
<1> QED
  BY DEF Next, Sub, Pump1, SlotGoesOn, SlotHead, ToApply, ToWord, ToRing, ToPad, Advance,
         PumpPoll, ArmFrame1, PumpFrame, CallPump, StartupReady, FetchControl, ExpandFrame,
         GiveBank, FlushPending, BankReleased, MovieEnd, Replay, AskFirst, Release,
         ReadPatterns

LEMMA PumpStep == ASSUME PumpInv, [Next]_vars PROVE PumpInv'
<1>1. WordInv'
  BY WordStep DEF PumpInv
<1>2. plan' \in Candidates /\ PlanOK(plan)'
  BY PlanKept DEF PumpInv
<1> QED
  BY <1>1, <1>2, CursorStep, LevelsStep, FetchedStep, StagesStep, PendingAheadStep, ReadyStep,
     BoundsStep DEF PumpInv

\* For every table that the encoder's replay accepts, however the read-ahead goes:
\* a frame's control is in APPLY when it is fetched, and its patterns are in
\* PrgBuf and WordBuf when it is expanded.
THEOREM FramesAreFed == Spec => []NoUnderrun
<1> QED
  BY PumpInit, PumpStep, InTime, PTL DEF Spec

\* Neither the control ring nor PrgBuf is ever full, although the sectors that a
\* frame waits for are read without a look at the rings.
THEOREM RingsNeverFull == Spec => []RingsBounded
<1>1. PumpInv => RingsBounded
  BY DEF PumpInv
<1> QED
  BY PumpInit, PumpStep, <1>1, PTL DEF Spec

\* While a slot is being read, the CD time it was given is the encoder's share for
\* it and no lead is owed: its head is passed once, because no sector is refused
\* after it.  This counts sectors; where they are written is not modelled.
THEOREM SlotsInStep == Spec => []SlotLayout
<1>1. PumpInv => SlotLayout
  BY DEF PumpInv, CursorInv, InSlot, SlotLayout
<1> QED
  BY PumpInit, PumpStep, <1>1, PTL DEF Spec
=============================================================================
