--------------------------- MODULE PlaybackProofs ---------------------------
(***************************************************************************)
(* Proofs about Main's display, for every budget, load, palette table and  *)
(* length of the movie, and about the sound, for every ring, chunk and     *)
(* rate.  Neither part's invariant needs the other's.                      *)
(***************************************************************************)
EXTENDS Playback, TLAPS

Pcs == {"build", "start", "refill", "head", "pats", "tail", "wait", "next",
        "nexthead", "done"}

Runs == Seq([len : Nat \ {0}, word : BOOLEAN])

DisplayTypeOK ==
  /\ pc \in Pcs /\ frame \in Nat /\ beam \in {"active", "blank"}
  /\ room \in Int /\ since \in Nat /\ seen \in Int
  /\ since <= Range + 1 /\ -1 <= seen /\ seen <= Range /\ seen <= since
  /\ (seen = since \/ since >= Range)
  /\ runs \in Runs /\ left \in Nat /\ (left > 0 => runs # <<>>)
  /\ d7 \in Int /\ fromHead \in BOOLEAN /\ tvb \in Nat /\ held \in Nat
  /\ fade \in BOOLEAN
  /\ target \in {2, 3} /\ phase \in {0, 1} /\ debt \in Nat
  /\ pal \in 1 .. Len(Switches) + 1
  /\ begun \in Nat /\ late \in Int /\ forgiven \in Nat
  /\ blind \in BOOLEAN

\* What is left of a budget is what is left of its VBlank: exactly while the
\* patterns are written, and up to the guard until the flip.
BudgetInv ==
  /\ room >= 0
  /\ beam = "active" => room = 0
  /\ pc = "pats" => fromHead /\ d7 >= 0 /\ room = d7 + held
  /\ pc \in {"head", "nexthead"} /\ beam = "blank" => room = VBudget
  /\ pc \in {"tail", "wait"} /\ fromHead =>
       d7 \in 0 .. VBudget /\ (beam = "blank" => room >= d7 - Guard)
  /\ pc = "pats" => d7 + held <= VBudget

\* The frame may still be on time: its patterns were begun in the first VBlank
\* and have used no more VBlanks than it has.
InTime == begun = 1 /\ tvb \in 1 .. target

\* Past the end of VBlank target - 1, in VBlanks.
Passed == since >= target \/ (since = target - 1 /\ beam = "active")

\* Where the beam is while a frame in time is prepared; and that Main is never
\* past the deadline's VBlank before it is due.
TimingInv ==
  /\ pc \in {"start", "refill", "head"} /\ tvb <= 1 => begun = 0
  /\ pc \in {"start", "refill", "head", "pats"} => tvb >= 1
  /\ pc \in {"tail", "wait"} /\ tvb >= 1 => fromHead
  /\ pc = "start" => tvb = 1
  /\ pc = "next" => Passed
  /\ pc = "nexthead" =>
       since >= (IF beam = "active" THEN target - 1 ELSE target)
  /\ InTime =>
       /\ pc = "refill" => since = tvb - 1
       /\ pc = "head" => since = (IF beam = "active" THEN tvb - 1 ELSE tvb)
       /\ pc \in {"pats", "tail"} => since = tvb
       /\ pc = "pats" /\ tvb = target => beam = "blank" /\ held = Reserve
       /\ pc = "tail" /\ tvb = target => beam = "blank" /\ d7 >= Reserve
       /\ pc = "wait" =>
            IF tvb = target
            THEN since = target /\ beam = "blank" /\ d7 >= FlipCost
            ELSE since < target
       /\ pc = "next" => beam = "active" /\ since = target - 1
       /\ pc = "nexthead" =>
            since = (IF beam = "active" THEN target - 1 ELSE target)

\* The phase counts the frames, and a step of three owes nothing.
ClockInv ==
  /\ frame = 0 => phase = 0 /\ target = 2 /\ debt = 0 /\ late = 0
                  /\ forgiven = 0
  /\ frame > 0 => phase = (frame - 1) % 2
  /\ phase = 0 => target = 2
  /\ target = 3 => debt = 0
  /\ DebtIsLateness

Decided == {"wait", "next", "nexthead"}
Shown   == {"build", "done"}

\* The pointer parts the table at the frame, and the segment is the one before
\* the pointer.
PaletteInv ==
  /\ \A i \in 1 .. pal - 1 :
       Switches[i].frame <= frame /\ (pc \in Shown => Switches[i].frame < frame)
  /\ seg = IF pal = 1 THEN "s0" ELSE Switches[pal - 1].seg
  /\ ~fade => \A i \in pal .. Len(Switches) :
       /\ pc \in Decided => Switches[i].frame > frame
       /\ pc \in Shown /\ frame > 0 => Switches[i].frame >= frame
  /\ pc \notin Decided \/ source = "none" => cram \in {seg, "inline"}
  /\ pc \in Decided => source \in {"none", seg, "inline"}

IInv == DisplayTypeOK /\ BudgetInv /\ TimingInv /\ ClockInv /\ PaletteInv

----------------------------------------------------------------------------
(* What a step does to the display *)

DisplayNext == Build \/ Load \/ Show \/ VBlankStart \/ VBlankEnd \/ Drift
               \/ Turn \/ Rewind

LEMMA StepOfDisplay == [Next]_vars => DisplayNext \/ UNCHANGED displayVars
  BY DEF Next, vars, TakeFrame, MainStep, Sub, Prepare, StartSound, Expand,
         Beam, Replay, DisplayNext

\* The parts of the assumption, without the sequences.
LEMMA Numbers ==
  /\ VBudget \in Nat /\ Cost \in Nat \ {0} /\ Guard \in Nat \ {0}
  /\ Bundle \in Nat /\ CramCost \in Nat /\ Guard < Bundle
  /\ Bundle + CramCost <= VBudget /\ Cost < VBudget
  /\ LastFrame \in Nat \ {0} /\ DebtMax \in Nat
  /\ Range \in Nat /\ 4 <= Range
  BY DisplayAssumption

LEMMA TableFacts ==
  /\ Len(Switches) \in Nat
  /\ \A i \in 1 .. Len(Switches) :
       /\ Switches[i].frame \in Nat \ {0}
       /\ Switches[i].seg \notin {"none", "inline"}
  /\ \A i, j \in 1 .. Len(Switches) :
       i < j => Switches[i].frame < Switches[j].frame
<1> DEFINE Entry == [frame : Nat \ {0}, seg : STRING \ {"none", "inline"}]
<1>1. Switches \in Seq(Entry)
  BY DisplayAssumption
<1>2. \A e \in Entry : e.frame \in Nat \ {0} /\ e.seg \notin {"none", "inline"}
  OBVIOUS
<1>3. \A i, j \in 1 .. Len(Switches) :
        i < j => Switches[i].frame < Switches[j].frame
  BY DisplayAssumption
<1> HIDE DEF Entry
<1>4. /\ Len(Switches) \in Nat
      /\ \A i \in 1 .. Len(Switches) : Switches[i] \in Entry
  BY <1>1
<1> QED
  BY <1>2, <1>3, <1>4

LEMMA RunFacts ==
  /\ <<>> \in Runs /\ RunSets \subseteq Runs
  /\ \A r \in Runs : r # <<>> =>
       Head(r).len \in Nat \ {0} /\ Head(r).word \in BOOLEAN /\ Tail(r) \in Runs
<1> DEFINE Run == [len : Nat \ {0}, word : BOOLEAN]
<1>1. RunSets \subseteq Runs
  BY DisplayAssumption DEF Runs
<1>2. Runs = Seq(Run)
  BY DEF Runs
<1>3. \A e \in Run : e.len \in Nat \ {0} /\ e.word \in BOOLEAN
  OBVIOUS
<1> HIDE DEF Run
<1>4. <<>> \in Seq(Run)
  OBVIOUS
<1>5. \A r \in Seq(Run) : r # <<>> => Head(r) \in Run /\ Tail(r) \in Seq(Run)
  OBVIOUS
<1> QED
  BY <1>1, <1>2, <1>3, <1>4, <1>5

LEMMA TypeInit == Init => DisplayTypeOK
<1> SUFFICES ASSUME Init PROVE DisplayTypeOK
  OBVIOUS
<1>1. runs \in Runs /\ 1 \in 1 .. Len(Switches) + 1 /\ 2 <= Range
  BY Numbers, TableFacts, RunFacts DEF Init, DisplayInit
<1>2. fromHead \in BOOLEAN /\ fade \in BOOLEAN /\ blind \in BOOLEAN
      /\ pc \in Pcs
  BY Zenon DEF Init, DisplayInit, Pcs
<1>3. late \in Int /\ room \in Int /\ d7 \in Int /\ 2 <= Range + 1
  BY Numbers DEF Init, DisplayInit
<1> QED
  BY <1>1, <1>2, <1>3 DEF Init, DisplayInit, DisplayTypeOK

LEMMA BudgetOnly ==
  ASSUME DisplayTypeOK
  PROVE  /\ Reserve \in Nat /\ Reserve >= Bundle
         /\ FlipCost \in Nat /\ Bundle <= FlipCost
         /\ Reserve <= VBudget /\ FlipCost <= VBudget
  BY Numbers DEF Reserve, FlipCost

LEMMA TypeStep == DisplayTypeOK /\ [Next]_vars => DisplayTypeOK'
<1> SUFFICES ASSUME DisplayTypeOK, DisplayNext \/ UNCHANGED displayVars
             PROVE  DisplayTypeOK'
  BY StepOfDisplay
<1> USE Numbers, TableFacts DEF DisplayTypeOK, Pcs, loadVars, budgetVars,
        clockVars, paletteVars, beamVars
<1>1. CASE UNCHANGED displayVars
  BY <1>1 DEF displayVars, mainVars
<1>2. CASE Build
  <2>1. runs' \in Runs
    BY <1>2, RunFacts DEF Build
  <2>2. tvb' \in Nat /\ pc' \in Pcs /\ fade' \in BOOLEAN
    BY <1>2 DEF Build
  <2>3. fromHead' \in BOOLEAN
    BY <1>2, Zenon DEF Build
  <2>4. begun' \in Nat /\ held' \in Nat /\ left' \in Nat
    BY <1>2 DEF Build
  <2> QED
    BY <1>2, <2>1, <2>2, <2>3, <2>4 DEF Build
<1>3. CASE Load
  <2>1. CASE Start
    <3>1. CASE Opened(0)
      BY <2>1, <3>1 DEF Start, Opened
    <3>2. CASE pc' = "refill" /\ UNCHANGED budgetVars
      BY <2>1, <3>2 DEF Start
    <3> QED
      BY <2>1, <3>1, <3>2 DEF Start
  <2>2. CASE Refill
    BY <2>2, BudgetOnly DEF Refill, Opened, HeldBack
  <2>3. CASE Whole
    <3>1. Head(runs).len \in Nat /\ Tail(runs) \in Runs
      BY <2>3, RunFacts DEF Whole
    <3>2. left' = 0 /\ runs' \in Runs /\ d7' \in Int /\ room' \in Int
      BY <2>3, <3>1 DEF Whole, RunCost
    <3> QED
      BY <2>3, <3>2 DEF Whole
  <2>4. CASE Split
    BY <2>4, RunFacts DEF Split
  <2>5. CASE Chunk
    <3> DEFINE n == IF d7 - Repair < left THEN d7 - Repair ELSE left
    <3>1. Repair \in Nat
      BY DEF Repair
    <3>2. n \in Nat /\ left - n \in Nat
      BY <2>5, <3>1 DEF Chunk
    <3>3. runs' \in Runs
      <4>1. Tail(runs) \in Runs
        BY <2>5, RunFacts DEF Chunk
      <4> QED
        BY <2>5, <4>1 DEF Chunk
    <3> HIDE DEF n
    <3>4. /\ left' = left - n /\ d7' = d7 - n - Repair
          /\ room' = room - n - Repair
          /\ n # left => runs' = runs
      BY <2>5 DEF Chunk, n
    <3> QED
      BY <2>5, <3>1, <3>2, <3>3, <3>4 DEF Chunk
  <2>6. CASE NextBudget
    BY <2>6 DEF NextBudget
  <2>7. CASE Loaded
    BY <2>7 DEF Loaded
  <2> QED
    BY <1>3, <2>1, <2>2, <2>3, <2>4, <2>5, <2>6, <2>7 DEF Load
<1>4. CASE Show
  <2>1. CASE AwaitActive
    BY <2>1 DEF AwaitActive
  <2>2. CASE Source
    BY <2>2 DEF Source, Crossed
  <2>3. CASE Miss
    BY <2>3 DEF Miss
  <2>4. CASE Flip
    <3>1. /\ target' \in {2, 3} /\ phase' \in {0, 1} /\ debt' \in Nat
          /\ late' \in Int /\ forgiven' \in Nat
      <4>1. CASE UNCHANGED clockVars
        BY <4>1
      <4>2. CASE Pace
        <5>1. PICK m \in Measured :
                /\ Commit(Total(m)) /\ late' = late + since - Ideal
                /\ forgiven' = forgiven + (debt + Over(m) - Total(m))
          BY <4>2, Zenon DEF Pace
        <5>2. m \in Int /\ Ideal \in Nat
          BY DEF Measured, Ideal
        <5>3. Over(m) \in Nat /\ Total(m) \in Nat /\ debt + Over(m) - Total(m) \in Nat
          BY <5>2 DEF Over, Total
        <5> QED
          BY <5>1, <5>2, <5>3 DEF Commit
      <4> QED
        BY <2>4, <4>1, <4>2, Zenon DEF Flip
    <3>2. blind' \in BOOLEAN
      BY <2>4, Zenon DEF Flip, Pace
    <3>3. FlipCost \in Nat
      BY BudgetOnly
    <3>4. room' \in Int /\ since' = 0 /\ seen' = 0
      BY <2>4, <3>3 DEF Flip
    <3> QED
      BY <2>4, <3>1, <3>2, <3>4 DEF Flip
  <2> QED
    BY <1>4, <2>1, <2>2, <2>3, <2>4 DEF Show
<1>5. CASE VBlankStart
  BY <1>5 DEF VBlankStart, mainVars
<1>6. CASE VBlankEnd
  BY <1>6 DEF VBlankEnd, mainVars
<1>7. CASE Drift
  BY <1>7 DEF Drift, mainVars
<1>8. CASE Rewind
  <2>1. blind' \in BOOLEAN
    BY <1>8, Zenon DEF Rewind
  <2> QED
    BY <1>8, <2>1 DEF Rewind
<1>9. CASE Turn
  BY <1>9 DEF Turn, mainVars
<1> QED
  BY <1>1, <1>2, <1>3, <1>4, <1>5, <1>6, <1>7, <1>8, <1>9 DEF DisplayNext

----------------------------------------------------------------------------
(* The word budget *)

LEMMA BudgetStep ==
  DisplayTypeOK /\ BudgetInv /\ [Next]_vars => BudgetInv'
<1> SUFFICES ASSUME DisplayTypeOK, BudgetInv,
                    DisplayNext \/ UNCHANGED displayVars
             PROVE  BudgetInv'
  BY StepOfDisplay
<1> USE Numbers DEF DisplayTypeOK, BudgetInv, Pcs, loadVars, budgetVars,
        clockVars, paletteVars, beamVars
<1>1. CASE UNCHANGED displayVars
  BY <1>1 DEF displayVars, mainVars
<1>2. CASE Build
  <2>1. fromHead' = FALSE
    BY <1>2 DEF Build
  <2>2. pc' \in {"tail", "start"} /\ UNCHANGED <<beam, room>>
    BY <1>2 DEF Build
  <2> QED
    BY <2>1, <2>2
<1>3. CASE Load
  <2>1. CASE Start
    <3>1. CASE Opened(0)
      BY <2>1, <3>1 DEF Start, Opened
    <3>2. CASE pc' = "refill"
      BY <2>1, <3>2 DEF Start
    <3> QED
      BY <2>1, <3>1, <3>2 DEF Start
  <2>2. CASE Refill
    <3>1. HeldBack \in 0 .. VBudget
      BY BudgetOnly DEF HeldBack
    <3> QED
      BY <2>2, <3>1 DEF Refill, Opened
  <2>3. CASE Whole
    <3>1. Head(runs).len \in Nat
      BY <2>3, RunFacts DEF Whole
    <3> QED
      BY <2>3, <3>1 DEF Whole, RunCost
  <2>4. CASE Split
    BY <2>4 DEF Split
  <2>5. CASE Chunk
    <3> DEFINE n == IF d7 - Repair < left THEN d7 - Repair ELSE left
    <3>1. Repair \in Nat
      BY DEF Repair
    <3>2. n \in Nat /\ n <= d7 - Repair
      BY <2>5, <3>1 DEF Chunk
    <3>3. d7' = d7 - n - Repair /\ room' = room - n - Repair
      BY <2>5 DEF Chunk
    <3> HIDE DEF n
    <3> QED
      BY <2>5, <3>1, <3>2, <3>3 DEF Chunk
  <2>6. CASE NextBudget
    BY <2>6 DEF NextBudget
  <2>7. CASE Loaded
    BY <2>7 DEF Loaded
  <2> QED
    BY <1>3, <2>1, <2>2, <2>3, <2>4, <2>5, <2>6, <2>7 DEF Load
<1>4. CASE Show
  <2>1. CASE AwaitActive
    BY <2>1 DEF AwaitActive
  <2>2. CASE Source
    BY <2>2 DEF Source
  <2>3. CASE Miss
    BY <2>3 DEF Miss
  <2>4. CASE Flip
    <3>1. room >= FlipCost - Guard
      BY <2>4, BudgetOnly DEF Flip, Shares
    <3>2. beam = "blank"
      BY <2>4 DEF Flip, Shares
    <3> QED
      BY <2>4, <3>1, <3>2, BudgetOnly DEF Flip
  <2> QED
    BY <1>4, <2>1, <2>2, <2>3, <2>4 DEF Show
<1>5. CASE VBlankStart
  BY <1>5 DEF VBlankStart, Prompt, mainVars
<1>6. CASE VBlankEnd
  BY <1>6 DEF VBlankEnd, mainVars
<1>7. CASE Drift
  BY <1>7 DEF Drift, mainVars
<1>8. CASE Rewind
  BY <1>8 DEF Rewind
<1>9. CASE Turn
  BY <1>9 DEF Turn, mainVars
<1> QED
  BY <1>1, <1>2, <1>3, <1>4, <1>5, <1>6, <1>7, <1>8, <1>9 DEF DisplayNext

----------------------------------------------------------------------------
(* The clock *)

LEMMA HalfStep ==
  ASSUME NEW f \in Nat \ {0}
  PROVE  f % 2 = 1 - ((f - 1) % 2)
  OBVIOUS

\* A frame is timed too little, never too much, and only once it is late.
LEMMA ArmedPassed ==
  ASSUME DisplayTypeOK
  PROVE  /\ MayArm => Passed
         /\ since <= target => seen = since /\ (MayArm <=> Armed)
         /\ since <= target => (Armed <=> Passed)
  BY Numbers DEF DisplayTypeOK, MayArm, Armed, Passed

LEMMA ClockStep ==
  DisplayTypeOK /\ TimingInv /\ ClockInv /\ [Next]_vars => ClockInv'
<1> SUFFICES ASSUME DisplayTypeOK, TimingInv, ClockInv,
                    DisplayNext \/ UNCHANGED displayVars
             PROVE  ClockInv'
  BY StepOfDisplay
<1>1. CASE UNCHANGED <<frame, clockVars>>
  BY <1>1 DEF ClockInv, DebtIsLateness, Owed, clockVars
<1>2. CASE Flip
  <2>1. since >= target
    <3>1. CASE pc = "wait" /\ MayArm /\ Shares
      BY <3>1, ArmedPassed DEF Passed, Shares, DisplayTypeOK
    <3>2. CASE pc = "nexthead" /\ beam = "blank"
      BY <3>2 DEF TimingInv
    <3> QED
      BY <1>2, <3>1, <3>2 DEF Flip
  <2>2. CASE frame = 0
    BY <1>2, <2>2 DEF Flip, ClockInv, DebtIsLateness, Owed, clockVars
  <2>3. CASE frame > 0
    <3>1. frame' = frame + 1 /\ Pace
      BY <1>2, <2>3 DEF Flip
    <3>2. PICK m \in Measured :
            /\ Commit(Total(m)) /\ late' = late + since - Ideal
            /\ forgiven' = forgiven + (debt + Over(m) - Total(m))
            /\ blind' = (blind \/ seen # since)
      BY <3>1, Zenon DEF Pace
    <3>3. m \in Int /\ m <= since /\ (seen = since => m = since)
      BY DEF Measured, DisplayTypeOK
    <3>4. /\ Over(m) \in Nat /\ Total(m) \in Nat
          /\ Over(m) <= since - target
          /\ seen = since => Over(m) = since - target
      BY <2>1, <3>3, Numbers DEF Over, Total, DisplayTypeOK
    <3>5. Ideal = 2 + phase
      BY <2>3, HalfStep DEF Ideal, ClockInv, DisplayTypeOK
    <3> DEFINE over == Over(m)
               total == Total(m)
    <3>6. /\ phase' = 1 - phase
          /\ IF phase = 0 /\ total = 0
             THEN target' = 3 /\ debt' = 0
             ELSE target' = 2 /\ debt' = IF phase = 0 THEN total - 1 ELSE total
      BY <3>2, Zenon DEF Commit
    <3>7. /\ late' = late + since - (2 + phase)
          /\ forgiven' = forgiven + (debt + over - total)
      BY <3>2, <3>5
    <3>8. ~blind' => ~blind /\ seen = since
      BY <3>2, Zenon
    <3>9. /\ over \in Nat /\ total \in Nat /\ over <= since - target
          /\ seen = since => over = since - target
      BY <3>4
    <3>10. phase' = (frame' - 1) % 2
      BY <2>3, <3>1, <3>6, HalfStep DEF ClockInv, DisplayTypeOK
    <3> HIDE DEF over, total
    <3>11. /\ phase' = 0 => target' = 2
           /\ target' = 3 => debt' = 0
      BY <3>6 DEF DisplayTypeOK
    <3>12. /\ late >= Owed => late' >= Owed'
           /\ late = Owed /\ seen = since => late' = Owed'
      BY <3>6, <3>7, <3>9 DEF ClockInv, Owed, DisplayTypeOK
    <3>13. late >= Owed /\ (~blind => late = Owed)
      BY Zenon DEF ClockInv, DebtIsLateness
    <3>14. late' >= Owed' /\ (~blind' => late' = Owed')
      BY <3>8, <3>12, <3>13, Zenon
    <3>15. DebtIsLateness'
      BY <3>14, Zenon DEF DebtIsLateness
    <3> QED
      BY <2>3, <3>1, <3>10, <3>11, <3>15 DEF ClockInv, DisplayTypeOK
  <2> QED
    BY <2>2, <2>3 DEF DisplayTypeOK
<1>3. CASE Rewind
  BY <1>3 DEF Rewind, ClockInv, DebtIsLateness, Owed
<1> QED
  BY <1>1, <1>2, <1>3
     DEF DisplayNext, Build, Load, Start, Opened, Refill, Whole, Split, Chunk,
         NextBudget, Loaded, Show, AwaitActive, Source, Miss, VBlankStart,
         VBlankEnd, Drift, Turn, displayVars, mainVars

----------------------------------------------------------------------------
(* The beam *)

\* What Source decides costs no more than what was kept back for it: the table
\* is sorted, so whatever the walk passes was due.
LEMMA SourceCost ==
  ASSUME DisplayTypeOK, Source
  PROVE  FlipCost' <= Reserve
<1>1. CASE source' = "none"
  BY <1>1, Numbers DEF FlipCost, Reserve
<1>2. CASE source' # "none"
  <2>1. fade \/ Due
    <3>1. CASE fade
      BY <3>1
    <3>2. ASSUME NEW i \in Crossed PROVE Due
      <4>1. /\ pal \in 1 .. Len(Switches) /\ i \in pal .. Len(Switches)
            /\ Switches[i].frame <= frame
        BY TableFacts DEF Crossed, DisplayTypeOK
      <4>2. Switches[pal].frame <= Switches[i].frame
        BY <4>1, TableFacts
      <4> QED
        BY <4>1, <4>2, TableFacts DEF Due, DisplayTypeOK
    <3> QED
      BY <1>2, <3>1, <3>2 DEF Source
  <2> QED
    BY <1>2, <2>1, Numbers DEF FlipCost, Reserve
<1> QED
  BY <1>1, <1>2

LEMMA TimingStep ==
  DisplayTypeOK /\ BudgetInv /\ TimingInv /\ [Next]_vars => TimingInv'
<1> SUFFICES ASSUME DisplayTypeOK, BudgetInv, TimingInv,
                    DisplayNext \/ UNCHANGED displayVars
             PROVE  TimingInv'
  BY StepOfDisplay
<1> USE Numbers DEF DisplayTypeOK, Pcs, loadVars, budgetVars, clockVars,
        paletteVars, beamVars
<1>1. CASE UNCHANGED displayVars
  BY <1>1 DEF TimingInv, InTime, Passed, Reserve, Due, FlipCost, displayVars,
              mainVars
<1>2. CASE Build
  BY <1>2 DEF Build, TimingInv, InTime
<1>3. CASE Load
  <2>1. CASE Start
    <3>1. CASE Opened(0)
      BY <2>1, <3>1 DEF Start, Opened, TimingInv, InTime
    <3>2. CASE pc' = "refill" /\ UNCHANGED budgetVars
      BY <2>1, <3>2 DEF Start, TimingInv, InTime
    <3> QED
      BY <2>1, <3>1, <3>2 DEF Start
  <2>2. CASE Refill
    <3>1. Reserve' = Reserve
      BY <2>2 DEF Refill, Reserve, Due
    <3> QED
      BY <2>2, <3>1 DEF Refill, Opened, HeldBack, TimingInv, InTime
  <2>3. CASE Whole
    <3>1. Reserve' = Reserve
      BY <2>3 DEF Whole, Reserve, Due
    <3> QED
      BY <2>3, <3>1 DEF Whole, TimingInv, InTime
  <2>4. CASE Split
    <3>1. Reserve' = Reserve
      BY <2>4 DEF Split, Reserve, Due
    <3> QED
      BY <2>4, <3>1 DEF Split, TimingInv, InTime
  <2>5. CASE Chunk
    <3>1. Reserve' = Reserve
      BY <2>5 DEF Chunk, Reserve, Due
    <3> QED
      BY <2>5, <3>1 DEF Chunk, TimingInv, InTime
  <2>6. CASE NextBudget
    BY <2>6 DEF NextBudget, TimingInv, InTime
  <2>7. CASE Loaded
    <3>1. Reserve' = Reserve
      BY <2>7 DEF Loaded, Reserve, Due
    <3> QED
      BY <2>7, <3>1, BudgetOnly DEF Loaded, TimingInv, InTime, BudgetInv
  <2> QED
    BY <1>3, <2>1, <2>2, <2>3, <2>4, <2>5, <2>6, <2>7 DEF Load
<1>4. CASE Show
  <2>1. CASE AwaitActive
    BY <2>1 DEF AwaitActive, TimingInv, InTime, Passed
  <2>2. CASE Source
    <3>1. FlipCost' <= Reserve /\ Reserve \in Nat /\ FlipCost' \in Nat
      BY <2>2, SourceCost, BudgetOnly DEF FlipCost
    <3> QED
      BY <2>2, <3>1 DEF Source, TimingInv, InTime
  <2>3. CASE Miss
    BY <2>3, ArmedPassed DEF Miss, TimingInv, InTime, Passed, Shares
  <2>4. CASE Flip
    <3>1. pc' \in {"build", "done"}
      BY <2>4 DEF Flip
    <3> QED
      BY <3>1 DEF TimingInv
  <2> QED
    BY <1>4, <2>1, <2>2, <2>3, <2>4 DEF Show
<1>5. CASE VBlankStart
  <2>1. Reserve' = Reserve /\ FlipCost' = FlipCost
    BY <1>5 DEF VBlankStart, Reserve, FlipCost, Due, mainVars
  <2>2. UNCHANGED <<pc, tvb, begun, fromHead, held, d7, target>>
    BY <1>5 DEF VBlankStart, mainVars
  <2>3. /\ beam = "active" /\ beam' = "blank" /\ ~Prompt
        /\ since' \in {since, since + 1}
        /\ pc # "done" /\ since <= Range => since' = since + 1
    BY <1>5, Zenon DEF VBlankStart
  <2>4. pc = "wait" /\ since <= target => ~Passed
    BY <2>3, ArmedPassed DEF Prompt
  <2> QED
    BY <2>1, <2>2, <2>3, <2>4 DEF Prompt, TimingInv, InTime, Passed
<1>6. CASE VBlankEnd
  <2>1. Reserve' = Reserve /\ FlipCost' = FlipCost
    BY <1>6 DEF VBlankEnd, Reserve, FlipCost, Due, mainVars
  <2>2. UNCHANGED <<pc, tvb, begun, fromHead, held, d7, target, since>>
    BY <1>6 DEF VBlankEnd, mainVars
  <2> QED
    BY <1>6, <2>1, <2>2, BudgetOnly, ArmedPassed
       DEF VBlankEnd, TimingInv, InTime, Passed, BudgetInv
<1>7. CASE Drift
  <2>1. Reserve' = Reserve /\ FlipCost' = FlipCost
    BY <1>7 DEF Drift, Reserve, FlipCost, Due, mainVars
  <2> QED
    BY <1>7, <2>1 DEF Drift, TimingInv, InTime, Passed, mainVars
<1>8. CASE Rewind
  BY <1>8 DEF Rewind, TimingInv
<1>9. CASE Turn
  <2>1. Reserve' = Reserve /\ FlipCost' = FlipCost
    BY <1>9 DEF Turn, Reserve, FlipCost, Due, mainVars
  <2> QED
    BY <1>9, <2>1 DEF Turn, TimingInv, InTime, Passed, mainVars
<1> QED
  BY <1>1, <1>2, <1>3, <1>4, <1>5, <1>6, <1>7, <1>8, <1>9 DEF DisplayNext

----------------------------------------------------------------------------
(* The palette *)

LEMMA PaletteStep ==
  DisplayTypeOK /\ PaletteInv /\ [Next]_vars => PaletteInv'
<1> SUFFICES ASSUME DisplayTypeOK, PaletteInv,
                    DisplayNext \/ UNCHANGED displayVars
             PROVE  PaletteInv'
  BY StepOfDisplay
<1> USE DEF Decided, Shown
<1>1. CASE UNCHANGED <<pc, frame, fade, paletteVars>>
  BY <1>1 DEF PaletteInv, paletteVars
<1>2. ASSUME UNCHANGED <<frame, paletteVars>>, pc \notin Decided \cup Shown,
             pc' \notin Decided \cup Shown, fade' = fade
      PROVE  PaletteInv'
  BY <1>2 DEF PaletteInv, paletteVars
<1>3. ASSUME UNCHANGED <<frame, fade, paletteVars>>, pc \in Decided,
             pc' \in Decided
      PROVE  PaletteInv'
  BY <1>3 DEF PaletteInv, paletteVars
<1>4. CASE Build
  <2>1. UNCHANGED <<frame, paletteVars>> /\ pc \in Shown
        /\ pc' \in {"tail", "start"}
    BY <1>4 DEF Build
  <2> QED
    BY <2>1 DEF PaletteInv, paletteVars
<1>5. CASE Load \/ AwaitActive
  BY <1>5, <1>2, <1>3
     DEF Load, Start, Opened, Refill, Whole, Split, Chunk, NextBudget, Loaded,
         AwaitActive, clockVars
<1>6. CASE Miss
  BY <1>6, <1>3 DEF Miss
<1>7. CASE Source
  <2>1. pc = "tail" /\ pc' = "wait" /\ UNCHANGED <<frame, fade, cram>>
    BY <1>7 DEF Source
  <2>2. CASE fade /\ source' = "inline" /\ UNCHANGED <<pal, seg>>
    BY <2>1, <2>2 DEF PaletteInv
  <2>3. CASE ~fade /\ Crossed = {} /\ source' = "none" /\ UNCHANGED <<pal, seg>>
    <3>1. \A i \in pal .. Len(Switches) : Switches[i].frame > frame
      BY <2>3, TableFacts DEF Crossed, DisplayTypeOK
    <3> QED
      BY <2>1, <2>3, <3>1 DEF PaletteInv
  <2>4. ASSUME ~fade, NEW i \in Crossed, \A j \in Crossed : j <= i,
               pal' = i + 1, seg' = Switches[i].seg, source' = seg'
        PROVE  PaletteInv'
    <3>1. i \in pal .. Len(Switches) /\ i \in 1 .. Len(Switches)
          /\ Switches[i].frame <= frame
      BY TableFacts DEF Crossed, DisplayTypeOK
    <3>2. \A k \in i + 1 .. Len(Switches) : Switches[k].frame > frame
      BY <2>4, <3>1, TableFacts DEF Crossed, DisplayTypeOK
    <3>3. \A k \in 1 .. i : Switches[k].frame <= frame
      BY <3>1, TableFacts DEF DisplayTypeOK
    <3>4. pal' - 1 = i /\ pal' # 1 /\ source' # "none"
      BY <2>4, <3>1, TableFacts
    <3> QED
      BY <2>1, <2>4, <3>2, <3>3, <3>4 DEF PaletteInv
  <2> QED
    BY <1>7, <2>2, <2>3, <2>4 DEF Source
<1>8. CASE Flip
  <2>1. pc \in Decided /\ pc' \in Shown /\ frame' = frame + 1
        /\ UNCHANGED <<fade, pal, seg, source>>
        /\ cram' = IF source = "none" THEN cram ELSE source
    BY <1>8 DEF Flip
  <2>2. \A i \in 1 .. pal - 1 : Switches[i].frame < frame + 1
    BY <2>1, TableFacts DEF PaletteInv, DisplayTypeOK
  <2>3. ~fade => \A i \in pal .. Len(Switches) : Switches[i].frame >= frame + 1
    BY <2>1, TableFacts DEF PaletteInv, DisplayTypeOK
  <2>4. cram' \in {seg, "inline"}
    BY <2>1 DEF PaletteInv
  <2>5. seg' = IF pal' = 1 THEN "s0" ELSE Switches[pal' - 1].seg
    BY <2>1 DEF PaletteInv
  <2>6. pc' \notin Decided
    BY <2>1
  <2>7. \A i \in 1 .. pal - 1 : Switches[i].frame <= frame + 1
    BY <2>2, TableFacts DEF DisplayTypeOK
  <2> HIDE DEF Decided, Shown
  <2> QED
    BY <2>1, <2>2, <2>3, <2>4, <2>5, <2>6, <2>7 DEF PaletteInv
<1>9. CASE Rewind
  BY <1>9 DEF Rewind, PaletteInv
<1> QED
  BY <1>1, <1>4, <1>5, <1>6, <1>7, <1>8, <1>9
     DEF DisplayNext, Show, VBlankStart, VBlankEnd, Drift, Turn, displayVars, mainVars

----------------------------------------------------------------------------
(* The theorems *)

LEMMA InitIInv == Init => IInv
<1> SUFFICES ASSUME Init PROVE IInv
  OBVIOUS
<1>1. DisplayTypeOK
  BY TypeInit
<1>2. BudgetInv /\ TimingInv
  BY DEF Init, DisplayInit, BudgetInv, TimingInv
<1>3. ClockInv
  BY DEF Init, DisplayInit, ClockInv, DebtIsLateness, Owed
<1>4. PaletteInv
  BY DEF Init, DisplayInit, PaletteInv, Decided, Shown
<1> QED
  BY <1>1, <1>2, <1>3, <1>4 DEF IInv

LEMMA Invariance == Spec => []IInv
<1>1. IInv /\ [Next]_vars => IInv'
  BY TypeStep, BudgetStep, TimingStep, ClockStep, PaletteStep DEF IInv
<1> QED
  BY InitIInv, <1>1, PTL DEF Spec

\* For every budget, bundle and load: nothing is written after the end of a
\* VBlank (the budgets of build_frame and the admission of the flip).
THEOREM WritesFitBlank == Spec => []BlankFits
<1>1. IInv => BlankFits
  BY DEF IInv, BudgetInv, BlankFits
<1> QED
  BY Invariance, <1>1, PTL

\* For every movie and any stalls: the cadence debt, with what DebtMax cut off, is
\* never more than the movie's lateness, and it is the lateness unless a frame of
\* the movie was timed over a turn of the stopwatch (pace_periodic_commit).
THEOREM DebtExact == Spec => []DebtIsLateness
<1>1. IInv => DebtIsLateness
  BY DEF IInv, ClockInv
<1> QED
  BY Invariance, <1>1, PTL

\* For every sorted table of palette switches and any fades: a normal frame
\* shows the palette of the last switch at or before it (the M-PALIDX walk).
THEOREM PaletteExact == Spec => []PaletteFollows
<1>1. ASSUME IInv, pc \in {"build", "done"}, frame > 0, ~fade
      PROVE  /\ \A i \in Reached :
                  (\A j \in Reached : j <= i) => seg = Switches[i].seg
             /\ Reached = {} => seg = "s0"
             /\ cram \in {seg, "inline"}
  <2>1. Reached = 1 .. pal - 1
    BY <1>1, TableFacts
       DEF IInv, DisplayTypeOK, PaletteInv, Shown, Reached
  <2>2. pal \in Nat /\ seg = IF pal = 1 THEN "s0" ELSE Switches[pal - 1].seg
    BY <1>1, TableFacts DEF IInv, DisplayTypeOK, PaletteInv
  <2>3. ASSUME NEW i \in Reached, \A j \in Reached : j <= i
        PROVE  seg = Switches[i].seg
    <3>1. i = pal - 1 /\ pal # 1
      BY <2>1, <2>2, <2>3
    <3> QED
      BY <2>2, <3>1
  <2>4. Reached = {} => seg = "s0"
    <3>1. pal >= 1
      BY <1>1, TableFacts DEF IInv, DisplayTypeOK
    <3>2. pal # 1 => 1 \in Reached
      BY <2>1, <2>2, <3>1
    <3> QED
      BY <2>2, <3>2
  <2> QED
    BY <1>1, <2>3, <2>4 DEF IInv, PaletteInv, Decided
<1>2. IInv => PaletteFollows
  BY <1>1 DEF PaletteFollows
<1> QED
  BY Invariance, <1>2, PTL

\* For every budget, bundle and load: no frame is shown before its VBlank, and
\* one whose patterns used no more VBlanks than it has is not shown after it
\* (bf_refill_vbudget keeps back what bf_wait_fixed_flip_vblank asks for).
THEOREM FlipsOnTime == Spec => OnTime
<1>1. ASSUME IInv, [Next]_vars
      PROVE  [frame' = frame + 1 /\ frame > 0 =>
                /\ since >= target
                /\ begun = 1 /\ tvb \in 1 .. target => since = target
              ]_displayVars
  <2> SUFFICES ASSUME DisplayNext, frame' = frame + 1
               PROVE  /\ since >= target
                      /\ begun = 1 /\ tvb \in 1 .. target => since = target
    BY <1>1, StepOfDisplay
  <2>1. frame \in Nat
    BY <1>1 DEF IInv, DisplayTypeOK
  <2>2. Flip \/ frame' \in {0, frame}
    BY Zenon DEF DisplayNext, Build, Load, Start, Refill, Whole, Split, Chunk,
                 NextBudget, Loaded, Show, AwaitActive, Source, Miss,
                 VBlankStart, VBlankEnd, Drift, Turn, Rewind,
                 mainVars
  <2>3. Flip
    BY <2>1, <2>2
  <2>4. MayArm /\ Shares => since >= target
    BY <1>1, ArmedPassed, Numbers DEF IInv, DisplayTypeOK, Passed, Shares
  <2> QED
    BY <1>1, <2>3, <2>4 DEF IInv, DisplayTypeOK, TimingInv, InTime, Flip, Shares
<1> QED
  BY Invariance, <1>1, PTL DEF Spec, OnTime

----------------------------------------------------------------------------
(* The sound *)

\* x and y are the same place of the ring.
SamePlace(x, y) == \E k \in Int : x = y + k * Ring

\* The writer is where the chip is and what is ahead of it, on the ring; none
\* of that is a whole ring away, the hidden low byte included.
SoundInv ==
  /\ running \in BOOLEAN /\ wrote \in Nat
  /\ write \in Int /\ play \in Int /\ ahead \in Int
  /\ ahead <= Ring - Page
  /\ IF running
     THEN wrote <= LastFrame => SamePlace(write, play + ahead)
     ELSE IF wrote = 0 THEN write = Lead /\ ahead = 0
     ELSE wrote = 1 /\ SamePlace(write, Lead + ahead)

LEMMA ModPlace ==
  ASSUME NEW m \in Nat \ {0}, NEW x \in Int
  PROVE  x % m \in 0 .. m - 1 /\ \E k \in Int : x % m = x + k * m
<1>1. x % m \in 0 .. m - 1
  OBVIOUS
<1>2. x \div m \in Int /\ x = (x \div m) * m + (x % m)
  OBVIOUS
<1>3. -(x \div m) \in Int /\ x % m = x + (-(x \div m)) * m
  BY <1>1, <1>2
<1> QED
  BY <1>1, <1>3

LEMMA RingFacts ==
  /\ Ring \in Nat \ {0} /\ Page \in Nat \ {0} /\ Lead \in Nat
  /\ SyncMax \in Nat /\ SyncMin \in Nat /\ Samples \in Nat \ {0}
  /\ Rate \in Nat \ {0} /\ LastFrame \in Nat
  /\ Page <= Ring /\ Lead + Samples + Page <= Ring
  /\ SyncMax + Samples + Page <= Ring /\ Rate <= SyncMax
<1> DEFINE queued == PreFrames * Samples
<1>1. queued \in Nat
  <2>1. PreFrames \in Nat /\ Samples \in Nat
    BY WaveRingAssumption, Zenon
  <2> QED
    BY <2>1
<1>2. Lead + queued <= SyncMax
  BY WaveRingAssumption, Zenon
<1> HIDE DEF queued
<1>3. /\ Ring \in Nat /\ Page \in 1 .. Ring /\ Lead \in 0 .. Ring - 1
      /\ SyncMin \in Nat /\ SyncMax \in 0 .. Ring - 1
      /\ Samples \in Nat \ {0} /\ Rate \in Nat \ {0}
      /\ SyncMax + Samples + Page <= Ring /\ Rate <= SyncMax
  BY WaveRingAssumption, Zenon
<1>4. LastFrame \in Nat
  BY DisplayAssumption, Zenon
<1> QED
  BY <1>1, <1>2, <1>3, <1>4

LEMMA QueuedChunks == Queued \in Nat /\ Queued <= Ring - Page
<1> DEFINE queued == PreFrames * Samples
<1>1. PreFrames \in Nat /\ Samples \in Nat
  BY WaveRingAssumption, Zenon
<1>2. queued \in Nat /\ (PreFrames + 1) * Samples = queued + Samples
  BY <1>1
<1>3. Queued = queued \/ Queued = queued + Samples
  BY <1>2 DEF Queued
<1>4. Lead + queued <= SyncMax
  BY WaveRingAssumption, Zenon
<1> HIDE DEF queued
<1> QED
  BY <1>1, <1>2, <1>3, <1>4, RingFacts

LEMMA OnRing ==
  ASSUME NEW x \in Int
  PROVE  x % Ring \in 0 .. Ring - 1 /\ SamePlace(x % Ring, x)
  BY ModPlace, RingFacts DEF SamePlace

LEMMA Sum ==
  ASSUME NEW a \in Int, NEW b \in Int, NEW c \in Int, NEW d \in Int,
         NEW e \in Int, NEW f \in Int, SamePlace(a, b), SamePlace(c, d),
         e - f = (a - b) + (c - d)
  PROVE  SamePlace(e, f)
<1>1. PICK j \in Int : a = b + j * Ring
  BY DEF SamePlace
<1>2. PICK k \in Int : c = d + k * Ring
  BY DEF SamePlace
<1>3. /\ j + k \in Int /\ (j + k) * Ring = j * Ring + k * Ring
      /\ j * Ring \in Int /\ k * Ring \in Int
  BY RingFacts
<1>4. e = f + (j + k) * Ring
  BY <1>1, <1>2, <1>3
<1> QED
  BY <1>3, <1>4 DEF SamePlace

LEMMA Difference ==
  ASSUME NEW a \in Int, NEW b \in Int, NEW c \in Int, NEW d \in Int,
         NEW e \in Int, NEW f \in Int, SamePlace(a, b), SamePlace(c, d),
         e - f = (a - b) - (c - d)
  PROVE  SamePlace(e, f)
<1>1. PICK k \in Int : c = d + k * Ring
  BY DEF SamePlace
<1>2. -k \in Int /\ (-k) * Ring = -(k * Ring) /\ k * Ring \in Int
  BY RingFacts
<1>3. d = c + (-k) * Ring
  BY <1>1, <1>2
<1>4. SamePlace(d, c)
  BY <1>2, <1>3 DEF SamePlace
<1>5. e - f = (a - b) + (d - c)
  OBVIOUS
<1> QED
  BY <1>4, <1>5, Sum

\* Two places less than the ring apart are the same only if they are equal.
LEMMA Near ==
  ASSUME NEW x \in Int, NEW y \in Int, SamePlace(x, y),
         x - y < Ring, y - x < Ring
  PROVE  x = y
<1>1. PICK k \in Int : x = y + k * Ring
  BY DEF SamePlace
<1>2. k >= 1 => k * Ring >= Ring
  BY RingFacts
<1>3. k <= -1 => k * Ring <= -Ring
  BY RingFacts
<1>4. k * Ring \in Int
  BY RingFacts
<1>5. k = 0
  BY <1>1, <1>2, <1>3, <1>4, RingFacts
<1> QED
  BY <1>1, <1>5, RingFacts

LEMMA StepOfSound ==
  ASSUME [Next]_vars
  PROVE  \/ UNCHANGED soundVars
         \/ Prefill \/ PcmOn
         \/ WriteChunk /\ wrote <= LastFrame
         \/ LoseChunk /\ wrote \in Dropped
         \/ PlayOn \/ SoundRestart
  BY Zenon DEF Next, vars, TakeFrame, MainStep, Sub, Prepare, StartSound,
               Expand, Beam, Replay

\* The distance that write_wave_chunk measures is what is ahead of the chip and
\* the low byte, while the chip has not overtaken the writer; and it is out of
\* bounds while it has, but by no more than the rest of the ring.
LEMMA LeadMeasured ==
  ASSUME SoundInv, running, wrote <= LastFrame, NotLapped
  PROVE  LET m    == play - PlayPage
             lead == (write - PlayPage) % Ring
         IN  /\ m \in 0 .. Page - 1
             /\ InBounds(lead) => ahead + m \in 0 .. SyncMax
<1> DEFINE m    == play - PlayPage
           lead == (write - PlayPage) % Ring
<1>1. write \in Int /\ play \in Int /\ ahead \in Int
      /\ SamePlace(write, play + ahead)
      /\ ahead <= Ring - Page /\ ahead > SyncMax - Ring
  BY DEF SoundInv, NotLapped
<1>2. m \in 0 .. Page - 1 /\ PlayPage \in Int
  <2>1. play % Page \in 0 .. Page - 1
    BY <1>1, RingFacts
  <2> QED
    BY <1>1, <2>1, RingFacts DEF PlayPage
<1>3. write - PlayPage \in Int
  BY <1>1, <1>2
<1>4. lead \in 0 .. Ring - 1 /\ SamePlace(lead, write - PlayPage)
  BY <1>3, OnRing, Zenon
<1>5. InBounds(lead) => lead <= SyncMax
  BY DEF InBounds
<1>6. play - PlayPage = m
  OBVIOUS
<1> HIDE DEF m, lead
<1>7. SamePlace(lead, ahead + m)
  <2>1. lead - (ahead + m)
          = (lead - (write - PlayPage)) + (write - (play + ahead))
    BY <1>1, <1>2, <1>4, <1>6, RingFacts
  <2>2. lead \in Int /\ ahead + m \in Int /\ play + ahead \in Int
    BY <1>1, <1>2, <1>4, RingFacts
  <2> QED
    BY <1>1, <1>3, <1>4, <2>1, <2>2, Sum
<1>8. ASSUME InBounds(lead) PROVE ahead + m \in 0 .. SyncMax
  <2>1. lead \in 0 .. SyncMax
    BY <1>4, <1>5, <1>8, RingFacts
  <2>2. lead - (ahead + m) < Ring /\ (ahead + m) - lead < Ring
        /\ lead \in Int /\ ahead + m \in Int
    BY <1>1, <1>2, <2>1, RingFacts
  <2>3. lead = ahead + m
    BY <1>7, <2>2, Near
  <2> QED
    BY <2>1, <2>3
<1> QED
  BY <1>2, <1>8 DEF m, lead

\* What a chunk does: it is appended to sound that the chip has not reached, or
\* at a fresh lead.
LEMMA ChunkLands ==
  ASSUME SoundInv, wrote <= LastFrame, NotLapped, WriteChunk
  PROVE  SoundInv' /\ ahead' > Samples - Page /\ ahead' <= Ring
<1> DEFINE m    == play - PlayPage
           lead == (write - PlayPage) % Ring
<1>1. running
  BY DEF WriteChunk
<1>2. m \in 0 .. Page - 1 /\ (InBounds(lead) => ahead + m \in 0 .. SyncMax)
  BY <1>1, LeadMeasured
<1>3. write \in Int /\ play \in Int /\ ahead \in Int /\ wrote \in Nat
      /\ SamePlace(write, play + ahead)
  BY <1>1 DEF SoundInv
<1>4. PlayPage \in Int
  <2>1. play % Page \in 0 .. Page - 1
    BY <1>3, RingFacts
  <2> QED
    BY <1>3, <2>1, RingFacts DEF PlayPage
<1>5. play - PlayPage = m
  OBVIOUS
<1>6. running' = TRUE /\ play' = play /\ wrote' = wrote + 1
  BY <1>1 DEF WriteChunk, SoundInv
<1>7. InBounds(lead) =>
        write' = (write + Samples) % Ring /\ ahead' = ahead + Samples
  BY DEF WriteChunk
<1>8. ~InBounds(lead) =>
        /\ write' = (PlayPage + Lead + Samples) % Ring
        /\ ahead' = PlayPage - play + Lead + Samples
  BY DEF WriteChunk
<1> HIDE DEF m, lead
<1>9. /\ ahead' \in Int /\ ahead' <= Ring - Page /\ ahead' > Samples - Page
      /\ write' \in Int /\ SamePlace(write', play + ahead')
  <2>1. CASE InBounds(lead)
    <3>1. write + Samples \in Int
      BY <1>3, RingFacts
    <3>2. write' \in 0 .. Ring - 1 /\ SamePlace(write', write + Samples)
      BY <1>7, <2>1, <3>1, OnRing, Zenon
    <3>3. ahead' = ahead + Samples /\ ahead + m \in 0 .. SyncMax
      BY <1>2, <1>7, <2>1
    <3>4. write' \in Int /\ play + ahead \in Int /\ play + ahead' \in Int
          /\ write' - (play + ahead')
                = (write' - (write + Samples)) + (write - (play + ahead))
      BY <1>3, <3>2, <3>3, RingFacts
    <3>5. SamePlace(write', play + ahead')
      BY <1>3, <3>1, <3>2, <3>4, Sum
    <3> QED
      BY <1>2, <1>3, <3>3, <3>4, <3>5, RingFacts
  <2>2. CASE ~InBounds(lead)
    <3>1. PlayPage + Lead + Samples \in Int
      BY <1>4, RingFacts
    <3>2. /\ write' \in 0 .. Ring - 1
          /\ SamePlace(write', PlayPage + Lead + Samples)
      BY <1>8, <2>2, <3>1, OnRing, Zenon
    <3>3. ahead' = Lead + Samples - m
          /\ play + ahead' = PlayPage + Lead + Samples
      BY <1>2, <1>3, <1>4, <1>5, <1>8, <2>2, RingFacts
    <3>4. SamePlace(write', play + ahead')
      BY <3>2, <3>3
    <3> QED
      BY <1>2, <3>2, <3>3, <3>4, RingFacts
  <2> QED
    BY <2>1, <2>2
<1> QED
  BY <1>3, <1>6, <1>9, RingFacts DEF SoundInv

LEMMA SoundStep ==
  ASSUME SoundInv, NotLapped, [Next]_vars
  PROVE  SoundInv'
<1>1. CASE UNCHANGED soundVars
  BY <1>1 DEF soundVars, SoundInv
<1>2. CASE Prefill
  <2> DEFINE q == Queued
  <2>1. write = Lead /\ ahead = 0 /\ wrote = 0 /\ running = FALSE
        /\ play \in Int /\ play' = play
    BY <1>2 DEF Prefill, SoundInv
  <2>2. /\ write' = (Lead + q) % Ring /\ ahead' = q
        /\ wrote' = 1 /\ running' = FALSE
    BY <1>2, <2>1 DEF Prefill
  <2>3. q \in Nat /\ q <= Ring - Page
    BY QueuedChunks
  <2> HIDE DEF q
  <2>4. Lead + q \in Int
    BY <2>3, RingFacts
  <2>5. write' \in 0 .. Ring - 1 /\ SamePlace(write', Lead + q)
    BY <2>2, <2>4, OnRing, Zenon
  <2>6. running' \in BOOLEAN /\ ~running' /\ play' \in Int
    BY <2>1, <2>2
  <2>7. /\ wrote' \in Nat /\ write' \in Int /\ ahead' \in Int
        /\ ahead' <= Ring - Page /\ wrote' # 0 /\ wrote' = 1
    BY <2>2, <2>3, <2>5, RingFacts
  <2>8. SamePlace(write', Lead + ahead')
    BY <2>2, <2>5
  <2> QED
    BY <2>6, <2>7, <2>8, Zenon DEF SoundInv
<1>3. CASE PcmOn
  <2>1. wrote = 1 /\ SamePlace(write, Lead + ahead)
    BY <1>3 DEF PcmOn, SoundInv
  <2> QED
    BY <1>3, <2>1, RingFacts DEF PcmOn, SoundInv
<1>4. CASE WriteChunk /\ wrote <= LastFrame
  BY <1>4, ChunkLands
<1>5. CASE LoseChunk
  <2>1. /\ running = TRUE /\ running' = TRUE /\ wrote \in Nat /\ wrote' = wrote + 1
        /\ UNCHANGED <<write, play, ahead>>
    BY <1>5 DEF LoseChunk, SoundInv
  <2> QED
    BY <2>1, RingFacts DEF SoundInv
<1>6. CASE PlayOn
  <2>1. CASE ~running
    BY <1>6, <2>1 DEF PlayOn, SoundInv
  <2>2. CASE running
    <3>1. /\ write \in Int /\ play \in Int /\ ahead \in Int /\ wrote \in Nat
          /\ play' = (play + Rate) % Ring
          /\ ahead' = (IF ahead >= Rate - Ring THEN ahead - Rate ELSE ahead)
          /\ running = TRUE
          /\ running' = running /\ write' = write /\ wrote' = wrote
      BY <1>6, <2>2 DEF PlayOn, SoundInv
    <3>2. play + Rate \in Int
      BY <3>1, RingFacts
    <3>3. play' \in 0 .. Ring - 1 /\ SamePlace(play', play + Rate)
      BY <3>1, <3>2, OnRing, Zenon
    <3>4. ahead' \in Int /\ ahead' <= ahead
      BY <3>1, RingFacts
    <3>5. ASSUME wrote <= LastFrame PROVE SamePlace(write, play' + ahead')
      <4>1. SamePlace(write, play + ahead) /\ ahead > SyncMax - Ring
        BY <2>2, <3>5 DEF SoundInv, NotLapped
      <4>2. ahead' = ahead - Rate
        BY <3>1, <4>1, RingFacts
      <4>3. /\ play' \in Int /\ play + ahead \in Int /\ play' + ahead' \in Int
            /\ write - (play' + ahead')
                 = (write - (play + ahead)) - (play' - (play + Rate))
        BY <3>1, <3>3, <4>2, RingFacts
      <4> QED
        BY <3>1, <3>2, <3>3, <4>1, <4>3, Difference
    <3> QED
      BY <3>1, <3>3, <3>4, <3>5, RingFacts DEF SoundInv
  <2> QED
    BY <2>1, <2>2
<1>7. CASE SoundRestart
  <2>1. running' = FALSE /\ write' = Lead /\ ahead' = 0 /\ wrote' = 0
        /\ play' = play /\ play \in Int
    BY <1>7 DEF SoundRestart, SoundInv
  <2>2. ~running' /\ running' \in BOOLEAN
    BY <2>1
  <2>3. /\ wrote' \in Nat /\ write' \in Int /\ ahead' \in Int
        /\ play' \in Int /\ ahead' <= Ring - Page
    BY <2>1, RingFacts
  <2> QED
    BY <2>1, <2>2, <2>3, Zenon DEF SoundInv
<1> QED
  BY <1>1, <1>2, <1>3, <1>4, <1>5, <1>6, <1>7, StepOfSound

\* For every ring, chunk, rate and any stalls, lost chunks and replays: after
\* every chunk there is sound to play and less than a ring of it, unless the
\* chip had overtaken the writer by more than write_wave_chunk can tell.
THEOREM SoundStaysAhead == Spec /\ []NotLapped => SoundAhead
<1>1. Init => SoundInv
  <2> SUFFICES ASSUME SoundInit PROVE SoundInv
    BY DEF Init
  <2>1. ~running /\ running \in BOOLEAN /\ write = Lead /\ ahead = 0 /\ wrote = 0
    BY DEF SoundInit
  <2>2. /\ wrote \in Nat /\ write \in Int /\ ahead \in Int
        /\ play \in Int /\ ahead <= Ring - Page
    BY RingFacts DEF SoundInit
  <2> QED
    BY <2>1, <2>2, Zenon DEF SoundInv
<1>2. SoundInv /\ NotLapped /\ [Next]_vars => SoundInv'
  BY SoundStep
<1>3. ASSUME SoundInv, NotLapped, [Next]_vars
      PROVE  [wrote' > wrote /\ running /\ wrote \notin Dropped =>
                ahead' > Samples - Page /\ ahead' <= Ring]_soundVars
  <2> SUFFICES ASSUME wrote' > wrote, running, wrote \notin Dropped
               PROVE  ahead' > Samples - Page /\ ahead' <= Ring
    OBVIOUS
  <2>1. wrote \in Nat
    BY <1>3 DEF SoundInv
  <2>2. wrote' # wrote /\ wrote' # 0
    BY <2>1
  <2>3. ~Prefill /\ ~PcmOn /\ ~PlayOn /\ ~SoundRestart /\ ~UNCHANGED soundVars
    BY <2>2 DEF Prefill, PcmOn, PlayOn, SoundRestart, soundVars
  <2>4. WriteChunk /\ wrote <= LastFrame
    BY <1>3, <2>3, StepOfSound
  <2> QED
    BY <1>3, <2>4, ChunkLands
<1> QED
  BY <1>1, <1>2, <1>3, PTL DEF Spec, SoundAhead
=============================================================================
