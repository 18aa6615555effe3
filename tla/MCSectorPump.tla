--------------------------- MODULE MCSectorPump ----------------------------
\* SectorPump for TLC: routing tables of a few frames, the WordBuf columns of
\* which are enumerated; PlanOK keeps what the encoder's replay accepts.
EXTENDS SectorPump, FiniteSetsExt

\* A few control and PrgBuf columns: control blocks that share a sector, that
\* fill one each, and that cross a sector boundary; PrgBuf drawn on steadily,
\* and all at the end.
FewLens == {[f \in Timed |-> 1], [f \in Timed |-> 2], [f \in Timed |-> 1 + (f % 2)]}
FewPrg  ==
  {[prg |-> [f \in Timed |-> One(f # 2)], use |-> [f \in Timed |-> 2 * One(f # 1)]],
   [prg |-> [f \in Timed |-> One(f < 3)],
    use |-> [f \in Timed |-> 4 * One(f = Frames - 1)]]}

\* The WordBuf columns of one parity that take what is delivered, in time.
TurnsOf(b, words, uses) ==
  LET ours == {f \in Timed : Parity(f) = b}
      Upto(c, f) == MapThenSumSet(LAMBDA g : c[g], {g \in ours : g <= f})
      Level(t, f) == WordBoot[b] + Unit * Upto(t.word, f) - Upto(t.use, f)
  IN  {t \in [word : [ours -> words], use : [ours -> uses]] :
         /\ \A f \in ours : Level(t, f) >= Unit * t.word[f]
         /\ Level(t, Frames) = 0}

Tables(lens, prgs, words, uses) ==
  LET even == TurnsOf(0, words, uses)  odd == TurnsOf(1, words, uses) IN
  {[len |-> l, ctrl |-> JustInTime(l), prg |-> p.prg, prgUse |-> p.use,
    word    |-> [f \in Timed |-> IF Parity(f) = 0 THEN e.word[f] ELSE o.word[f]],
    wordUse |-> [f \in Timed |-> IF Parity(f) = 0 THEN e.use[f] ELSE o.use[f]]] :
     l \in lens, p \in prgs, e \in even, o \in odd}

\* 24 fps: two and three VBlanks a frame by turns, here of 5/4 sectors each,
\* so that slots of 2, 4, 2, 4, 3 and 3 sectors hold up to four WordBuf sectors.
Candidates24 == Tables(FewLens, FewPrg, {0, 1, 4}, {0, 3, 5, 8})
Base24       == [s \in {0, 1} |-> 2 + s]
Rem24        == [s \in {0, 1} |-> 2 + s]
Boot         == [b \in {0, 1} |-> 5 - 2 * b]
=============================================================================
