---------------------------- MODULE CdReadProofs ---------------------------
(***************************************************************************)
(* Proofs about CdRead: for every file, every CDC buffer and any number of *)
(* losses of any sectors but the first, the caller of drain1 gets the      *)
(* exact file.  CdReadFirst.cfg shows that the first sector is a real      *)
(* exception.                                                              *)
(***************************************************************************)
EXTENDS CdRead, TLAPS

\* Appending and removing a sector, as far as the proofs look into the buffers.
LEMMA Buffer ==
  ASSUME NEW s \in Seq(Sector), NEW e \in Sector
  PROVE  /\ Append(s, e) \in Seq(Sector) /\ Len(Append(s, e)) = Len(s) + 1
         /\ \A i \in 1 .. Len(s) : Append(s, e)[i] = s[i]
         /\ Append(s, e)[Len(s) + 1] = e
         /\ Len(s) > 0 => Head(s) \in Sector /\ Head(s) = s[1] /\ Tail(s) \in Seq(Sector)
         /\ s # <<>> <=> Len(s) > 0
         /\ Len(s) \in Nat
  OBVIOUS

LEMMA InitInv == Init => Inv
<1> SUFFICES ASSUME Init PROVE Inv
  OBVIOUS
<1> USE CdReadAssumption DEF Init
<1>1. TypeOK
  BY DEF TypeOK, None
<1>2. ExactFile /\ DrainOK /\ MsfOK
  BY DEF ExactFile, DrainOK, MsfOK
<1>3. next + left <= Total /\ stream_remaining = Total - Len(delivered)
  OBVIOUS
<1> QED
  BY <1>1, <1>2, <1>3 DEF Inv

\* The drive goes on, or loses a sector that is not the file's first.
LEMMA DriveStep == ASSUME 0 \notin LossAt PROVE Inv /\ Drive => Inv'
<1> SUFFICES ASSUME 0 \notin LossAt, Inv, Drive PROVE Inv'
  OBVIOUS
<1> USE CdReadAssumption DEF Inv, TypeOK
<1>1. CASE DriveReads
  <2> USE <1>1 DEF DriveReads, msf
  <2>1. next \in Sector
    BY DEF Sector
  <2>2. TypeOK' /\ next' + left' <= Total
    BY <2>1, Buffer
  <2>3. ExactFile' /\ stream_remaining' = Total - Len(delivered')
    BY DEF ExactFile
  <2>4. DrainOK'
    BY <2>1, Buffer DEF DrainOK
  <2>5. MsfOK'
    BY <2>1, Buffer DEF MsfOK
  <2> QED
    BY <2>2, <2>3, <2>4, <2>5
<1>2. CASE DriveOverruns
  <2> USE <1>2 DEF DriveOverruns, msf
  <2>1. TypeOK' /\ next' + left' <= Total
    OBVIOUS
  <2>2. ExactFile' /\ DrainOK' /\ stream_remaining' = Total - Len(delivered')
    BY DEF ExactFile, DrainOK
  <2>3. MsfOK'
    BY DEF MsfOK
  <2> QED
    BY <2>1, <2>2, <2>3
<1> QED
  BY <1>1, <1>2 DEF Drive

\* A sector is accepted only when it is the one that comes next in the file.
LEMMA AcceptStep ==
  ASSUME Inv, Accept, Head(cdc) = Len(delivered), base_msf' = FileMsf
  PROVE  Inv'
<1> USE CdReadAssumption DEF Inv, Accept, Goes
<1>1. /\ cdc \in Seq(Sector) /\ delivered \in Seq(Sector) /\ Len(cdc) > 0
      /\ Len(delivered) < Total /\ Head(cdc) \in Sector
  BY Buffer DEF DrainOK, TypeOK, Sector
<1>2. /\ delivered' \in Seq(Sector) /\ Len(delivered') = Len(delivered) + 1
      /\ \A i \in 1 .. Len(delivered) : delivered'[i] = delivered[i]
      /\ delivered'[Len(delivered) + 1] = Len(delivered)
  BY <1>1, Buffer
<1>3. TypeOK'
  BY <1>1, <1>2, Buffer DEF TypeOK, HeadMsf, drive
<1>4. ExactFile'
  BY <1>1, <1>2 DEF ExactFile
<1>5. DrainOK'
  BY DEF DrainOK
<1>6. MsfOK'
  BY <1>1, <1>2 DEF MsfOK, HeadMsf
<1>7. next' + left' <= Total /\ stream_remaining' = Total - Len(delivered')
  BY <1>1, <1>2 DEF drive, TypeOK
<1> QED
  BY <1>3, <1>4, <1>5, <1>6, <1>7

LEMMA SubStep == ASSUME 0 \notin LossAt PROVE Inv /\ Sub => Inv'
<1> SUFFICES ASSUME 0 \notin LossAt, Inv, Sub PROVE Inv'
  OBVIOUS
<1> USE CdReadAssumption DEF Inv, TypeOK, drive, msf
<1>0. /\ Len(delivered) \in Nat /\ Len(cdc) \in Nat
      /\ cdc # <<>> <=> Len(cdc) > 0
      /\ Len(cdc) > 0 => /\ Head(cdc) = cdc[1] /\ Head(cdc) \in Sector
                         /\ Tail(cdc) \in Seq(Sector)
  BY Buffer DEF Sector
<1>1. CASE CallDrain1
  <2>1. TypeOK' /\ ExactFile' /\ MsfOK'
    BY <1>1 DEF CallDrain1, Goes, ExactFile, MsfOK
  <2>2. DrainOK'
    BY <1>0, <1>1 DEF CallDrain1, Goes, DrainOK
  <2> QED
    BY <2>1, <2>2, <1>1 DEF CallDrain1
<1>2. CASE SectorReady
  <2>1. TypeOK' /\ ExactFile' /\ MsfOK'
    BY <1>2 DEF SectorReady, Goes, ExactFile, MsfOK
  <2>2. DrainOK'
    BY <1>0, <1>2 DEF SectorReady, Goes, DrainOK
  <2> QED
    BY <2>1, <2>2, <1>2 DEF SectorReady
<1>3. CASE TransferFails
  <2> USE <1>3 DEF TransferFails, Goes
  <2>1. Len(cdc) > 0 /\ cdc[1] # 0
    BY <1>0 DEF DrainOK
  <2>2. TypeOK' /\ ExactFile' /\ DrainOK'
    BY <1>0, <2>1 DEF ExactFile, DrainOK
  <2>3. MsfOK'
    BY <1>0, <2>1 DEF MsfOK
  <2> QED
    BY <2>2, <2>3
<1>4. CASE FirstSector
  <2>1. Len(delivered) = 0 /\ Len(cdc) > 0
    BY <1>0, <1>4 DEF FirstSector, Accept, Goes, DrainOK, MsfOK, None
  <2>2. Head(cdc) = Len(delivered)
    BY <1>0, <2>1 DEF MsfOK
  <2> QED
    BY <1>4, <2>1, <2>2, AcceptStep DEF FirstSector, HeadMsf
<1>5. CASE NextSector
  <2>1. Len(delivered) # 0
    BY <1>5 DEF NextSector, MsfOK
  <2>2. FileMsf + Head(cdc) = prev_msf + 1 /\ prev_msf = FileMsf + Len(delivered) - 1
    BY <1>5, <2>1 DEF NextSector, MsfOK, HeadMsf
  <2>3. Head(cdc) \in Int
    BY <1>0, <1>5 DEF NextSector, Accept, Goes, DrainOK, Sector
  <2>4. Head(cdc) = Len(delivered)
    BY <1>0, <2>2, <2>3
  <2> QED
    BY <1>5, <2>1, <2>4, AcceptStep DEF NextSector, MsfOK
<1>6. CASE Gap
  <2> USE <1>6 DEF Gap, ReadFrom, Goes
  <2>1. Len(delivered) # 0 /\ Len(delivered) < Total
    BY DEF MsfOK, DrainOK
  <2>2. prev_msf + 1 - base_msf = Len(delivered)
    BY <1>0, <2>1 DEF MsfOK
  <2>3. TypeOK' /\ next' + left' <= Total
    BY <1>0, <2>1, <2>2
  <2>4. ExactFile' /\ DrainOK'
    BY <2>1 DEF ExactFile, DrainOK
  <2>5. MsfOK' /\ stream_remaining' = Total - Len(delivered')
    BY <2>1, <2>2 DEF MsfOK
  <2> QED
    BY <2>3, <2>4, <2>5
<1>7. CASE StopForStage
  <2> USE <1>7 DEF StopForStage, Goes
  <2>1. TypeOK' /\ ExactFile' /\ DrainOK' /\ next' + left' <= Total
    BY DEF ExactFile, DrainOK
  <2>2. MsfOK'
    BY DEF MsfOK
  <2> QED
    BY <2>1, <2>2
<1>8. CASE ResumeAfterStage
  <2> USE <1>8 DEF ResumeAfterStage, ReadFrom, Goes
  <2>1. Len(delivered) = StageAt
    BY DEF DrainOK
  <2>2. TypeOK' /\ ExactFile' /\ DrainOK' /\ next' + left' <= Total
    BY <2>1 DEF ExactFile, DrainOK
  <2>3. MsfOK'
    BY <2>1 DEF MsfOK
  <2> QED
    BY <2>2, <2>3
<1>9. CASE IssueFileRead
  <2> USE <1>9 DEF IssueFileRead, ReadFrom
  <2>1. TypeOK' /\ ExactFile' /\ DrainOK' /\ next' + left' <= Total
    BY DEF ExactFile, DrainOK, None
  <2>2. MsfOK'
    BY DEF MsfOK
  <2> QED
    BY <2>1, <2>2
<1> QED
  BY <1>1, <1>2, <1>3, <1>4, <1>5, <1>6, <1>7, <1>8, <1>9 DEF Sub

LEMMA StutterStep == Inv /\ UNCHANGED vars => Inv'
  BY DEF Inv, TypeOK, ExactFile, DrainOK, MsfOK, vars

LEMMA Invariance == ASSUME 0 \notin LossAt PROVE Spec => []Inv
<1>1. Init => Inv
  BY InitInv
<1>2. Inv /\ [Next]_vars => Inv'
  BY DriveStep, SubStep, StutterStep DEF Next
<1> QED
  BY <1>1, <1>2, PTL DEF Spec

\* Every variable of the reader keeps its type: no recovery seeks outside the
\* file or reads past its end.
THEOREM ReaderTypeCorrect == ASSUME 0 \notin LossAt PROVE Spec => []TypeOK
<1>1. Inv => TypeOK
  BY DEF Inv
<1> QED
  BY <1>1, Invariance, PTL

\* Whatever is lost behind the first sector, drain1 hands out the sectors of the
\* file in order, each once, over any number of recoveries and replays.
THEOREM ExactlyTheFile == ASSUME 0 \notin LossAt PROVE Spec => []ExactFile
<1>1. Inv => ExactFile
  BY DEF Inv
<1> QED
  BY <1>1, Invariance, PTL

\* The count with which stream_start restarts the read behind the boot stage is
\* exact, although a recovery may have rewritten it.
THEOREM RemainingIsExact == ASSUME 0 \notin LossAt PROVE Spec => []RemainingExact
<1>1. Inv => RemainingExact
  BY DEF Inv, RemainingExact
<1> QED
  BY <1>1, Invariance, PTL
=============================================================================
