------------------------------ MODULE CdRead -------------------------------
(***************************************************************************)
(* The CD reader of the Sub CPU (src/boot/movieplay_sp.s): one finite ISO  *)
(* file read, issue_file_readn, drained a sector at a time by drain1, with *)
(* recovery of lost sectors by the sector header's MSF and reseek_readn.   *)
(*                                                                         *)
(* The drive and the CDC are outside the repository.  They are modelled    *)
(* from the BIOS calls: after ROM_READN the drive puts consecutive sectors *)
(* in a small CDC buffer at its own pace.  A sector is lost when it comes  *)
(* to a full buffer, or when all retries of its CDC_TRN fail.  Sectors are *)
(* numbered from the start of the file; the disc starts at an unknown MSF. *)
(*                                                                         *)
(* An operator Action_Bug is Action with a plausible bug in it, used by    *)
(* the mutation runs of PROJECT.json only.                                 *)
(***************************************************************************)
EXTENDS Integers, Sequences

CONSTANTS
  Total,     \* sectors in the file
  StageAt,   \* sectors read when the boot stage stops the CDC
  CdcDepth,  \* sectors the CDC buffer holds
  LossAt,    \* the sectors that can be lost
  MaxLost,   \* bound: losses in one reading of the file
  FileMsf    \* the MSF of the file's first sector, in sectors

ASSUME CdReadAssumption ==
  /\ Total \in Nat \ {0} /\ StageAt \in Nat \ {0} /\ StageAt < Total
  /\ CdcDepth \in Nat \ {0} /\ MaxLost \in Nat
  /\ LossAt \subseteq 0 .. Total - 1
  /\ FileMsf \in Nat \ {0}

VARIABLES
  next, left,        \* the drive: next sector off the disc, sectors to go
  cdc,               \* sectors waiting in the CDC buffer
  pc,                \* drain1: "caller", "stat" (waiting), "transfer", or
                     \* "stopped" while Main owns the boot stage
  prev_msf, base_msf, stream_remaining,
  delivered,         \* the sectors given to the caller, oldest first
  lost               \* losses so far

drive == <<next, left>>
msf   == <<prev_msf, base_msf>>
vars  == <<next, left, cdc, pc, prev_msf, base_msf, stream_remaining,
           delivered, lost>>

Sector == 0 .. Total - 1
None   == 0      \* prev_msf and base_msf before the first sector

TypeOK ==
  /\ next \in 0 .. Total /\ left \in 0 .. Total
  /\ cdc \in Seq(Sector)
  /\ pc \in {"caller", "stat", "transfer", "stopped"}
  /\ prev_msf \in Nat /\ base_msf \in Nat
  /\ stream_remaining \in 0 .. Total
  /\ delivered \in Seq(Sector)
  /\ lost \in 0 .. MaxLost

\* The file is open: the callers clear both MSFs, then issue_file_readn.
Init ==
  /\ next = 0 /\ left = Total /\ cdc = <<>>
  /\ pc = "caller"
  /\ prev_msf = None /\ base_msf = None
  /\ stream_remaining = Total
  /\ delivered = <<>>
  /\ lost = 0

----------------------------------------------------------------------------
(* The drive (external) *)

DriveReads ==
  /\ left > 0 /\ Len(cdc) < CdcDepth
  /\ cdc' = Append(cdc, next)
  /\ next' = next + 1 /\ left' = left - 1
  /\ UNCHANGED <<pc, msf, stream_remaining, delivered, lost>>

DriveOverruns ==
  /\ left > 0 /\ Len(cdc) = CdcDepth
  /\ next \in LossAt /\ lost < MaxLost
  /\ next' = next + 1 /\ left' = left - 1
  /\ lost' = lost + 1
  /\ UNCHANGED <<cdc, pc, msf, stream_remaining, delivered>>

\* CDC_STOP and ROM_READN: the buffer is empty and the drive at sector s.
ReadFrom(s, count) ==
  /\ next' = s /\ left' = count
  /\ cdc' = <<>>

----------------------------------------------------------------------------
(* drain1 *)

Goes(from, to) == pc = from /\ pc' = to

CallDrain1 ==
  /\ Goes("caller", "stat")
  /\ Len(delivered) \notin {StageAt, Total}
  /\ UNCHANGED <<drive, cdc, msf, stream_remaining, delivered, lost>>

\* CDC_STAT, CDC_READ
SectorReady ==
  /\ Goes("stat", "transfer")
  /\ cdc # <<>>
  /\ UNCHANGED <<drive, cdc, msf, stream_remaining, delivered, lost>>

\* 20000 failed CDC_TRN: acknowledge the sector and wait for the next one.
TransferFails ==
  /\ Goes("transfer", "stat")
  /\ Head(cdc) \in LossAt /\ lost < MaxLost
  /\ cdc' = Tail(cdc)
  /\ lost' = lost + 1
  /\ UNCHANGED <<drive, msf, stream_remaining, delivered>>

HeadMsf == FileMsf + Head(cdc)

Accept ==
  /\ Goes("transfer", "caller")
  /\ prev_msf' = HeadMsf
  /\ delivered' = Append(delivered, Head(cdc))
  /\ stream_remaining' = stream_remaining - 1
  /\ cdc' = Tail(cdc)
  /\ UNCHANGED <<drive, lost>>

FirstSector ==
  /\ Accept
  /\ prev_msf = None
  /\ base_msf' = HeadMsf

NextSector_AnyLater ==
  /\ Accept
  /\ prev_msf # None /\ HeadMsf >= prev_msf + 1
  /\ UNCHANGED base_msf

NextSector ==
  /\ Accept
  /\ prev_msf # None /\ HeadMsf = prev_msf + 1
  /\ UNCHANGED base_msf

Gap_KeepsRemaining ==
  /\ Goes("transfer", "stat")
  /\ prev_msf # None /\ HeadMsf # prev_msf + 1
  /\ ReadFrom(prev_msf + 1 - base_msf, Total - (prev_msf + 1 - base_msf))
  /\ stream_remaining' = stream_remaining - 1
  /\ UNCHANGED <<msf, delivered, lost>>

Gap_AfterTheHole ==
  /\ Goes("transfer", "stat")
  /\ prev_msf # None /\ HeadMsf # prev_msf + 1
  /\ LET hole == prev_msf + 2 - base_msf IN
       /\ ReadFrom(hole, Total - hole)
       /\ stream_remaining' = Total - hole
  /\ UNCHANGED <<msf, delivered, lost>>

Gap_ReadsOn ==
  /\ Goes("transfer", "stat")
  /\ prev_msf # None /\ HeadMsf # prev_msf + 1
  /\ ReadFrom(prev_msf + 1 - base_msf, Total)
  /\ stream_remaining' = Total
  /\ UNCHANGED <<msf, delivered, lost>>

\* The MSF gap: read again from the sector that is missing.
Gap ==
  /\ Goes("transfer", "stat")
  /\ prev_msf # None /\ HeadMsf # prev_msf + 1
  /\ LET hole == prev_msf + 1 - base_msf IN
       /\ ReadFrom(hole, Total - hole)
       /\ stream_remaining' = Total - hole
  /\ UNCHANGED <<msf, delivered, lost>>

----------------------------------------------------------------------------
(* The callers *)

\* stream_start: CDC_STOP before the boot stage is given to Main.
StopForStage ==
  /\ Goes("caller", "stopped")
  /\ Len(delivered) = StageAt
  /\ left' = 0 /\ cdc' = <<>>
  /\ UNCHANGED <<next, msf, stream_remaining, delivered, lost>>

\* ... and reseek_readn at the first unread sector after it has come back.
ResumeAfterStage ==
  /\ Goes("stopped", "stat")
  /\ ReadFrom(StageAt, stream_remaining)
  /\ UNCHANGED <<msf, stream_remaining, delivered, lost>>

\* A movie ends and is replayed: the same file is read from its start.
IssueFileRead ==
  /\ pc = "caller" /\ Len(delivered) = Total
  /\ ReadFrom(0, Total)
  /\ prev_msf' = None /\ base_msf' = None
  /\ stream_remaining' = Total
  /\ delivered' = <<>> /\ lost' = 0
  /\ UNCHANGED pc

Drive == DriveReads \/ DriveOverruns

Sub ==
  \/ CallDrain1 \/ SectorReady \/ TransferFails \/ FirstSector \/ NextSector
  \/ Gap \/ StopForStage \/ ResumeAfterStage \/ IssueFileRead

Next == Drive \/ Sub

Spec == Init /\ [][Next]_vars

\* The disc turns and the Sub CPU runs.  Losses are never certain, and at most
\* MaxLost of them happen in one reading.
FairSpec == Spec /\ WF_vars(Drive) /\ WF_vars(Sub)

----------------------------------------------------------------------------
(* Properties *)

\* Whatever was lost on the way, the caller gets the sectors of the file, all
\* of them, in order and once: routing, control blocks and patterns are parsed
\* from their position in this stream.
ExactFile == \A i \in 1 .. Len(delivered) : delivered[i] = i - 1

\* stream_remaining counts what is left to read through every recovery: the
\* restart behind the boot stage reads that many sectors.
RemainingExact ==
  pc \in {"caller", "stopped"} => stream_remaining = Total - Len(delivered)

\* Every reading of the file comes to its end.
ReadCompletes == []<>(Len(delivered) = Total)

----------------------------------------------------------------------------
(* The inductive invariant, for files whose first sector is never lost. *)

\* The next sector to accept is in the file, and there is one to look at.
DrainOK ==
  /\ pc \in {"stat", "transfer"} => Len(delivered) < Total
  /\ pc = "transfer" => Len(cdc) > 0
  /\ pc = "stopped" => Len(delivered) = StageAt

\* The MSFs are those of the file's first and of its last accepted sector; before
\* that, the first sector is the first that the CDC has or will have.
MsfOK ==
  IF Len(delivered) = 0
    THEN prev_msf = None /\ (IF Len(cdc) = 0 THEN next = 0 ELSE cdc[1] = 0)
    ELSE base_msf = FileMsf /\ prev_msf = FileMsf + Len(delivered) - 1

\* Where every recovery reads from, and how much, follows from what has been
\* delivered, whatever the drive has lost.
Inv ==
  /\ TypeOK /\ ExactFile /\ DrainOK /\ MsfOK
  /\ next + left <= Total
  /\ stream_remaining = Total - Len(delivered)
=============================================================================
