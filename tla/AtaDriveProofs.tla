--------------------------- MODULE AtaDriveProofs ---------------------------
(***************************************************************************)
(* The ATA driver implements BlockStore: for drives of any size, any data, *)
(* any length of command and any requests.                                 *)
(***************************************************************************)
EXTENDS AtaDrive, TLAPS

(* The prover's default of five seconds is short for the larger steps.     *)
USE SMTT(20), ZenonT(20), SMTT(30)

(* m and a byte make up n.                                                 *)
Splits(n, m) == m \in Nat /\ n % 256 \in 0..255 /\ n = 256 * m + (n % 256)

LEMMA ShiftSplits == ASSUME NEW n \in Nat PROVE Splits(n, Shift(n))
  BY DEF Shift, Splits

LEMMA SplitsNat == ASSUME NEW n, NEW m, Splits(n, m) PROVE m \in Nat
  BY DEF Splits

(* What the registers carry is the address that issue was called with.     *)
LEMMA AddressKept ==
  ASSUME NEW n \in Nat, InReach(n) PROVE Addressed(Registers(n)) = n
<1> DEFINE n1 == Shift(n)
           n2 == Shift(n1)
           n3 == Shift(n2)
           n4 == Shift(n3)
           n5 == Shift(n4)
<1>1. Splits(n, n1)
  BY ShiftSplits
<1> HIDE DEF n1
<1>n1. n1 \in Nat
  BY <1>1, SplitsNat
<1>2. Splits(n1, n2)
  BY <1>n1, ShiftSplits
<1> HIDE DEF n2
<1>n2. n2 \in Nat
  BY <1>2, SplitsNat
<1>3. Splits(n2, n3)
  BY <1>n2, ShiftSplits
<1> HIDE DEF n3
<1>n3. n3 \in Nat
  BY <1>3, SplitsNat
<1>4. Splits(n3, n4)
  BY <1>n3, ShiftSplits
<1> HIDE DEF n4
<1>n4. n4 \in Nat
  BY <1>4, SplitsNat
<1>5. Splits(n4, n5)
  BY <1>n4, ShiftSplits
<1> HIDE DEF n5
<1>n5. n5 \in Nat
  BY <1>5, SplitsNat
<1>6. CASE ~LBA48
  <2>1. n < 268435456
    BY <1>6 DEF InReach
  <2>2. n3 < 16
    BY <2>1, <1>1, <1>2, <1>3, <1>n1, <1>n2, <1>n3 DEF Splits
  <2>3. n3 % 16 = n3
    BY <2>2, <1>n3
  <2>4. Addressed(Registers(n)) =
          (n % 256) + 256 * ((n1 % 256) + 256 * ((n2 % 256) + 256 * (n3 % 16)))
    BY <1>6 DEF Registers, Addressed, n1, n2, n3
  <2> QED BY <1>1, <1>2, <1>3, <1>n1, <1>n2, <1>n3, <2>3, <2>4 DEF Splits
<1>7. CASE LBA48
  <2>1. n5 < 256
    BY <1>7 DEF InReach, n1, n2, n3, n4, n5
  <2>2. n5 % 256 = n5
    BY <2>1, <1>n5
  <2>3. Addressed(Registers(n)) =
          (n % 256) + 256 * ((n1 % 256) + 256 * ((n2 % 256) + 256 * ((n3 % 256)
            + 256 * ((n4 % 256) + 256 * (n5 % 256)))))
    BY <1>7 DEF Registers, Addressed, n1, n2, n3, n4, n5
  <2> QED BY <1>1, <1>2, <1>3, <1>4, <1>5, <1>n1, <1>n2, <1>n3, <1>n4, <1>n5, <2>2, <2>3
         DEF Splits
<1> QED BY <1>6, <1>7

----------------------------------------------------------------------------
DataOr == Data \cup {NoData}

TypeInv ==
  /\ disk \in [Sector -> Data] /\ media \in [Sector -> Data]
  /\ status \in {"ready", "busy", "drq", "err"}
  /\ cmd \in {"read", "write", "flush"}
  /\ at \in Nat /\ left \in Int /\ got \in DataOr
  /\ phase \in {"idle", "check", "issue", "drq", "settle", "flushed"}
  /\ op \in {"read", "write", "flush"}
  /\ lba \in Nat /\ total \in Nat /\ pos \in Nat /\ stop \in Nat
  /\ op = "write" => \A i \in 0..(total - 1) : buf[i] \in Data
  /\ op = "read" => buf \in [0..(total - 1) -> DataOr]

(* One sector is with the drive and not yet on the disk.                   *)
Pending == IF got = NoData THEN 0 ELSE 1

Moving == phase \in {"drq", "settle"}

(* The request in progress, and what its phase implies.                    *)
PhaseInv ==
  /\ phase # "idle" <=> ret = "busy"
  /\ phase = "check" => pos = 0
  /\ phase \in {"issue", "drq", "settle"} /\ op # "flush" =>
       lba + total <= SECTORS /\ pos <= total
  /\ phase = "issue" /\ op # "flush" => pos < total
  /\ phase = "drq" => op # "flush"
  /\ phase = "settle" => op = "write" /\ pos = stop
  /\ phase = "flushed" => op = "flush" /\ cmd = "flush"
  /\ phase = "issue" /\ pos > 0 => status # "busy" /\ op # "flush"

(* The drive and the driver agree on where the command is.                 *)
CommandInv ==
  /\ got # NoData => cmd = "write" /\ status = "busy"
  /\ Moving =>
       /\ cmd = op /\ pos <= stop /\ stop <= total
       /\ status # "err" => at = lba + pos - Pending /\ left = stop - pos + Pending
       /\ got # NoData => pos > 0 /\ got = buf[pos - 1]
       /\ op = "read" /\ status \in {"busy", "drq"} => pos < stop

(* What has been moved is the same on both sides.                          *)
MovedInv ==
  phase \in {"issue", "drq", "settle"} =>
    /\ op = "read" => \A i \in 0..(pos - 1) : buf[i] = disk[lba + i]
    /\ op = "write" /\ status # "err" =>
         \A i \in 0..(pos - Pending - 1) : disk[lba + i] = buf[i]

(* A sector still with the drive after its request has failed is known.    *)
LateInv ==
  got # NoData => at \in Sector /\ (~Moving => <<at, got>> \in late)

FlushInv ==
  phase = "flushed" /\ status \in {"ready", "drq"} => media = disk

IInv == TypeInv /\ PhaseInv /\ CommandInv /\ MovedInv /\ LateInv /\ FlushInv

----------------------------------------------------------------------------
LEMMA InitInv == Init => IInv
  BY AtaAssumption DEF Init, IInv, TypeInv, PhaseInv, CommandInv, MovedInv, LateInv,
     FlushInv, Moving, DataOr

(* A request that fails leaves what is still with the drive in late.       *)
LEMMA ErrInv ==
  ASSUME IInv, Err, UNCHANGED <<drive, request, pos, stop>> PROVE IInv'
<1> USE DEF drive, request, Err, Return
<1>1. TypeInv' /\ PhaseInv' /\ MovedInv' /\ FlushInv'
  BY DEF IInv, TypeInv, PhaseInv, MovedInv, FlushInv
<1>2. CommandInv'
  BY DEF IInv, CommandInv, Moving
<1>3. ASSUME got # NoData PROVE at \in Sector /\ <<at, got>> \in late'
  <2>1. CASE ~Moving
    BY <1>3, <2>1 DEF IInv, LateInv
  <2>2. CASE Moving
    <3>1. /\ op = "write" /\ pos \in 1..total
          /\ at = lba + (pos - 1) /\ got = buf[pos - 1]
      BY <1>3, <2>2 DEF IInv, TypeInv, CommandInv, Pending
    <3>2. pos - 1 \in 0..(total - 1)
      BY <3>1 DEF IInv, TypeInv
    <3>3. <<at, got>> \in Pairs(op, lba, total, buf)
      BY <3>1, <3>2 DEF Pairs
    <3> QED BY <1>3, <3>3 DEF IInv, LateInv
  <2> QED BY <2>1, <2>2
<1>4. LateInv'
  BY <1>3 DEF LateInv, Moving
<1> QED BY <1>1, <1>2, <1>4 DEF IInv

(* A request that succeeds leaves nothing with the drive.                  *)
LEMMA OkInv ==
  ASSUME IInv, Ok, UNCHANGED <<drive, request, pos, stop>>,
         got # NoData => total = 0 /\ op # "flush" /\ ~Moving
  PROVE  IInv'
<1> USE DEF drive, request, Ok, Return
<1>1. TypeInv' /\ PhaseInv' /\ MovedInv' /\ FlushInv'
  BY DEF IInv, TypeInv, PhaseInv, MovedInv, FlushInv
<1>2. CommandInv'
  BY DEF IInv, CommandInv, Moving
<1>3. LateInv'
  BY DEF IInv, LateInv, Moving
<1> QED BY <1>1, <1>2, <1>3 DEF IInv

LEMMA StartInv == ASSUME IInv, NEW r \in Requests, Start(r) PROVE IInv'
<1> USE DEF Start, drive
<1>1. TypeInv'
  BY AtaAssumption DEF IInv, TypeInv, DataOr
<1>2. PhaseInv' /\ MovedInv' /\ FlushInv'
  BY DEF PhaseInv, MovedInv, FlushInv
<1>3. CommandInv' /\ LateInv'
  BY DEF IInv, CommandInv, LateInv, Moving
<1> QED BY <1>1, <1>2, <1>3 DEF IInv

LEMMA CheckInv == ASSUME IInv, check PROVE IInv'
<1>1. CASE Err
  BY <1>1, ErrInv DEF check
<1>2. CASE Ok /\ total = 0 /\ op # "flush"
  BY <1>2, OkInv DEF check, Moving
<1>3. CASE /\ (lba + total <= SECTORS /\ total > 0) \/ op = "flush"
           /\ phase' = "issue" /\ UNCHANGED <<ret, late>>
  <2> USE <1>3 DEF check, drive, request
  <2>1. TypeInv' /\ PhaseInv' /\ FlushInv'
    BY DEF IInv, TypeInv, PhaseInv, FlushInv
  <2>2. CommandInv' /\ LateInv'
    BY DEF IInv, CommandInv, LateInv, Moving
  <2>3. pos = 0 /\ Pending \in 0..1
    BY DEF IInv, PhaseInv, Pending
  <2>4. MovedInv'
    BY <2>3 DEF MovedInv, Pending
  <2> QED BY <2>1, <2>2, <2>4 DEF IInv
<1> QED BY <1>1, <1>2, <1>3 DEF check

LEMMA IssueInv == ASSUME IInv, issue PROVE IInv'
<1> USE AtaAssumption DEF issue
<1>1. lba + pos \in Nat /\ at' = lba + pos
  BY AddressKept DEF IInv, TypeInv
<1>2. CASE op = "flush"
  <2>1. TypeInv' /\ PhaseInv' /\ FlushInv' /\ MovedInv'
    BY <1>1, <1>2 DEF IInv, TypeInv, PhaseInv, FlushInv, MovedInv, request, DataOr, Count
  <2>2. CommandInv' /\ LateInv'
    BY <1>2 DEF CommandInv, LateInv, Moving
  <2> QED BY <2>1, <2>2 DEF IInv
<1>3. CASE op # "flush"
  <2>1. /\ pos < total /\ Count \in 1..255 /\ pos + Count <= total
        /\ lba + total <= SECTORS
    <3>1. pos \in Nat /\ total \in Nat /\ lba \in Nat
      BY DEF IInv, TypeInv
    <3>2. pos < total /\ lba + total <= SECTORS
      BY <1>3 DEF IInv, PhaseInv
    <3> QED BY <3>1, <3>2 DEF Count
  <2>2. Count % 256 = Count
    BY <2>1
  <2>3. TypeInv'
    <3>1. stop' \in Nat /\ at' \in Nat /\ left' \in Int /\ got' \in DataOr
      BY <1>1, <2>1, <2>2 DEF IInv, TypeInv, DataOr
    <3> QED BY <3>1 DEF IInv, TypeInv, request
  <2>4. PhaseInv' /\ FlushInv'
    BY <1>3, <2>1 DEF IInv, TypeInv, PhaseInv, FlushInv, request
  <2>5. Pending' = 0
    BY DEF Pending
  <2>6. CommandInv' /\ LateInv'
    BY <1>1, <1>3, <2>1, <2>2, <2>5 DEF IInv, TypeInv, CommandInv, LateInv, Moving, request
  <2>7. MovedInv'
    <3>1. op = "write" => \A i \in 0..(pos - 1) : disk[lba + i] = buf[i]
      <4>1. pos > 0 => Pending = 0
        BY DEF IInv, TypeInv, PhaseInv, CommandInv, Pending
      <4> QED BY <4>1 DEF IInv, TypeInv, MovedInv, NotBusy
    <3> QED BY <3>1, <2>5 DEF IInv, TypeInv, MovedInv, request
  <2> QED BY <2>3, <2>4, <2>6, <2>7 DEF IInv
<1> QED BY <1>2, <1>3

LEMMA TakeInv == ASSUME IInv, TakeSector PROVE IInv'
<1> USE DEF TakeSector
<1>1. /\ cmd = "read" /\ got = NoData /\ pos < stop /\ stop <= total
      /\ at = lba + pos /\ left = stop - pos /\ lba + total <= SECTORS
  BY DEF IInv, TypeInv, PhaseInv, CommandInv, Moving, Pending
<1> lba \in Nat /\ pos \in Nat /\ total \in Nat /\ stop \in Nat /\ SECTORS \in Nat
  BY AtaAssumption DEF IInv, TypeInv
<1>p. at \in Sector /\ pos \in 0..(total - 1)
  BY <1>1 DEF Sector
<1>2. at \in Sector /\ disk[at] \in Data /\ pos \in 0..(total - 1)
  BY <1>p DEF IInv, TypeInv
<1>3. TypeInv'
  BY <1>1, <1>2 DEF IInv, TypeInv, DataOr
<1>4. PhaseInv' /\ FlushInv' /\ LateInv'
  BY <1>1 DEF IInv, TypeInv, PhaseInv, FlushInv, LateInv
<1>5. CommandInv'
  BY <1>1 DEF IInv, TypeInv, CommandInv, Moving, Pending
<1>6. \A i \in 0..(pos' - 1) : buf'[i] = disk[lba + i]
  <2>1. \A i \in 0..(pos - 1) : buf[i] = disk[lba + i]
    BY DEF IInv, MovedInv
  <2>2. buf \in [0..(total - 1) -> DataOr]
    BY DEF IInv, TypeInv
  <2> QED BY <1>1, <1>2, <2>1, <2>2
<1>7. MovedInv'
  BY <1>6 DEF MovedInv
<1> QED BY <1>3, <1>4, <1>5, <1>7 DEF IInv

LEMMA GiveInv == ASSUME IInv, GiveSector PROVE IInv'
<1> USE DEF GiveSector, request
<1>1. /\ cmd = "write" /\ got = NoData /\ pos < stop /\ stop <= total
      /\ at = lba + pos /\ left = stop - pos /\ lba + total <= SECTORS
  BY DEF IInv, TypeInv, PhaseInv, CommandInv, Moving, Pending
<1>2. /\ pos \in 0..(total - 1) /\ buf[pos] \in Data /\ got' # NoData
      /\ at \in Sector /\ Pending = 0 /\ Pending' = 1
  BY <1>1, AtaAssumption DEF IInv, TypeInv, Sector, Pending
<1>3. TypeInv'
  BY <1>1, <1>2 DEF IInv, TypeInv, DataOr
<1>4. PhaseInv' /\ FlushInv' /\ LateInv'
  BY <1>1, <1>2 DEF IInv, TypeInv, PhaseInv, FlushInv, LateInv, Moving
<1>5. CommandInv'
  BY <1>1, <1>2 DEF IInv, TypeInv, CommandInv, Moving
<1>6. MovedInv'
  BY <1>1, <1>2 DEF IInv, TypeInv, MovedInv
<1> QED BY <1>3, <1>4, <1>5, <1>6 DEF IInv

LEMMA DoneInv == ASSUME IInv, CommandDone PROVE IInv'
<1> USE DEF CommandDone
<1>1. CASE op = "write"
  <2> USE <1>1 DEF drive, request
  <2>1. TypeInv' /\ PhaseInv' /\ FlushInv'
    BY DEF IInv, TypeInv, PhaseInv, FlushInv
  <2>2. CommandInv' /\ LateInv'
    BY DEF IInv, CommandInv, LateInv, Moving, Pending
  <2>3. MovedInv'
    BY DEF IInv, MovedInv, Pending
  <2> QED BY <2>1, <2>2, <2>3 DEF IInv
<1>2. CASE op = "read" /\ pos < total
  <2> USE <1>2 DEF drive, request
  <2>1. status # "busy" /\ got = NoData
    BY DEF IInv, TypeInv, CommandInv, Moving
  <2>2. TypeInv' /\ PhaseInv' /\ FlushInv'
    BY <2>1 DEF IInv, TypeInv, PhaseInv, FlushInv
  <2>3. CommandInv' /\ LateInv' /\ MovedInv'
    BY <2>1 DEF IInv, CommandInv, LateInv, MovedInv, Moving
  <2> QED BY <2>2, <2>3 DEF IInv
<1>3. CASE op # "write" /\ ~(pos < total)
  <2>1. got = NoData
    BY <1>3 DEF IInv, CommandInv, Moving
  <2> QED BY <1>3, <2>1, OkInv
<1> QED BY <1>1, <1>2, <1>3 DEF IInv, PhaseInv, TypeInv

LEMMA SettledInv == ASSUME IInv, Settled PROVE IInv'
<1> USE DEF Settled, NotBusy
<1>1. got = NoData
  BY DEF IInv, CommandInv
<1>2. CASE pos < total
  <2> USE <1>2 DEF drive, request
  <2>1. TypeInv' /\ PhaseInv' /\ FlushInv'
    BY DEF IInv, TypeInv, PhaseInv, FlushInv
  <2>2. CommandInv' /\ LateInv'
    BY <1>1 DEF IInv, CommandInv, LateInv, Moving
  <2>3. MovedInv'
    BY DEF IInv, MovedInv, Pending
  <2> QED BY <2>1, <2>2, <2>3 DEF IInv
<1>3. CASE ~(pos < total)
  BY <1>1, <1>3, OkInv
<1> QED BY <1>2, <1>3

LEMMA FlushedInv == ASSUME IInv, Flushed PROVE IInv'
<1>1. got = NoData
  BY DEF Flushed, NotBusy, IInv, CommandInv
<1> QED BY <1>1, OkInv DEF Flushed

(* The steps of the drive.                                                 *)
LEMMA OfferInv == ASSUME IInv, OfferData PROVE IInv'
<1> USE DEF OfferData, driver, request
<1>1. TypeInv' /\ PhaseInv' /\ FlushInv' /\ LateInv'
  BY DEF IInv, TypeInv, PhaseInv, FlushInv, LateInv, Moving
<1>2. CommandInv' /\ MovedInv'
  BY DEF IInv, TypeInv, CommandInv, MovedInv, Moving, Pending
<1> QED BY <1>1, <1>2 DEF IInv

LEMMA CommitInv == ASSUME IInv, Commit PROVE IInv'
<1> USE DEF Commit, driver, request
<1>1. at \in Sector /\ got \in Data /\ Pending = 1 /\ Pending' = 0
  BY DEF IInv, TypeInv, LateInv, DataOr, Pending
<1>2. TypeInv'
  BY <1>1 DEF IInv, TypeInv, DataOr
<1>3. PhaseInv' /\ FlushInv' /\ LateInv'
  BY <1>1 DEF IInv, TypeInv, PhaseInv, FlushInv, LateInv
<1>4. CommandInv'
  BY <1>1 DEF IInv, TypeInv, CommandInv, Moving
<1>5. ASSUME phase = "issue" PROVE pos = 0
  BY <1>5 DEF IInv, TypeInv, PhaseInv
<1>6. ASSUME Moving
      PROVE  /\ op = "write" /\ at = lba + (pos - 1) /\ got = buf[pos - 1]
             /\ pos \in 1..total /\ lba + total <= SECTORS
  BY <1>1, <1>6 DEF IInv, TypeInv, PhaseInv, CommandInv, Moving
<1>7. MovedInv'
  <2>1. CASE phase = "issue"
    BY <1>1, <1>5, <2>1 DEF MovedInv
  <2>2. CASE Moving
    <3>1. \A i \in 0..(pos - 2) : disk[lba + i] = buf[i]
      BY <1>1, <1>6, <2>2 DEF IInv, TypeInv, MovedInv, Moving
    <3>2. \A i \in 0..(pos - 2) : lba + i # at
      BY <1>6, <2>2 DEF IInv, TypeInv
    <3>3. \A i \in 0..(pos - 1) : disk'[lba + i] = buf[i]
      <4> SUFFICES ASSUME NEW i \in 0..(pos - 1) PROVE disk'[lba + i] = buf[i]
        OBVIOUS
      <4>1. CASE i = pos - 1
        BY <1>1, <1>6, <2>2, <4>1 DEF IInv, TypeInv
      <4>2. CASE i \in 0..(pos - 2)
        <5>1. lba + i \in Sector
          BY <1>6, <2>2, <4>2, AtaAssumption DEF IInv, TypeInv, Sector
        <5> QED BY <3>1, <3>2, <4>2, <5>1 DEF IInv, TypeInv
      <4> QED BY <4>1, <4>2, <1>6, <2>2
    <3> QED BY <1>1, <1>6, <2>2, <3>3 DEF MovedInv
  <2>3. CASE phase \notin {"issue", "drq", "settle"}
    BY <2>3 DEF MovedInv
  <2> QED BY <2>1, <2>2, <2>3 DEF Moving
<1> QED BY <1>2, <1>3, <1>4, <1>7 DEF IInv

LEMMA FlushCacheInv == ASSUME IInv, FlushCache PROVE IInv'
<1> USE DEF FlushCache, driver, request
<1>1. TypeInv' /\ PhaseInv' /\ FlushInv' /\ LateInv'
  BY DEF IInv, TypeInv, PhaseInv, FlushInv, LateInv, CommandInv, Moving
<1>2. CommandInv' /\ MovedInv'
  BY DEF IInv, TypeInv, PhaseInv, CommandInv, MovedInv, Moving, Pending
<1> QED BY <1>1, <1>2 DEF IInv

LEMMA FaultInv == ASSUME IInv, Fault PROVE IInv'
<1> USE DEF Fault, driver, request
<1>1. TypeInv' /\ PhaseInv' /\ FlushInv' /\ LateInv'
  BY DEF IInv, TypeInv, PhaseInv, FlushInv, LateInv, DataOr
<1>2. CommandInv' /\ MovedInv'
  BY DEF IInv, CommandInv, MovedInv, Moving
<1> QED BY <1>1, <1>2 DEF IInv

LEMMA DestageInv == ASSUME IInv, NEW i \in Sector, DestageSector(i) PROVE IInv'
<1> USE DEF DestageSector, driver, request
<1>1. TypeInv' /\ PhaseInv'
  BY DEF IInv, TypeInv, PhaseInv
<1>2. FlushInv' /\ LateInv'
  BY DEF IInv, TypeInv, FlushInv, LateInv, Moving
<1>3. CommandInv' /\ MovedInv'
  BY DEF IInv, CommandInv, MovedInv, Moving, Pending
<1> QED BY <1>1, <1>2, <1>3 DEF IInv

LEMMA PowerLossInv == ASSUME IInv, PowerLoss PROVE IInv'
  BY DEF PowerLoss, request, IInv, TypeInv, PhaseInv, CommandInv, MovedInv, LateInv,
     FlushInv, Moving, DataOr

LEMMA StutterInv == ASSUME IInv, UNCHANGED vars PROVE IInv'
<1> USE DEF vars, drive, request
<1>1. TypeInv' /\ PhaseInv' /\ FlushInv'
  BY DEF IInv, TypeInv, PhaseInv, FlushInv
<1>2. LateInv' /\ CommandInv' /\ MovedInv'
  BY DEF IInv, LateInv, CommandInv, MovedInv, Moving, Pending
<1> QED BY <1>1, <1>2 DEF IInv

LEMMA StepInv == IInv /\ [Next]_vars => IInv'
<1> SUFFICES ASSUME IInv, [Next]_vars PROVE IInv'
  OBVIOUS
<1>1. CASE Driver
  BY <1>1, StartInv, CheckInv, IssueInv, TakeInv, GiveInv, DoneInv, SettledInv,
     FlushedInv, ErrInv DEF Driver, GiveUp
<1>2. CASE Device
  BY <1>2, OfferInv, CommitInv, FlushCacheInv, FaultInv, DestageInv DEF Device
<1> QED BY <1>1, <1>2, PowerLossInv, StutterInv DEF Next

----------------------------------------------------------------------------
(* Every step of the driver or the drive is one of BlockStore, or none.    *)
LEMMA InitMaps == Init => Blocks!BlockInit
  BY DEF Init, Blocks!BlockInit, Sector, Blocks!Sector

LEMMA PairsAgree ==
  ASSUME NEW o, NEW f, NEW n, NEW b PROVE Pairs(o, f, n, b) = Blocks!Pairs(o, f, n, b)
  BY DEF Pairs, Blocks!Pairs

LEMMA ErrMaps ==
  ASSUME IInv, phase # "idle", Err, UNCHANGED <<drive, request, pos, stop>>
  PROVE  Blocks!Fail
<1>1. ret = "busy"
  BY DEF IInv, PhaseInv
<1> QED BY <1>1, PairsAgree DEF Blocks!Fail, Err, Return, drive, request, Blocks!request

(* What every return of Ok has to show.                                    *)
LEMMA OkMaps ==
  ASSUME IInv, phase # "idle", Ok, UNCHANGED <<drive, request, pos, stop>>,
         op # "flush" => \A i \in 0..(total - 1) : disk[lba + i] = buf[i],
         op = "flush" => media = disk
  PROVE  Blocks!Succeed
<1>1. ret = "busy"
  BY DEF IInv, PhaseInv
<1>2. late' \in {late, {}} /\ (total > 0 => late' = {})
  BY DEF Ok, IInv, TypeInv
<1> QED BY <1>1, <1>2 DEF Blocks!Succeed, Ok, Return, drive, request

LEMMA CheckMaps == ASSUME IInv, check PROVE [Blocks!BlockNext]_(Blocks!bvars)
<1>1. CASE Err
  BY <1>1, ErrMaps DEF check, Blocks!BlockNext
<1>2. CASE Ok /\ total = 0 /\ op # "flush"
  BY <1>2, OkMaps DEF check, Blocks!BlockNext
<1>3. CASE UNCHANGED <<ret, late>>
  BY <1>3 DEF check, drive, request, Blocks!bvars
<1> QED BY <1>1, <1>2, <1>3 DEF check

LEMMA DoneMaps == ASSUME IInv, CommandDone PROVE [Blocks!BlockNext]_(Blocks!bvars)
<1>1. CASE UNCHANGED <<ret, late>>
  BY <1>1 DEF CommandDone, drive, request, Blocks!bvars
<1>2. CASE Ok /\ op # "write" /\ ~(op = "read" /\ pos < total)
  <2>1. op = "read" /\ pos = total
    BY <1>2 DEF CommandDone, IInv, TypeInv, PhaseInv
  <2>2. \A i \in 0..(total - 1) : disk[lba + i] = buf[i]
    BY <2>1 DEF CommandDone, IInv, MovedInv
  <2> QED BY <1>2, <2>1, <2>2, OkMaps DEF CommandDone, Blocks!BlockNext
<1> QED BY <1>1, <1>2 DEF CommandDone

LEMMA SettledMaps == ASSUME IInv, Settled PROVE [Blocks!BlockNext]_(Blocks!bvars)
<1>1. CASE pos < total
  BY <1>1 DEF Settled, drive, request, Blocks!bvars
<1>2. CASE ~(pos < total)
  <2>1. op = "write" /\ pos = total /\ Pending = 0 /\ status # "err"
    BY <1>2 DEF Settled, NotBusy, IInv, TypeInv, PhaseInv, CommandInv, Pending
  <2>2. \A i \in 0..(total - 1) : disk[lba + i] = buf[i]
    BY <2>1 DEF Settled, IInv, TypeInv, MovedInv
  <2> QED BY <1>2, <2>1, <2>2, OkMaps DEF Settled, Blocks!BlockNext
<1> QED BY <1>1, <1>2

LEMMA FlushedMaps == ASSUME IInv, Flushed PROVE Blocks!BlockNext
<1>1. op = "flush" /\ media = disk
  BY DEF Flushed, NotBusy, IInv, PhaseInv, FlushInv
<1> QED BY <1>1, OkMaps DEF Flushed, Blocks!BlockNext

LEMMA CommitMaps == ASSUME IInv, Commit PROVE Blocks!Land
<1> DEFINE p == <<at, got>>
<1>1. at \in Blocks!Sector
  BY DEF IInv, LateInv, Commit, Sector, Blocks!Sector
<1>2. p[1] \in Blocks!Sector /\ disk' = [disk EXCEPT ![p[1]] = p[2]]
  BY <1>1 DEF Commit
<1>4. p \in late \cup (IF ret = "busy" THEN Blocks!Pairs(op, lba, total, buf) ELSE {})
  <2>1. CASE ~Moving
    BY <2>1 DEF IInv, LateInv, Commit
  <2>2. CASE Moving
    <3>1. op = "write" /\ ret = "busy"
      BY <2>2 DEF Commit, IInv, PhaseInv, CommandInv, Moving
    <3>2. /\ pos > 0 /\ pos <= stop /\ stop <= total /\ got = buf[pos - 1]
          /\ at = lba + pos - 1
      BY <2>2 DEF Commit, IInv, CommandInv, Pending
    <3>3. pos - 1 \in 0..(total - 1) /\ at = lba + (pos - 1)
      BY <3>2 DEF IInv, TypeInv
    <3> QED BY <3>1, <3>2, <3>3 DEF Blocks!Pairs
  <2> QED BY <2>1, <2>2
<1>5. UNCHANGED <<media, Blocks!request, ret, late>>
  BY DEF Commit, driver, request, Blocks!request
<1> HIDE DEF p
<1> QED BY <1>2, <1>4, <1>5, Zenon DEF Blocks!Land

LEMMA DriveMaps == ASSUME IInv, Device PROVE [Blocks!BlockNext]_(Blocks!bvars)
<1>1. CASE OfferData \/ Fault
  BY <1>1 DEF OfferData, Fault, driver, request, Blocks!bvars
<1>2. CASE Commit
  BY <1>2, CommitMaps DEF Blocks!BlockNext
<1>3. CASE FlushCache
  BY <1>3 DEF FlushCache, driver, request, Blocks!BlockNext, Blocks!Destage, Blocks!request
<1>4. ASSUME NEW i \in Sector, DestageSector(i) PROVE Blocks!BlockNext
  BY <1>4 DEF DestageSector, driver, request, Blocks!BlockNext, Blocks!Destage,
     Blocks!request, IInv, TypeInv, Sector, Blocks!Sector
<1> QED BY <1>1, <1>2, <1>3, <1>4 DEF Device

LEMMA StepMaps == IInv /\ [Next]_vars => [Blocks!BlockNext]_(Blocks!bvars)
<1> SUFFICES ASSUME IInv, [Next]_vars PROVE [Blocks!BlockNext]_(Blocks!bvars)
  OBVIOUS
<1>1. ASSUME NEW r \in Requests, Start(r) PROVE Blocks!BlockNext
  BY <1>1 DEF Start, drive, IInv, PhaseInv, Blocks!BlockNext, Blocks!Begin
<1>2. CASE issue
  BY <1>2 DEF issue, request, Blocks!bvars
<1>3. CASE TakeSector
  BY <1>3 DEF TakeSector, IInv, PhaseInv, Blocks!BlockNext, Blocks!Fill
<1>4. CASE GiveSector
  BY <1>4 DEF GiveSector, request, Blocks!bvars
<1>5. CASE GiveUp
  BY <1>5, ErrMaps DEF GiveUp, Blocks!BlockNext
<1>6. CASE Driver
  BY <1>1, <1>2, <1>3, <1>4, <1>5, <1>6, CheckMaps, DoneMaps, SettledMaps, FlushedMaps
     DEF Driver
<1>7. CASE PowerLoss
  BY <1>7 DEF PowerLoss, Blocks!BlockNext, Blocks!PowerLoss
<1>8. CASE UNCHANGED vars
  BY <1>8 DEF vars, drive, request, Blocks!bvars
<1> QED BY <1>6, <1>7, <1>8, DriveMaps DEF Next

(* The driver and the drive together keep the promise of BlockDevice: Ok   *)
(* means that exactly this request was carried out, through any delays,    *)
(* faults, timeouts, late answers and losses of power before it.           *)
THEOREM DriveImplementsBlocks == Spec => ImplementsBlocks
  BY InitInv, StepInv, InitMaps, StepMaps, PTL DEF Spec, ImplementsBlocks, Blocks!BlockSpec
=============================================================================
