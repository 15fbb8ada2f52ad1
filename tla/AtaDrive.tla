------------------------------ MODULE AtaDrive ------------------------------
(***************************************************************************)
(* The ATA driver (ata.rs) and the drive it polls.  The driver cuts a      *)
(* request into commands of at most MAX_SECTORS_PER_CMD sectors, selects   *)
(* the drive, waits until it is not busy, writes the address into byte     *)
(* wide registers, and moves sector by sector, polling the status before   *)
(* each one; every poll loop gives up after SPIN_LIMIT reads.              *)
(*                                                                         *)
(* The drive is external: it answers after any delay, or reports an error, *)
(* which stays in its status until it accepts a command; it has a write    *)
(* cache.  A command that arrives while it still offers data of an earlier *)
(* one replaces that one (the ATA standard leaves this open).              *)
(***************************************************************************)
EXTENDS Integers

CONSTANTS
  SECTORS, Data, MAX_SECTORS_PER_CMD,
  LBA48,      \* lba48 of the drive
  Requests,   \* <<op, lba, total, buf>> as the file system makes them
  NoData      \* in place of data: not read yet, or nothing received

VARIABLES
  disk, media,  \* what the drive returns; what it has made permanent
  status,       \* its status register: "ready", "busy", "drq" or "err"
  cmd, at, left, got,  \* its command, next sector, sectors to go, data received
  phase,        \* where the driver is: "idle", "issue", "drq", "settle", "flushed"
  op, lba, total, buf, \* the request
  pos, stop,    \* sectors moved so far; where the current command ends
  ret,          \* "busy", "ok" or "error"
  late          \* history: sectors of failed writes that may still land

drive == <<disk, media, status, cmd, at, left, got>>
request == <<op, lba, total, buf>>
vars == <<drive, phase, request, pos, stop, ret, late>>

Sector == 0..(SECTORS - 1)

ASSUME AtaAssumption ==
  /\ SECTORS \in Nat /\ MAX_SECTORS_PER_CMD \in 1..255
  /\ LBA48 \in BOOLEAN /\ NoData \notin Data
  /\ \A r \in Requests :
       /\ r[1] \in {"read", "write", "flush"} /\ r[2] \in Nat /\ r[3] \in Nat
       /\ r[1] = "write" => \A i \in 0..(r[3] - 1) : r[4][i] \in Data
       /\ r[1] = "flush" => r[3] = 0

Pairs(o, first, n, b) ==
  IF o = "write" THEN {<<first + i, b[i]>> : i \in 0..(n - 1)} ELSE {}

----------------------------------------------------------------------------
(* The address registers, as issue writes them and the drive reads them:   *)
(* four bits of a 28-bit address go into the drive register.               *)
Shift(n) == n \div 256

Registers(n) ==
  LET n1 == Shift(n)  n2 == Shift(n1)  n3 == Shift(n2)
      n4 == Shift(n3) n5 == Shift(n4)
  IN  [lo |-> n % 256, mid |-> n1 % 256, hi |-> n2 % 256,
       drv |-> IF LBA48 THEN 0 ELSE n3 % 16,
       lo2 |-> IF LBA48 THEN n3 % 256 ELSE 0,
       mid2 |-> IF LBA48 THEN n4 % 256 ELSE 0,
       hi2 |-> IF LBA48 THEN n5 % 256 ELSE 0]

Addressed(r) ==
  r.lo + 256 * (r.mid + 256 * (r.hi + 256 *
    (IF LBA48 THEN r.lo2 + 256 * (r.mid2 + 256 * r.hi2) ELSE r.drv)))

InReach(n) ==
  IF LBA48 THEN Shift(Shift(Shift(Shift(Shift(n))))) < 256 ELSE n < 268435456

----------------------------------------------------------------------------
(* The driver.                                                             *)

Return(r) == phase' = "idle" /\ ret' = r

Ok ==
  /\ Return("ok")
  /\ late' = IF total = 0 /\ op # "flush" THEN late ELSE {}

Err ==
  /\ Return("error")
  /\ late' = late \cup Pairs(op, lba, total, buf)

Start(r) ==
  /\ phase = "idle" /\ phase' = "check" /\ ret' = "busy"
  /\ op' = r[1] /\ lba' = r[2] /\ total' = r[3]
  /\ buf' = IF r[1] = "write" THEN r[4] ELSE [i \in 0..(r[3] - 1) |-> NoData]
  /\ pos' = 0 /\ stop' = 0
  /\ UNCHANGED <<drive, late>>

check ==
  /\ phase = "check"
  /\ \/ lba + total > SECTORS /\ op # "flush" /\ Err
     \/ lba + total <= SECTORS /\ total = 0 /\ op # "flush" /\ Ok
     \/ /\ (lba + total <= SECTORS /\ total > 0) \/ op = "flush"
        /\ phase' = "issue" /\ UNCHANGED <<ret, late>>
  /\ UNCHANGED <<drive, request, pos, stop>>

(* Faulty variant: the drive is not waited for.                            *)
AnyState == TRUE

(* wait_not_busy has succeeded.                                            *)
NotBusy == status \in {"ready", "drq"}

Count == IF total - pos < MAX_SECTORS_PER_CMD THEN total - pos ELSE MAX_SECTORS_PER_CMD

issue ==
  /\ phase = "issue" /\ InReach(lba + pos) /\ NotBusy
  /\ phase' = IF op = "flush" THEN "flushed" ELSE "drq"
  /\ stop' = pos + Count
  /\ status' = "busy" /\ cmd' = op
  /\ at' = Addressed(Registers(lba + pos)) /\ left' = Count % 256 /\ got' = NoData
  /\ UNCHANGED <<disk, media, request, pos, ret, late>>

(* One sector from the data register after wait_drq, and one into it.      *)
TakeSector ==
  /\ phase = "drq" /\ op = "read" /\ pos < stop /\ status = "drq"
  /\ buf' = [buf EXCEPT ![pos] = disk[at]] /\ pos' = pos + 1
  /\ at' = at + 1 /\ left' = left - 1
  /\ status' = IF left = 1 THEN "ready" ELSE "busy"
  /\ UNCHANGED <<disk, media, cmd, got, phase, op, lba, total, stop, ret, late>>

GiveSector ==
  /\ phase = "drq" /\ op = "write" /\ pos < stop /\ status = "drq"
  /\ got' = buf[pos] /\ pos' = pos + 1
  /\ status' = "busy"
  /\ UNCHANGED <<disk, media, cmd, at, left, phase, request, stop, ret, late>>

(* The command's sectors are through; a write is waited for once more.     *)
CommandDone ==
  /\ phase = "drq" /\ pos = stop
  /\ CASE op = "write" -> phase' = "settle" /\ UNCHANGED <<ret, late>>
       [] op = "read" /\ pos < total -> phase' = "issue" /\ UNCHANGED <<ret, late>>
       [] OTHER -> Ok
  /\ UNCHANGED <<drive, request, pos, stop>>

Settled ==
  /\ phase = "settle" /\ NotBusy
  /\ IF pos < total THEN phase' = "issue" /\ UNCHANGED <<ret, late>> ELSE Ok
  /\ UNCHANGED <<drive, request, pos, stop>>

Flushed ==
  /\ phase = "flushed" /\ NotBusy /\ Ok
  /\ UNCHANGED <<drive, request, pos, stop>>

(* Faulty variant: a poll loop ends only when the drive reports something. *)
Reported == status = "err"

(* The drive reports an error, or SPIN_LIMIT polls have shown it busy, or  *)
(* without data to move.                                                   *)
PollFails == status = "err" \/ status = "busy" \/ (phase = "drq" /\ status = "ready")

GiveUp ==
  /\ \/ phase \in {"issue", "settle", "flushed"}
     \/ phase = "drq" /\ pos < stop
  /\ PollFails \/ (phase = "issue" /\ ~InReach(lba + pos))
  /\ Err
  /\ UNCHANGED <<drive, request, pos, stop>>

Driver ==
  \/ \E r \in Requests : Start(r)
  \/ check \/ issue \/ TakeSector \/ GiveSector \/ CommandDone \/ Settled
  \/ Flushed \/ GiveUp

----------------------------------------------------------------------------
(* The drive, and the loss of power, after which the system starts afresh. *)

driver == <<phase, request, pos, stop, ret, late>>

OfferData ==
  /\ status = "busy" /\ cmd \in {"read", "write"} /\ left > 0 /\ got = NoData
  /\ status' = "drq"
  /\ UNCHANGED <<disk, media, cmd, at, left, got, driver>>

Commit ==
  /\ status = "busy" /\ cmd = "write" /\ got # NoData
  /\ disk' = [disk EXCEPT ![at] = got] /\ got' = NoData
  /\ at' = at + 1 /\ left' = left - 1
  /\ status' = IF left = 1 THEN "ready" ELSE "busy"
  /\ UNCHANGED <<media, cmd, driver>>

FlushCache ==
  /\ status = "busy" /\ cmd = "flush"
  /\ media' = disk /\ status' = "ready"
  /\ UNCHANGED <<disk, cmd, at, left, got, driver>>

Fault ==
  /\ status = "busy" /\ status' = "err" /\ got' = NoData
  /\ UNCHANGED <<disk, media, cmd, at, left, driver>>

DestageSector(i) ==
  /\ media' = [media EXCEPT ![i] = disk[i]]
  /\ UNCHANGED <<disk, status, cmd, at, left, got, driver>>

PowerLoss ==
  /\ disk' = media /\ status' = "ready" /\ cmd' = "flush" /\ got' = NoData
  /\ phase' = "idle" /\ ret' = "error" /\ late' = {}
  /\ UNCHANGED <<media, at, left, request, pos, stop>>

Device ==
  \/ OfferData \/ Commit \/ FlushCache \/ Fault
  \/ \E i \in Sector : DestageSector(i)

Init ==
  /\ disk \in [Sector -> Data] /\ media = disk
  /\ status = "ready" /\ cmd = "flush" /\ at = 0 /\ left = 0 /\ got = NoData
  /\ phase = "idle" /\ op = "flush" /\ lba = 0 /\ total = 0 /\ buf = << >>
  /\ pos = 0 /\ stop = 0 /\ ret = "error" /\ late = {}

Next == Driver \/ Device \/ PowerLoss

Spec == Init /\ [][Next]_vars

(* The driver runs; nothing is assumed of the drive.                       *)
FairSpec == Spec /\ WF_vars(Driver)

----------------------------------------------------------------------------
Blocks == INSTANCE BlockStore

(* The drive behind the driver keeps BlockDevice's promise: a request that *)
(* returns Ok has read or written exactly its sectors, or made everything  *)
(* permanent, whatever delays, errors and late answers came before it.     *)
ImplementsBlocks == Blocks!BlockSpec

(* No request hangs, even when the drive never answers: the poll loops end.*)
RequestsEnd == (phase # "idle") ~> (phase = "idle")
=============================================================================
