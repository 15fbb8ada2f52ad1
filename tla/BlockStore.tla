----------------------------- MODULE BlockStore -----------------------------
(***************************************************************************)
(* What the trait BlockDevice (block.rs) promises a file system: one       *)
(* request at a time, a request that succeeds has done exactly what it     *)
(* says, and one that fails has changed nothing outside its own sectors.   *)
(* A failed write may still land, sector by sector, until a later request  *)
(* succeeds.  What is flushed survives a loss of power.                    *)
(***************************************************************************)
EXTENDS Integers

CONSTANTS SECTORS, Data

VARIABLES
  disk,   \* what reads return
  media,  \* what survives a loss of power
  op,     \* the request: "read", "write" or "flush"
  lba, total, buf,
  ret,    \* "busy" while it is served, then "ok" or "error"
  late    \* <<sector, data>> of failed writes that may still land

bvars == <<disk, media, op, lba, total, buf, ret, late>>
request == <<op, lba, total, buf>>

Sector == 0..(SECTORS - 1)

(* The sectors of a write, with their data.                                *)
Pairs(o, first, n, b) ==
  IF o = "write" THEN {<<first + i, b[i]>> : i \in 0..(n - 1)} ELSE {}

Begin ==
  /\ ret # "busy" /\ ret' = "busy"
  /\ UNCHANGED <<disk, media, late>>

Land ==
  /\ \E p \in late \cup (IF ret = "busy" THEN Pairs(op, lba, total, buf) ELSE {}) :
       p[1] \in Sector /\ disk' = [disk EXCEPT ![p[1]] = p[2]]
  /\ UNCHANGED <<media, request, ret, late>>

(* The buffer of a read is filled as it is served.                         *)
Fill ==
  /\ ret = "busy" /\ op = "read"
  /\ UNCHANGED <<disk, media, op, lba, total, ret, late>>

(* RamDisk's copy_from_slice, for a request that was served.               *)
Succeed ==
  /\ ret = "busy" /\ ret' = "ok"
  /\ op \in {"read", "write"} => \A i \in 0..(total - 1) : disk[lba + i] = buf'[i]
  /\ op # "read" => buf' = buf
  /\ op = "flush" => media = disk
  /\ late' \in {late, {}}
  /\ total > 0 => late' = {}
  /\ UNCHANGED <<disk, media, op, lba, total>>

Fail ==
  /\ ret = "busy" /\ ret' = "error"
  /\ late' = late \cup Pairs(op, lba, total, buf)
  /\ UNCHANGED <<disk, media, request>>

Destage ==
  /\ \A i \in Sector : media'[i] \in {media[i], disk[i]}
  /\ UNCHANGED <<disk, request, ret, late>>

PowerLoss ==
  /\ disk' = media /\ ret' = "error" /\ late' = {}
  /\ UNCHANGED media

BlockNext ==
  Begin \/ Land \/ Fill \/ Succeed \/ Fail \/ Destage \/ PowerLoss

BlockInit ==
  /\ disk \in [Sector -> Data] /\ media = disk
  /\ ret = "error" /\ late = {}

BlockSpec == BlockInit /\ [][BlockNext]_bvars
=============================================================================
