-------------------------------- MODULE Disk --------------------------------
(***************************************************************************)
(* The disk under FatFs: disk_read and disk_write of                       *)
(* os/ot/user/fs/fatfs-diskio.cpp cut a transfer into sectors, and         *)
(* os/ot/user/fs/virtio-disk.cpp sends each as a chain of three            *)
(* descriptors - header, data, status - that share one request buffer, and *)
(* spins until the device has used it.  The device may fail any request.   *)
(***************************************************************************)
EXTENDS VirtQueue

CONSTANTS
  capacity_sectors,
  Contents,    \* of a sector
  Counts       \* how many sectors FatFs asks for at once

ASSUME DiskAssumption ==
  /\ capacity_sectors \in Nat \ {0} /\ QUEUE_SIZE >= 3
  /\ Counts \in SUBSET (Nat \ {0})

VARIABLES
  diskq,
  request,    \* VirtioBlkRequest
  storage,    \* what the device keeps
  transfer,   \* the call of disk_read or disk_write at hand, or NoTransfer
  moved,      \* the sectors of it that are done
  waiting,    \* whether do_sector_request spins
  buff,       \* FatFs's buffer
  res,        \* DRESULT of the last call
  before      \* the storage when the call came in

diskVars == <<diskq, request, storage, transfer, moved, waiting, buff, res, before>>

Sectors == 0 .. capacity_sectors - 1
NoTransfer == [type |-> "NONE", sector |-> 0, count |-> 0]
Empty == CHOOSE c \in Contents : TRUE

\* The sector the loop is at.
Sector == transfer.sector + moved

-----------------------------------------------------------------------------
\* FatFs calls disk_read or disk_write, with a buffer of its own.
Call(type, sector, count) ==
  /\ transfer = NoTransfer
  /\ transfer' = [type |-> type, sector |-> sector, count |-> count]
  /\ buff' \in [1 .. count -> Contents]
  /\ moved' = 0
  /\ before' = storage
  /\ res' = "RES_OK"
  /\ UNCHANGED <<diskq, request, storage, waiting>>

\* The loop of disk_read or disk_write has a sector to go to.
AtSector == transfer # NoTransfer /\ ~waiting /\ moved < transfer.count /\ res = "RES_OK"

\* read_sector, write_sector and do_sector_request, up to where the driver waits.
Request ==
  /\ AtSector
  /\ Sector < capacity_sectors
  /\ request' = [request EXCEPT !.type = transfer.type, !.sector = Sector,
                   !.data = IF transfer.type = "WRITE" THEN buff[moved + 1] ELSE @]
  /\ diskq' = Submit(ChainFrom(diskq, 0,
                <<Out("header"), [buf |-> "data", writable |-> transfer.type = "READ"],
                  In("status")>>), 0)
  /\ waiting' = TRUE
  /\ UNCHANGED <<storage, transfer, moved, buff, res, before>>

OutOfBounds ==
  /\ AtSector
  /\ Sector >= capacity_sectors
  /\ res' = "RES_ERROR"
  /\ UNCHANGED <<diskq, request, storage, transfer, moved, waiting, buff, before>>

\* The device works on the request; what it does to a sector it fails to write is its
\* own affair.
DiskRuns ==
  /\ has_avail(diskq)
  /\ LET bufs == ChainBufs(diskq, FirstAvail(diskq))
     IN /\ Len(bufs) = 3 /\ bufs[1].buf = "header" /\ bufs[3].writable
        /\ \/ /\ request.type = "READ" /\ bufs[2].writable
              /\ request' = [request EXCEPT !.data = storage[request.sector], !.status = 0]
              /\ UNCHANGED storage
           \/ /\ request.type = "WRITE" /\ ~bufs[2].writable
              /\ storage' = [storage EXCEPT ![request.sector] = request.data]
              /\ request' = [request EXCEPT !.status = 0]
           \/ /\ request' = [request EXCEPT !.status = 1]
              /\ \/ UNCHANGED storage
                 \/ request.type = "WRITE"
                    /\ storage' = [storage EXCEPT ![request.sector] = request.data]
  /\ diskq' = DeviceUses(diskq)
  /\ UNCHANGED <<transfer, moved, waiting, buff, res, before>>

\* The wait is over: the sector is done, or the whole transfer has failed.
Complete ==
  /\ waiting
  /\ has_used(diskq)
  /\ diskq' = GetUsed(diskq)
  /\ waiting' = FALSE
  /\ IF request.status = 0
     THEN /\ buff' = IF transfer.type = "READ" THEN [buff EXCEPT ![moved + 1] = request.data]
                                              ELSE buff
          /\ moved' = moved + 1
          /\ UNCHANGED res
     ELSE /\ res' = "RES_ERROR"
          /\ UNCHANGED <<buff, moved>>
  /\ UNCHANGED <<request, storage, transfer, before>>

Over == transfer # NoTransfer /\ ~waiting /\ (moved = transfer.count \/ res = "RES_ERROR")

Return ==
  /\ Over
  /\ transfer' = NoTransfer
  /\ UNCHANGED <<diskq, request, storage, moved, waiting, buff, res, before>>

\* VirtioDisk::create: pages come zeroed.
DiskInit ==
  /\ diskq = EmptyQueue
  /\ request = [type |-> "READ", sector |-> 0, data |-> Empty, status |-> 0]
  /\ storage \in [Sectors -> Contents]
  /\ transfer = NoTransfer
  /\ moved = 0
  /\ waiting = FALSE
  /\ buff = <<>>
  /\ res = "RES_OK"
  /\ before = storage

DiskNext ==
  \/ \E type \in {"READ", "WRITE"}, sector \in 0 .. capacity_sectors, count \in Counts :
       Call(type, sector, count)
  \/ Request
  \/ OutOfBounds
  \/ DiskRuns
  \/ Complete
  \/ Return

DiskSpec == DiskInit /\ [][DiskNext]_diskVars

-----------------------------------------------------------------------------
\* A transfer that returns RES_OK has moved every one of its sectors and touched no
\* other; one that returns RES_ERROR has moved a prefix, and of a write the sector it
\* failed at may be new too.  One request is under way at most, so that the request
\* buffer is never the device's when the driver fills it (disk_read, disk_write,
\* do_sector_request).
TransfersAreWhole ==
  LET stored == [s \in Sectors |->
        IF transfer.type = "WRITE" /\ s - transfer.sector \in 0 .. moved - 1
        THEN buff[s - transfer.sector + 1] ELSE before[s]]
  IN /\ QueueSound(diskq)
     /\ ~waiting => WithDevice(diskq) \cup GivenBack(diskq) = {}
     /\ Over =>
          /\ res = "RES_OK" => moved = transfer.count
          /\ \A s \in Sectors : storage[s] # stored[s] => res = "RES_ERROR" /\ s = Sector
          /\ transfer.type = "READ" =>
               \A i \in 1 .. moved : buff[i] = storage[transfer.sector + i - 1]
=============================================================================
