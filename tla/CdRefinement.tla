---------------------------- MODULE CdRefinement ----------------------------
(***************************************************************************)
(* CdSystem implements CdService: the ring between the two indices is the  *)
(* pending sequence, the memory the sinks.                                 *)
(***************************************************************************)
EXTENDS CdSystem

Pending ==
    [i \in 1..PendingCount(cd) |-> cd.items[(cd.queue_read_index + i - 1) % QueueSize]]

MovesHead(req) == req.command = "SeekL"
FillsSink(req) == req.command = "ReadN"
ImageOf(req) ==
    LET extent == Extent[req.resource]
    IN [o \in 0..extent.size - 1 |-> extent.loc + o]

Queue == INSTANCE CdService
    WITH Requests <- Request, Capacity <- QueueSize - 1,
         IsSeek <- MovesHead, IsData <- FillsSink, Sink <- SinkOf, Image <- ImageOf,
         Sectors <- 0..NoPosition,
         pending <- Pending, contents <- cd.memory

(***************************************************************************)
(* Whatever the drive, the player and the interrupts do, the queue of      *)
(* cdrom.c serves its requests first in first out, each once, and each     *)
(* read whole: retries, watchdogs, resumed transfers, recovery and the     *)
(* superseding of seeks stay invisible to the callers.                     *)
(***************************************************************************)
ServedInOrder == Queue!Spec
=============================================================================
