----------------------------- MODULE CdTransfers -----------------------------
(***************************************************************************)
(* Why every read is served whole and resumed where it stopped: what the   *)
(* counters of a transfer, its position, its destination and the memory    *)
(* say about the request at the read index.                                *)
(***************************************************************************)
EXTENDS CdRoles, CdRefinement

(***************************************************************************)
(* The conditions of the theorems: those of CdRoles; every read has        *)
(* somewhere to go; and where an interrupt may land between the two looks  *)
(* of cdrom_queue_command no read has a callback, as the second look       *)
(* forgets the callback of a transfer that has begun in between.           *)
(***************************************************************************)
ReadsInTurn ==
    /\ DataInTurn
    /\ \A req \in Offered : req.command = "ReadN" =>
         /\ SinkOf(req) # NULL
         /\ "checking" \in Windows => req.callback = NULL

-----------------------------------------------------------------------------

(* What the ring may hold: reads of something, to somewhere. *)
Readable(m) ==
    \A i \in Slots : m.items[i].command = "ReadN" =>
        /\ Extent[m.items[i].resource].size # 0
        /\ SinkOf(m.items[i]) # NULL
        /\ "checking" \in Windows => m.items[i].callback = NULL

HeadExtent(m) == Extent[HeadItem(m).resource]

(* Sectors of the request under way that are in their sink. *)
Moved(m) == m.total_data - m.read_remaining

(* The counters and the position belong to the read at the read index. *)
Counted(m) ==
    /\ ~IsEmpty(m) /\ HeadItem(m).command = "ReadN"
    /\ m.transfer_callback = HeadItem(m).callback
    /\ m.total_data = HeadExtent(m).size
    /\ m.read_remaining \in 1..m.total_data
    /\ m.current_location = HeadExtent(m).loc + Moved(m)

(* What has been moved is where it belongs. *)
Filled(m) ==
    \A o \in 0..Moved(m) - 1 : m.memory[SinkOf(HeadItem(m))][o] = HeadExtent(m).loc + o

(* A transfer with a callback, from its dispatch to its end, interrupted or not. *)
Streaming(m) == m.transfer_callback # NULL => Counted(m) /\ Filled(m)

(* A transfer that takes sectors now; a direct one knows the next address. *)
Listening(m) ==
    m.ready_callback = "handle_ready_intr" =>
        /\ Counted(m) /\ Filled(m)
        /\ m.transfer_callback = NULL =>
             m.write_ptr = [buffer |-> HeadItem(m).dst, offset |-> Moved(m)]

(* Only a transfer with a callback is to be resumed. *)
Resumed(m) == m.playback_state => m.transfer_callback # NULL

(* A seek that is answered retires the entry it was sent for. *)
Seeking(m) == m.current_command = "SeekL" => HeadItem(m).command = "SeekL"

Transfers(m) ==
    /\ Readable(m) /\ Streaming(m) /\ Listening(m) /\ Resumed(m) /\ Seeking(m)
    /\ m.trap = {}

(* The second look of cdrom_queue_command finds what the first one saw. *)
Unhurried ==
    fg.at = "checking" /\ "checking" \notin Windows =>
        fg.open = FALSE /\ cd.waiting = "None" /\ cd.current_command = "None"

(***************************************************************************)
(* A transfer that goes on or will be resumed is the read at the read      *)
(* index, its counters, its position and its destination agree, and what   *)
(* it has moved is in its sink; no handler has met a null pointer.         *)
(***************************************************************************)
TransferInv == Transfers(cd) /\ Unhurried
=============================================================================
