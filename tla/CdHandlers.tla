----------------------------- MODULE CdHandlers -----------------------------
(***************************************************************************)
(* The CD-ROM command core of src/src/main/cdrom.c as operators on one     *)
(* record: struct CdSystem together with the two libcd callback slots, the *)
(* drive they talk to and the memory the sectors land in.  Every operator  *)
(* is one C function: it takes the record before the call and returns the  *)
(* record after it.  CdSystem.tla turns them into actions.                 *)
(*                                                                         *)
(* Sizes and offsets count sectors (the code compares bytes with 2048),    *)
(* disc positions are logical block numbers, and the frame time stamps are *)
(* left to the actions.  The status bits COMMAND_ACTIVE and                *)
(* SUPPRESS_IDLE_POLL are not kept: nothing in the program reads the one   *)
(* or sets the other.                                                      *)
(*                                                                         *)
(* An operator said to be a slip of another is not part of the model: it   *)
(* is the mistake a programmer could have made there, and stands beside    *)
(* the right one to show which property tells the two apart.               *)
(***************************************************************************)
EXTENDS Integers, FiniteSets, FiniteSetsExt

CONSTANTS
    Resources,      \* resource table indices
    Extent,         \* Extent[r] = [loc |-> first sector, size |-> sectors]
    Buffers,        \* destination addresses callers pass to cdrom_queue_read
    StreamCallback, \* cdrom_handle_stream_data
    XaCallback,     \* the movie player's cd_sector_callback
    NULL,           \* the null pointer
    QueueSize,      \* CD_COMMAND_QUEUE_SIZE
    SectorRetryLimit,    \* CD_RECOVERY_SECTOR_RETRY_LIMIT
    IdleStatusRetryLimit,\* CD_IDLE_STATUS_RETRY_LIMIT
    DiscReadyRetryLimit, \* CD_DISC_READY_RETRY_LIMIT
    LastPosition    \* last sector of the disc

ASSUME QueueAssumption == QueueSize \in Nat /\ QueueSize >= 2
ASSUME LimitAssumption ==
    SectorRetryLimit \in Nat /\ IdleStatusRetryLimit \in Nat /\ DiscReadyRetryLimit \in Nat
ASSUME DiscAssumption ==
    /\ Resources # {}
    /\ LastPosition \in Nat
    /\ Extent \in [Resources -> [loc : 0..LastPosition, size : Nat]]
    /\ \A r \in Resources : Extent[r].loc + Extent[r].size <= LastPosition + 1
ASSUME PointerAssumption ==
    /\ NULL \notin Buffers \cup {StreamCallback, XaCallback}
    /\ StreamCallback \notin Buffers \cup {XaCallback}
    /\ XaCallback \notin Buffers

Callbacks == {StreamCallback, XaCallback}
Sinks == Buffers \cup Callbacks
Positions == Nat
NoPosition == LastPosition + 1
Offsets == 0..LastPosition
ValidationLocation == 0     \* g_cd_disc_validation_location

Slots == 0..QueueSize - 1

(***************************************************************************)
(* init_command: its phases, and the retry flag 0x80 as a separate field.  *)
(***************************************************************************)
PAUSE == 1
AUDIO_PAUSE == 2
RESTORE_MODE == 3
STEP_SET_FILTER == 16
STEP_DEMUTE == 17
STEP_PAUSE == 18
STEP_COMPLETE == 19
RECOVERY_SET_MODE == 32
RECOVERY_READ_DISC_ID == 33
RECOVERY_RETRY_READ == 34
RECOVERY_COMPLETE == 35
InitCommands == {0} \cup 1..3 \cup 16..19 \cup 32..35

(***************************************************************************)
(* init_state: automatic recovery (CdRecoveryState) and explicit           *)
(* reconfiguration (CdReconfigureState) share the byte and its values.     *)
(***************************************************************************)
IDLE == 0
POLL_STATUS == 1
CHECK_DISC == 2
WAIT_FOR_DISC == 3
WAIT_FOR_DRIVE == 4
CHECK_DISC_TYPE == 5
SET_MODE == 6
READ_DISC_ID == 7
WAIT_FOR_READ == 8
ERROR_PAUSE == 32
RETRY_READ == 33
RECONF_FLUSH == 0
RECONF_SET_MODE == 1
RECONF_SET_FILTER == 2
RECONF_WAIT == 3
InitStates == 0..8 \cup {32, 33}

Commands == {"None", "Nop", "SeekL", "ReadN", "ReadS", "Pause", "Setmode", "Setfilter", "Demute"}
Request == [command : Commands, resource : Resources, dst : Buffers \cup {NULL},
            callback : Callbacks \cup {NULL}]
BlankItem == [command |-> "None", resource |-> CHOOSE r \in Resources : TRUE,
              dst |-> NULL, callback |-> NULL]
ErrorFlags == {"SYNC_ERROR", "INVALID_DISC", "NO_DISC"}
RecoveryFlags == ErrorFlags \cup {"RECOVERY_PENDING"}
Flags == RecoveryFlags \cup {"QUEUE_LOCK"}

(***************************************************************************)
(* The machine.  issued is the command the drive still has to answer and   *)
(* waiting the one that CdControlF holds back until it has; head is the    *)
(* next sector to come while the drive is reading, sector the one in the   *)
(* controller's buffer, filtered whether Setfilter was carried out since   *)
(* the last CdFlush; trap collects the null pointers gone through.         *)
(***************************************************************************)
MachineType ==
    [status_flags : SUBSET Flags,
     data_ready_pending : BOOLEAN,
     retry_exhausted : BOOLEAN,
     audio_enabled : BOOLEAN,
     playback_state : BOOLEAN,
     sync_complete : BOOLEAN,
     init_state : InitStates,
     current_command : Commands,
     init_command : InitCommands,
     init_retry : BOOLEAN,
     retry_count : 0..SectorRetryLimit,
     retry_counter : Nat,
     last_request : Request \cup {NULL},
     read_remaining : Nat,
     total_data : Nat,
     write_ptr : [buffer : Buffers \cup {NULL}, offset : Nat],
     transfer_callback : Callbacks \cup {NULL},
     queue_read_index : Slots,
     queue_write_index : Slots,
     items : [Slots -> Request],
     current_location : Positions,
     sync_callback : {"none", "complete_command", "handle_recovery_sync"},
     ready_callback : {"none", "handle_ready_intr", "verify_disc"},
     issued : Commands,
     issued_location : Positions,
     waiting : Commands,
     waiting_location : Positions,
     reading : BOOLEAN,
     head : Positions,
     filtered : BOOLEAN,
     sector : Positions,
     memory : [Sinks -> [Offsets -> Positions]],
     trap : SUBSET {"null_destination", "null_entry", "null_callback"}]

(***************************************************************************)
(* cdrom_init: the state the program starts the queue in.                  *)
(***************************************************************************)
InitialMachine ==
    [status_flags |-> {}, data_ready_pending |-> FALSE, retry_exhausted |-> FALSE,
     audio_enabled |-> FALSE, playback_state |-> FALSE, sync_complete |-> FALSE,
     init_state |-> IDLE, current_command |-> "None", init_command |-> 0,
     init_retry |-> FALSE, retry_count |-> 0, retry_counter |-> 0,
     last_request |-> NULL, read_remaining |-> 0, total_data |-> 0,
     write_ptr |-> [buffer |-> NULL, offset |-> 0], transfer_callback |-> NULL,
     queue_read_index |-> 0, queue_write_index |-> 0,
     items |-> [i \in Slots |-> BlankItem], current_location |-> 0,
     sync_callback |-> "none", ready_callback |-> "none",
     issued |-> "None", issued_location |-> 0, waiting |-> "None", waiting_location |-> 0,
     reading |-> FALSE, head |-> 0, filtered |-> FALSE, sector |-> NoPosition,
     memory |-> [s \in Sinks |-> [o \in Offsets |-> NoPosition]],
     trap |-> {}]

-----------------------------------------------------------------------------
(* The queue ring. *)

Next1(i) == (i + 1) % QueueSize
PendingCount(m) == (m.queue_write_index - m.queue_read_index) % QueueSize
IsEmpty(m) == m.queue_read_index = m.queue_write_index
(* Slip of IsFull: the ring is never found full. *)
NeverFull(m) == FALSE

IsFull(m) == m.queue_read_index = Next1(m.queue_write_index)
HeadItem(m) == m.items[m.queue_read_index]
IsBusy(m) == m.current_command # "None" \/ m.init_command # 0 \/ m.init_retry
HasFlag(m, f) == m.status_flags \cap f # {}

(* How far the last pending entry is behind the read index. *)
LastPending(m) == (m.queue_write_index - m.queue_read_index - 1) % QueueSize

(* The entry at the read index is done with. *)
Retire(m) == [m EXCEPT !.queue_read_index = Next1(@),
                       !.playback_state = FALSE,
                       !.transfer_callback = NULL]

(* Slip of Resumable: a direct transfer is resumed as well. *)
AlwaysResumable(m) == TRUE

(* Only a transfer with a callback goes on where it was interrupted. *)
Resumable(m) == m.transfer_callback # NULL

(* A table entry with a zero location or size is no resource. *)
IsResource(r) == Extent[r].loc # 0 /\ Extent[r].size # 0

SinkOf(item) == IF item.callback # NULL THEN item.callback ELSE item.dst

-----------------------------------------------------------------------------
(* libcd, as the code uses it. *)

(* Slip of Disarm: the sync callback is left in place. *)
DisarmReady(m) == [m EXCEPT !.ready_callback = "none"]

(* CdSyncCallback(NULL), CdReadyCallback(NULL) *)
Disarm(m) == [m EXCEPT !.sync_callback = "none", !.ready_callback = "none"]

(* The drive carries out the command it was given. *)
Executed(m) ==
    [m EXCEPT !.issued = "None",
              !.reading = IF m.issued \in {"ReadN", "ReadS"} THEN TRUE
                          ELSE m.issued \notin {"Pause", "SeekL"} /\ @,
              !.head = IF m.issued \in {"ReadN", "ReadS"} THEN m.issued_location ELSE @,
              !.filtered = @ \/ m.issued = "Setfilter"]

(***************************************************************************)
(* CdControlF: hand the drive a command and return.  If the one before is  *)
(* unanswered, libcd first waits for its answer and passes it to the sync  *)
(* callback; SendWaiting of CdSystem ends that wait.                       *)
(***************************************************************************)
CdControlF(m, command, location) ==
    IF m.issued = "None"
    THEN [m EXCEPT !.issued = command, !.issued_location = location]
    ELSE [m EXCEPT !.waiting = command, !.waiting_location = location]

(***************************************************************************)
(* CdControlB(CdlPause) in a loop until it succeeds: on return the drive   *)
(* has stopped reading and owes no answer.                                 *)
(***************************************************************************)
BlockingPause(m) ==
    [m EXCEPT !.issued = "None", !.reading = FALSE]

(* CdGetSector of the payload: copy the sector the controller holds. *)
StoreSector(m, sink, offset) ==
    IF sink = NULL THEN [m EXCEPT !.trap = @ \cup {"null_destination"}]
    ELSE [m EXCEPT !.memory[sink][offset] = m.sector]

-----------------------------------------------------------------------------
(* Command dispatch: cdrom_run_command. *)

(***************************************************************************)
(* A read of the entry at the read index.  With playback_state set the     *)
(* interrupted transfer goes on from current_location; a direct transfer   *)
(* that has not moved starts over, although its table entry was not looked *)
(* up.  The payload of the previous request is stored by ProcessSector, as *)
(* sending a command does not disturb the sector buffer; what the mode     *)
(* still decides is who installs the ready callback.                       *)
(***************************************************************************)
DispatchRead(m, command, mode) ==
    LET item == HeadItem(m)
        extent == Extent[item.resource]
        resume == m.playback_state /\ ~(item.callback = NULL
                     /\ m.write_ptr = [buffer |-> item.dst, offset |-> 0])
        size == IF m.playback_state THEN 0 ELSE extent.size
        located == [m EXCEPT !.current_location = IF m.playback_state THEN @ ELSE extent.loc,
                             !.current_command = command,
                             !.playback_state = FALSE]
        loaded == IF resume THEN located
                  ELSE [located EXCEPT
                          !.total_data = size,
                          !.read_remaining = size,
                          !.write_ptr = [buffer |-> item.dst, offset |-> 0],
                          !.transfer_callback = item.callback,
                          !.trap = @ \cup (IF m.playback_state THEN {"null_entry"} ELSE {})]
        armed == IF mode # "ASYNC" THEN loaded
                 ELSE [loaded EXCEPT !.data_ready_pending = FALSE,
                                     !.ready_callback = "handle_ready_intr"]
    IN CdControlF(armed, command, armed.current_location)

DispatchSeek(m, mode) ==
    LET location == Extent[HeadItem(m).resource].loc
    IN CdControlF([m EXCEPT !.transfer_callback = NULL,
                            !.playback_state = FALSE,
                            !.current_location = location,
                            !.current_command = "SeekL",
                            !.ready_callback = IF mode = "COMMAND_THEN_READ" THEN "none" ELSE @],
                  "SeekL", location)

DispatchOther(m, command, mode) ==
    CdControlF([m EXCEPT !.current_command = command,
                         !.ready_callback = IF mode = "COMMAND_THEN_READ" THEN "none" ELSE @],
               command, 0)

(* Skip the seeks another pending entry supersedes, then dispatch. *)
RunCommand(m, command, mode) ==
    LET last == LastPending(m)
        Ahead(k) == (m.queue_read_index + k) % QueueSize
        CommandAt(k) == IF k = 0 THEN command ELSE m.items[Ahead(k)].command
        skip == Min({k \in 0..last : k = last \/ CommandAt(k) # "SeekL"})
        skipped == [m EXCEPT !.queue_read_index = Ahead(skip)]
    IN CASE CommandAt(skip) \in {"ReadN", "ReadS"} -> DispatchRead(skipped, CommandAt(skip), mode)
         [] CommandAt(skip) = "SeekL" -> DispatchSeek(skipped, mode)
         [] OTHER -> DispatchOther(skipped, CommandAt(skip), mode)

-----------------------------------------------------------------------------
(* cdrom_handle_sync_error: forget the command, keep the queue. *)

HandleSyncError(m) ==
    [Disarm(m) EXCEPT
              !.init_state = IDLE,
              !.status_flags = @ \cup {"SYNC_ERROR"},
              !.current_command = "None",
              !.init_command = 0,
              !.init_retry = FALSE,
              !.retry_count = 0,
              !.retry_counter = 0]

-----------------------------------------------------------------------------
(* The sync callback of normal operation: cdrom_complete_command. *)

GoIdle(m) ==
    [m EXCEPT !.sync_callback = "none",
              !.playback_state = FALSE,
              !.transfer_callback = NULL,
              !.current_command = "None",
              !.retry_counter = 0]

(* A movie is streamed with audio_enabled set. *)
AsMovie(m, command) == [m EXCEPT !.audio_enabled = @ \/ command = "ReadS"]

(* ReadS goes out as ReadN. *)
RunQueued(m, command) ==
    RunCommand(AsMovie(m, command), IF command = "ReadS" THEN "ReadN" ELSE command, "ASYNC")

(***************************************************************************)
(* The entry at the read index is dispatched without asking whether the    *)
(* queue is empty; only a run of Nop entries is bounded by the write index.*)
(***************************************************************************)
DispatchHead(m) ==
    LET At(k) == (m.queue_read_index + k) % QueueSize
        IsLast(k) == k = PendingCount(m)
        k0 == Min({k \in 0..PendingCount(m) : IsLast(k) \/ m.items[At(k)].command # "Nop"})
        moved == [m EXCEPT !.queue_read_index = At(k0)]
    IN IF HeadItem(m).command # "Nop" THEN RunQueued(m, HeadItem(m).command)
       ELSE IF IsLast(k0) THEN GoIdle(moved)
       ELSE RunQueued(moved, HeadItem(moved).command)

RetireSeek(m) ==
    LET retired == Retire(m)
    IN IF IsEmpty(retired) THEN [GoIdle(retired) EXCEPT !.init_command = 0, !.init_retry = FALSE]
       ELSE RunQueued(retired, HeadItem(retired).command)

(* Slip of ShellReported: the status bit is ignored. *)
NothingReported(m, shellOpen) == FALSE

(* The Nop before a request reports that the shell was opened. *)
ShellReported(m, shellOpen) == m.current_command = "Nop" /\ shellOpen

CompleteCommand(m, complete, shellOpen) ==
    LET seen == [m EXCEPT !.sync_complete = TRUE]
    IN CASE ShellReported(m, shellOpen) -> HandleSyncError(seen)
         [] m.current_command = "Nop" /\ ~ShellReported(m, shellOpen) /\ ~complete ->
              RunCommand(seen, HeadItem(m).command, "ASYNC")
         [] m.current_command # "Nop" /\ ~complete ->
              CdControlF([seen EXCEPT !.current_command = "Nop"], "Nop", 0)
         [] complete /\ m.current_command \in {"ReadN", "ReadS"} -> seen
         [] complete /\ m.current_command = "SeekL" -> RetireSeek(seen)
         [] OTHER -> DispatchHead(seen)

-----------------------------------------------------------------------------
(***************************************************************************)
(* The sync callback of pauses, reconfiguration and recovery:              *)
(* cdrom_handle_recovery_sync.                                             *)
(***************************************************************************)

(* Slip of EndStep: the sync callback is left in place. *)
EndStepArmed(m) == [m EXCEPT !.init_command = 0]

(* init_command is done and nothing more is expected of the sync slot. *)
EndStep(m) == [m EXCEPT !.init_command = 0, !.sync_callback = "none"]

(* The pause after the last transfer is over: start what was queued meanwhile. *)
AfterPause(m) ==
    IF IsEmpty(m) THEN EndStep(m)
    ELSE RunCommand([AsMovie(m, HeadItem(m).command) EXCEPT
                        !.init_command = 0,
                        !.sync_callback = "complete_command",
                        !.playback_state = FALSE,
                        !.transfer_callback = NULL],
                    HeadItem(m).command, "ASYNC")

(* Slip of ClearErrors: the disc is still taken for missing. *)
ClearSyncError(m) == [m EXCEPT !.status_flags = @ \ {"SYNC_ERROR"}]

ClearErrors(m) == [m EXCEPT !.status_flags = @ \ ErrorFlags]

(* Recovery succeeded: clear the errors and restart the queue with a Nop. *)
FinishRecovery(m) ==
    LET clean == [ClearErrors(m) EXCEPT !.init_command = 0,
                                        !.init_state = IDLE,
                                        !.retry_counter = 0]
    IN IF IsEmpty(m) THEN [clean EXCEPT !.sync_callback = "none"]
       ELSE CdControlF([clean EXCEPT !.current_command = "Nop",
                                     !.sync_callback = "complete_command"], "Nop", 0)

(* The next step of the sequence goes out. *)
NextStep(m, command) == CdControlF([m EXCEPT !.init_command = @ + 1], command, 0)

(* The rest is up to the next poll. *)
EndStepAt(m, state) == [EndStep(m) EXCEPT !.init_state = state]

FinishReconfiguration(m) ==
    [EndStepAt(m, IDLE) EXCEPT !.status_flags = @ \ {"RECOVERY_PENDING"}]

StepDone(m) ==
    LET step == m.init_command
    IN CASE step \in {PAUSE, RESTORE_MODE} -> AfterPause(m)
         [] step = AUDIO_PAUSE -> NextStep(m, "Setmode")
         [] step = STEP_SET_FILTER -> EndStepAt(m, RECONF_SET_FILTER)
         [] step = STEP_DEMUTE -> NextStep(m, "Demute")
         [] step = STEP_PAUSE -> NextStep(m, "Pause")
         [] step = STEP_COMPLETE -> FinishReconfiguration(m)
         [] step = RECOVERY_READ_DISC_ID -> EndStep(m)
         [] step \in {RECOVERY_SET_MODE, RECOVERY_RETRY_READ} -> EndStepAt(m, READ_DISC_ID)
         [] step = RECOVERY_COMPLETE -> FinishRecovery(m)
         [] OTHER -> m

(* The Nop that followed a failed step failed too: go one step back. *)
StepFailedTwice(m) ==
    LET step == m.init_command
    IN CASE step = RESTORE_MODE -> CdControlF(m, "Setmode", 0)
         [] step = STEP_SET_FILTER -> EndStepAt(m, RECONF_SET_MODE)
         [] step = STEP_DEMUTE -> CdControlF(m, "Setfilter", 0)
         [] step = STEP_PAUSE -> CdControlF(m, "Demute", 0)
         [] step \in {PAUSE, AUDIO_PAUSE, STEP_COMPLETE} -> CdControlF(m, "Pause", 0)
         [] step = RECOVERY_READ_DISC_ID -> CdControlF(m, "ReadN", ValidationLocation)
         [] step = RECOVERY_RETRY_READ -> EndStepAt(m, READ_DISC_ID)
         [] step \in {RECOVERY_SET_MODE, RECOVERY_COMPLETE} -> EndStepAt(m, SET_MODE)
         [] OTHER -> m

(* rejected: the last status poll reported an invalid command. *)
HandleRecoverySync(m, complete, shellOpen, rejected) ==
    LET seen == [m EXCEPT !.sync_complete = TRUE]
        checked == IF m.init_command = RECOVERY_READ_DISC_ID /\ rejected
                   THEN [Disarm(seen) EXCEPT !.init_state = ERROR_PAUSE,
                                             !.init_command = 0,
                                             !.init_retry = FALSE,
                                             !.status_flags = @ \ {"NO_DISC"}]
                   ELSE seen
        lidOpened == m.init_retry /\ "RECOVERY_PENDING" \notin m.status_flags /\ shellOpen
    IN IF lidOpened THEN HandleSyncError(seen)
       ELSE IF complete THEN StepDone([checked EXCEPT !.init_retry = FALSE])
       ELSE IF checked.init_retry THEN StepFailedTwice([checked EXCEPT !.init_retry = FALSE])
       ELSE CdControlF([checked EXCEPT !.init_retry = TRUE], "Nop", 0)

-----------------------------------------------------------------------------
(* Sector delivery: cdrom_process_sector and the ready callback. *)

(* Slip of PauseDrive: the ready callback is left in place. *)
PauseArmed(m, step) ==
    CdControlF([m EXCEPT !.init_command = step,
                         !.init_retry = FALSE,
                         !.sync_callback = "handle_recovery_sync",
                         !.current_command = "None",
                         !.retry_counter = 0], "Pause", 0)

(* The transfer is over: pause the drive. *)
PauseDrive(m, step) ==
    CdControlF([m EXCEPT !.init_command = step,
                         !.init_retry = FALSE,
                         !.sync_callback = "handle_recovery_sync",
                         !.ready_callback = "none",
                         !.current_command = "None",
                         !.retry_counter = 0], "Pause", 0)

(***************************************************************************)
(* The last sector of a data request: retire the entry, then chain the     *)
(* next one or pause the drive.                                            *)
(***************************************************************************)
RetireRead(m, deferred) ==
    LET retired == Retire(m)
    IN IF IsEmpty(retired) THEN PauseDrive(retired, PAUSE)
       ELSE RunCommand(retired, HeadItem(retired).command,
                       IF deferred THEN "READ_THEN_COMMAND" ELSE "COMMAND_THEN_READ")

(* Slip of MoreToCome: the boundary is off by one. *)
OneTooMany(m) == m.read_remaining >= 1

(* The sector is not the last of its request. *)
MoreToCome(m) == m.read_remaining >= 2

(* An ordinary sector; accept is whether a transfer callback takes it. *)
ProcessDataSector(m, deferred, accept) ==
    LET direct == m.transfer_callback = NULL
        stored == IF direct THEN StoreSector(m, m.write_ptr.buffer, m.write_ptr.offset)
                  ELSE StoreSector(m, m.transfer_callback, m.total_data - m.read_remaining)
    IN IF ~direct /\ ~accept THEN CdControlF(m, m.current_command, m.current_location)
       ELSE IF MoreToCome(m)
       THEN [stored EXCEPT !.current_location = @ + 1,
                           !.read_remaining = @ - 1,
                           !.write_ptr.offset = IF direct THEN @ + 1 ELSE @]
       ELSE RetireRead(stored, deferred)

(* The XA callback refuses a sector to end the movie. *)
EndXa(m) == PauseDrive([Retire(m) EXCEPT !.audio_enabled = FALSE], AUDIO_PAUSE)

ProcessXaSector(m, accept) ==
    IF m.sector # m.current_location THEN CdControlF(m, m.current_command, m.current_location)
    ELSE IF m.transfer_callback = NULL THEN [m EXCEPT !.trap = @ \cup {"null_callback"}]
    ELSE IF accept THEN [m EXCEPT !.current_location = @ + 1]
    ELSE EndXa(m)

ProcessSector(m, deferred, accept) ==
    LET fresh == [m EXCEPT !.retry_count = 0,
                           !.retry_exhausted = FALSE,
                           !.data_ready_pending = FALSE]
    IN IF m.audio_enabled THEN ProcessXaSector(fresh, accept)
       ELSE ProcessDataSector(fresh, deferred, accept)

(* The retry budget is spent: fall back to a Nop, remembering how to resume. *)
GiveUpSector(m, resume) ==
    CdControlF([m EXCEPT !.retry_exhausted = TRUE,
                         !.retry_count = 0,
                         !.playback_state = resume,
                         !.current_command = "Nop"], "Nop", 0)

(* Slip of GivesUp: one retry more than the limit. *)
GivesUpLate(m) == m.retry_count > SectorRetryLimit

(* The retries of the sector are used up. *)
GivesUp(m) == m.retry_count >= SectorRetryLimit

RetrySector(m) ==
    IF GivesUp(m) THEN GiveUpSector(m, Resumable(m))
    ELSE CdControlF([m EXCEPT !.retry_count = @ + 1], m.current_command, m.current_location)

(***************************************************************************)
(* cdrom_handle_ready_intr.  dataReady tells a sector from a drive error;  *)
(* decoding is the movie player's mdec_busy.  defer_data_ready stays FALSE:*)
(* nothing calls cdrom_defer_data_ready.                                   *)
(***************************************************************************)
HandleReadyData(m, dataReady, accept) ==
    LET usable == dataReady /\ ~m.data_ready_pending /\ m.sector = m.current_location
    IN IF usable THEN ProcessSector(m, FALSE, accept)
       ELSE IF GivesUp(m) THEN [RetrySector(m) EXCEPT !.ready_callback = "none"]
       ELSE RetrySector(m)

HandleReadyXa(m, dataReady, accept, decoding) ==
    IF dataReady
    THEN IF decoding THEN [m EXCEPT !.data_ready_pending = TRUE]
         ELSE ProcessSector(m, FALSE, accept)
    ELSE IF GivesUp(m) THEN [GiveUpSector(m, TRUE) EXCEPT !.ready_callback = "none"]
    ELSE [m EXCEPT !.retry_count = @ + 1]

HandleReadyIntr(m, dataReady, accept, decoding) ==
    LET seen == [m EXCEPT !.sync_complete = TRUE]
    IN IF m.audio_enabled THEN HandleReadyXa(seen, dataReady, accept, decoding)
       ELSE HandleReadyData(seen, dataReady, accept)

(* cdrom_verify_recovery: serve a sector the ready callback put off. *)
VerifyRecovery(m, accept) ==
    LET served == IF m.audio_enabled \/ m.sector = m.current_location
                  THEN ProcessSector(m, TRUE, accept)
                  ELSE RetrySector(m)
    IN IF ~m.data_ready_pending THEN m
       ELSE [served EXCEPT !.data_ready_pending = FALSE]

(* cdrom_verify_disc: the validation sector decides whether this is the game disc. *)
VerifyDisc(m, dataReady, genuine) ==
    LET seen == [m EXCEPT !.sync_complete = TRUE, !.ready_callback = "none"]
        Then(step, command) ==
            CdControlF([seen EXCEPT !.init_command = step,
                                    !.init_retry = FALSE,
                                    !.sync_callback = "handle_recovery_sync"], command, 0)
    IN IF ~dataReady \/ m.sector # ValidationLocation THEN Then(RECOVERY_RETRY_READ, "Pause")
       ELSE IF genuine THEN Then(RECOVERY_COMPLETE, "Setmode")
       ELSE [seen EXCEPT !.init_state = ERROR_PAUSE, !.status_flags = @ \ {"NO_DISC"}]
=============================================================================
