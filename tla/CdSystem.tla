------------------------------ MODULE CdSystem ------------------------------
(***************************************************************************)
(* The CD-ROM subsystem as a whole: the foreground calls of                *)
(* src/src/main/cdrom.c (queue_command, process_state, recover, stop,      *)
(* reset), the libcd interrupts that preempt them, and the drive.          *)
(*                                                                         *)
(* One CPU: an interrupt handler runs to its end, so it is one step.  A    *)
(* foreground call is one step up to each point where the code looks at a  *)
(* volatile field and acts on it later; fg is the point it has reached.    *)
(* Windows is the set of those points at which an interrupt may land.      *)
(*                                                                         *)
(* Frame time stamps are not counted: a poll or a watchdog may be due at   *)
(* any call, except that a watchdog which fires while an answer is still   *)
(* to come counts as a fault ("late").                                     *)
(*                                                                         *)
(* The faults, each counted when it happens:                               *)
(*   command  the drive refuses a command it could have carried out        *)
(*   poll     a blocking status request of process_state fails             *)
(*   sector   the drive reports a read error instead of a sector           *)
(*   lost     a command, its answer or a sector's interrupt goes missing   *)
(*   late     a watchdog runs while the drive still has something to say   *)
(*   overlap  a sector's interrupt overtakes the answer to a later command *)
(*   refuse   a transfer callback takes no sector now                      *)
(*   lid      the player opens the shell                                   *)
(***************************************************************************)
EXTENDS CdHandlers

CONSTANTS
    Offered,     \* the requests the game makes
    Uses,        \* the other entry points the game calls
    MaxCalls,    \* bound: requests, stops and resets in a behaviour
    FaultKinds,  \* the faults that occur in a behaviour ...
    MaxFaults,   \* ... and how many at most
    Inserted,    \* discs the player may put in
    Windows      \* foreground points at which interrupts may land

AllWindows == {"published", "checking", "observed", "watch_command", "watch_step"}

ASSUME OfferedAssumption == Offered \subseteq Request
ASSUME UsesAssumption == Uses \subseteq {"stop", "reset", "lock", "reconfigure"}
ASSUME InsertedAssumption == Inserted \subseteq {"game", "other", "rejected", "none"}
ASSUME WindowsAssumption == Windows \subseteq AllWindows

VARIABLES
    cd,         \* the machine of CdHandlers
    fg,         \* the point the foreground is at, and whether it is a window
    lid,        \* the drive's shell; "latched" is closed again, not yet reported
    disc,       \* what is in the drive
    calls,      \* requests, stops and resets so far
    faults      \* faults so far

vars == <<cd, fg, lid, disc, calls, faults>>
environment == <<lid, disc, faults>>

Points == AllWindows \cup {"idle", "starting", "blocking"}
Discs == {"game", "other", "rejected", "none"}

TypeOK ==
    /\ cd \in MachineType
    /\ fg \in [at : Points, open : BOOLEAN]
    /\ lid \in {"open", "latched", "closed"}
    /\ disc \in Discs
    /\ calls \in Nat
    /\ faults \in Nat

(* The foreground arrives at a point; open: an interrupt may land there. *)
At(point) == [at |-> point, open |-> point \in Windows]

Init ==
    /\ cd = InitialMachine
    /\ fg = At("idle")
    /\ lid = "closed"
    /\ disc = "game"
    /\ calls = 0
    /\ faults = 0

(* The shell-open bit stays set after closing until a Nop has read it. *)
ShellOpen == lid # "closed"
StatusRead == lid' = IF lid = "latched" THEN "closed" ELSE lid

(* Slip of Genuine: the validation sector is not compared. *)
AnyDisc == TRUE

(* The disc in the drive carries the game's id; the drive rejects a disc. *)
Genuine == disc = "game"
Rejected == disc = "rejected"

Faults(kinds) ==
    /\ kinds \subseteq FaultKinds
    /\ kinds # {} => faults < MaxFaults
    /\ faults' = faults + Cardinality(kinds)

Fault(kind) == Faults({kind})

(* No event is on its way that would call one of the installed callbacks. *)
Quiet ==
    /\ cd.issued = "None" /\ cd.waiting = "None"
    /\ ~cd.data_ready_pending
    /\ cd.reading /\ cd.head <= LastPosition => cd.ready_callback = "none"

(* A watchdog is due: the drive is quiet, or it answers too late. *)
TimedOut == Faults(IF Quiet THEN {} ELSE {"late"})

(* libcd passes an answer to whatever sync callback is installed. *)
SyncCallback(m, complete) ==
    CASE m.sync_callback = "complete_command" -> CompleteCommand(m, complete, ShellOpen)
      [] m.sync_callback = "handle_recovery_sync" ->
           HandleRecoverySync(m, complete, ShellOpen, Rejected)
      [] OTHER -> m

ReadyCallback(m, dataReady, accept, decoding) ==
    CASE m.ready_callback = "handle_ready_intr" -> HandleReadyIntr(m, dataReady, accept, decoding)
      [] m.ready_callback = "verify_disc" -> VerifyDisc(m, dataReady, Genuine)
      [] OTHER -> m

(* The foreground goes on, unless it waits inside CdControlF. *)
Running(point) == fg.at = point /\ cd.waiting = "None"

-----------------------------------------------------------------------------
(* cdrom_queue_command *)

SameAsLast(req) == cd.last_request = req

Enqueue(m, req) ==
    [m EXCEPT !.items[m.queue_write_index] = req,
              !.last_request = req,
              !.queue_write_index = Next1(@)]

(***************************************************************************)
(* The call up to the publication of the entry.  A locked queue, a busy    *)
(* duplicate, an empty table entry and a full ring return without one.     *)
(* A movie is only queued after cdrom_wait_queue_empty has seen the queue  *)
(* drain.                                                                  *)
(***************************************************************************)
QueueCommand(req) ==
    /\ Running("idle")
    /\ calls < MaxCalls
    /\ req.command = "ReadS" => IsEmpty(cd)
    /\ calls' = calls + 1
    /\ IF \/ "QUEUE_LOCK" \in cd.status_flags
          \/ IsBusy(cd) /\ SameAsLast(req)
          \/ ~IsResource(req.resource)
          \/ IsFull(cd)
       THEN UNCHANGED <<cd, fg>>
       ELSE cd' = Enqueue(cd, req) /\ fg' = At("published")
    /\ UNCHANGED environment

(* First look: is a command current? *)
QueueCheckCommand ==
    /\ Running("published")
    /\ fg' = At(IF cd.current_command = "None" THEN "checking" ELSE "idle")
    /\ UNCHANGED <<cd, calls, environment>>

(* Slip of NothingPending: a pause under way is not looked for. *)
NoError(m) == ~HasFlag(m, RecoveryFlags)

(* No pause and no recovery step is pending. *)
NothingPending(m) == m.init_command = 0 /\ ~m.init_retry /\ ~HasFlag(m, RecoveryFlags)

(* Second look: start the queue unless something is pending. *)
QueueCheckStep ==
    /\ Running("checking")
    /\ IF NothingPending(cd)
       THEN /\ cd' = [cd EXCEPT !.current_command = "Nop",
                                !.playback_state = FALSE,
                                !.transfer_callback = NULL,
                                !.sync_callback = "complete_command"]
            /\ fg' = At("starting")
       ELSE cd' = cd /\ fg' = At("idle")
    /\ UNCHANGED <<calls, environment>>

(* CdSync(0) waits for the drive to be through, then the Nop goes out. *)
StartNop ==
    /\ Running("starting")
    /\ cd.issued = "None"
    /\ cd' = CdControlF(cd, "Nop", 0)
    /\ fg' = At("idle")
    /\ UNCHANGED <<calls, environment>>

-----------------------------------------------------------------------------
(* cdrom_process_state without drive errors *)

Serviceable == Running("idle") /\ ~HasFlag(cd, RecoveryFlags)

(* First look: is a command current? *)
ServiceCheckCommand ==
    /\ Serviceable
    /\ cd.current_command = "None"
    /\ fg' = At("observed")
    /\ UNCHANGED <<cd, calls, environment>>

(* Slip of Collect: the flag is read and not reset. *)
Peek(m) == m

(* Read and reset the activity flag that every handler sets. *)
Collect(m) == [m EXCEPT !.sync_complete = FALSE]

Supervising ==
    \/ Serviceable /\ cd.current_command # "None"
    \/ Running("observed") /\ (cd.init_command # 0 \/ cd.init_retry)

(* The drive is at work: collect the activity flag. *)
Supervise ==
    /\ Supervising
    /\ cd' = Collect(cd)
    /\ fg' = At("idle")
    /\ UNCHANGED <<calls, environment>>

(* Without activity for 240 frames the watchdog is due. *)
WatchdogDue ==
    /\ Supervising
    /\ ~cd.sync_complete
    /\ TimedOut
    /\ fg' = At(IF cd.init_command = 0 /\ ~cd.init_retry THEN "watch_command" ELSE "watch_step")
    /\ UNCHANGED <<cd, calls, lid, disc>>

(* The watchdog puts its handler in place and asks for the drive's status. *)
WatchdogCommand ==
    /\ Running("watch_command")
    /\ fg' = At("blocking")
    /\ cd' = [cd EXCEPT !.current_command = "Nop",
                        !.playback_state = Resumable(cd),
                        !.sync_callback = "complete_command",
                        !.ready_callback = "none"]
    /\ UNCHANGED <<calls, environment>>

WatchdogStep ==
    /\ Running("watch_step")
    /\ fg' = At("blocking")
    /\ cd' = [cd EXCEPT !.sync_callback = "handle_recovery_sync", !.ready_callback = "none"]
    /\ UNCHANGED <<calls, environment>>

(***************************************************************************)
(* CdControlB(CdlNop): libcd waits for the command before it, and the      *)
(* Nop's own answer reaches the sync callback before the call ends.        *)
(***************************************************************************)
BlockingNop(m) == SyncCallback(m, TRUE)

(* while (CdControlB(CdlNop) == 0): a refused pass answers the callback    *)
(* with an error, and the loop asks again.                                 *)
WatchdogNop ==
    /\ Running("blocking")
    /\ cd.issued = "None"
    /\ \/ cd' = BlockingNop(cd) /\ fg' = At("idle") /\ UNCHANGED faults
       \/ cd' = SyncCallback(cd, FALSE) /\ fg' = At("blocking") /\ Fault("poll")
    /\ StatusRead
    /\ UNCHANGED <<calls, disc>>

Unoccupied == Running("observed") /\ cd.init_command = 0 /\ ~cd.init_retry

(* Nothing runs but something is queued: start it. *)
Restart ==
    /\ Unoccupied
    /\ ~IsEmpty(cd)
    /\ cd' = [cd EXCEPT !.current_command = "Nop",
                        !.playback_state = Resumable(cd),
                        !.sync_callback = "complete_command",
                        !.ready_callback = "none"]
    /\ fg' = At("starting")
    /\ UNCHANGED <<calls, environment>>

(* Nothing runs and nothing is queued; every 30 frames the status is polled. *)
Rest(m) == [m EXCEPT !.transfer_callback = NULL, !.playback_state = FALSE]

IdleQuiet ==
    /\ Unoccupied /\ IsEmpty(cd)
    /\ cd' = Rest(cd)
    /\ fg' = At("idle")
    /\ UNCHANGED <<calls, environment>>

IdlePoll ==
    /\ Unoccupied /\ IsEmpty(cd)
    /\ cd.issued = "None"
    /\ LET polled == BlockingNop(Rest(cd))
       IN cd' = [(IF ShellOpen THEN HandleSyncError(polled) ELSE polled)
                   EXCEPT !.sync_complete = FALSE, !.retry_counter = 0]
    /\ fg' = At("idle")
    /\ StatusRead
    /\ UNCHANGED <<calls, disc, faults>>

IdlePollFails ==
    /\ Unoccupied /\ IsEmpty(cd)
    /\ Fault("poll")
    /\ cd' = IF cd.retry_counter >= IdleStatusRetryLimit THEN HandleSyncError(Rest(cd))
             ELSE [Rest(cd) EXCEPT !.retry_counter = @ + 1]
    /\ fg' = At("idle")
    /\ UNCHANGED <<calls, lid, disc>>

-----------------------------------------------------------------------------
(***************************************************************************)
(* cdrom_process_state with a drive error: automatic recovery.  One poll   *)
(* is one step; in it CdControlB(CdlNop) asks for the status first.        *)
(***************************************************************************)

Recovering ==
    /\ Running("idle")
    /\ HasFlag(cd, ErrorFlags)
    /\ "RECOVERY_PENDING" \notin cd.status_flags

(* The first service after the error notes whether the transfer can resume. *)
EnterRecovery(m) ==
    IF m.init_state # IDLE THEN m
    ELSE [m EXCEPT !.init_state = POLL_STATUS,
                   !.playback_state = Resumable(m),
                   !.data_ready_pending = FALSE]

(* Not yet due. *)
RecoveryWait ==
    /\ Recovering
    /\ cd' = EnterRecovery(cd)
    /\ UNCHANGED <<fg, calls, environment>>

(* The shell is open or the poll failed: back to the start. *)
Abandon(m) ==
    LET quiet == IF m.init_state < SET_MODE THEN m
                 ELSE [Disarm(BlockingPause(m)) EXCEPT !.init_command = 0, !.init_retry = FALSE]
    IN [quiet EXCEPT !.init_state = POLL_STATUS,
                     !.status_flags = (@ \cup {"SYNC_ERROR"}) \ {"INVALID_DISC", "NO_DISC"}]

RecoveryAbandon ==
    /\ Recovering
    /\ cd.issued = "None"
    /\ \/ ShellOpen /\ UNCHANGED faults
       \/ ~ShellOpen /\ Fault("poll")
    /\ cd' = LET m == EnterRecovery(cd) IN Abandon(IF ShellOpen THEN BlockingNop(m) ELSE m)
    /\ StatusRead
    /\ UNCHANGED <<fg, calls, disc>>

(* The machine as the switch on init_state finds it, after a good poll. *)
Polled == BlockingNop(EnterRecovery(cd))
PollAt(state) == Recovering /\ cd.issued = "None" /\ ~ShellOpen /\ Polled.init_state = state

(* The first good poll after an error: the disc is unknown from here on. *)
FoundClosed ==
    IF Polled.init_state # POLL_STATUS THEN Polled
    ELSE [Polled EXCEPT !.status_flags = (@ \ {"SYNC_ERROR"}) \cup {"INVALID_DISC", "NO_DISC"}]

RecoveryCheckDisc(spinning) ==
    /\ \E state \in {POLL_STATUS, CHECK_DISC} : PollAt(state)
    /\ cd' = IF spinning THEN [FoundClosed EXCEPT !.init_state = WAIT_FOR_DISC, !.retry_counter = 0]
             ELSE [FoundClosed EXCEPT !.init_state = CHECK_DISC]
    /\ UNCHANGED <<fg, calls, environment>>

(* One failed pass counts twice. *)
RecoveryWaitForDisc ==
    /\ PollAt(WAIT_FOR_DISC)
    /\ \/ cd' = [Polled EXCEPT !.init_state = WAIT_FOR_DRIVE]
       \/ cd' = [Polled EXCEPT
                   !.retry_counter = @ + 2,
                   !.init_state = IF Polled.retry_counter + 1 >= DiscReadyRetryLimit
                                  THEN WAIT_FOR_DRIVE ELSE @]
    /\ UNCHANGED <<fg, calls, environment>>

(* Any answer but an open shell goes on. *)
RecoveryWaitForDrive ==
    /\ PollAt(WAIT_FOR_DRIVE)
    /\ \/ cd' = [Polled EXCEPT !.init_state = CHECK_DISC_TYPE] /\ UNCHANGED faults
       \/ cd' = [Polled EXCEPT !.init_state = POLL_STATUS] /\ Fault("poll")
    /\ UNCHANGED <<fg, calls, lid, disc>>

(* An undecided disc type leaves the state for the next poll. *)
RecoveryDiscType ==
    /\ PollAt(CHECK_DISC_TYPE)
    /\ \/ /\ cd' = IF disc = "none"
                   THEN [Polled EXCEPT !.init_state = ERROR_PAUSE,
                                       !.status_flags = @ \ {"INVALID_DISC"}]
                   ELSE [Polled EXCEPT !.init_state = SET_MODE]
          /\ UNCHANGED faults
       \/ cd' = Polled /\ Fault("poll")
    /\ UNCHANGED <<fg, calls, lid, disc>>

(* Slip of Issue: the sync callback is not installed. *)
IssueUnheard(m, ready, step, command, location) ==
    CdControlF([m EXCEPT !.ready_callback = ready, !.init_command = step, !.init_retry = FALSE],
               command, location)

(* The step is installed with its sync callback and its command goes out. *)
Issue(m, ready, step, command, location) ==
    CdControlF([m EXCEPT !.sync_callback = "handle_recovery_sync",
                         !.ready_callback = ready,
                         !.init_command = step,
                         !.init_retry = FALSE], command, location)

RecoverySetMode ==
    /\ PollAt(SET_MODE)
    /\ cd' = Issue(Polled, "none", RECOVERY_SET_MODE, "Setmode", 0)
    /\ UNCHANGED <<fg, calls, environment>>

RecoveryReadDiscId ==
    /\ PollAt(READ_DISC_ID)
    /\ cd' = Issue([Polled EXCEPT !.init_state = WAIT_FOR_READ], "verify_disc",
                   RECOVERY_READ_DISC_ID, "ReadN", ValidationLocation)
    /\ UNCHANGED <<fg, calls, environment>>

(* Any activity restarts the wait; 270 quiet frames repeat the step. *)
RecoveryWaitForRead ==
    /\ PollAt(WAIT_FOR_READ)
    /\ Polled.sync_complete
    /\ cd' = Collect(Polled)
    /\ UNCHANGED <<fg, calls, environment>>

RecoveryReadTimeout ==
    /\ PollAt(WAIT_FOR_READ)
    /\ ~Polled.sync_complete
    /\ TimedOut
    /\ LET m == [Polled EXCEPT !.sync_callback = "handle_recovery_sync"]
       IN cd' = CASE Polled.init_command = RECOVERY_RETRY_READ /\ ~Polled.init_retry ->
                       CdControlF(m, "Pause", 0)
                  [] Polled.init_command = RECOVERY_COMPLETE /\ ~Polled.init_retry ->
                       CdControlF(m, "Setmode", 0)
                  [] OTHER -> Issue(m, "verify_disc", RECOVERY_READ_DISC_ID,
                                    "ReadN", ValidationLocation)
    /\ UNCHANGED <<fg, calls, lid, disc>>

(* The wrong disc or none: stop the drive and wait for the shell. *)
RecoveryStopDrive ==
    /\ PollAt(ERROR_PAUSE)
    /\ cd' = [BlockingPause(Polled) EXCEPT !.init_state = RETRY_READ]
    /\ UNCHANGED <<fg, calls, environment>>

(* Nothing to do: the disc was rejected, or the answer to the poll's own   *)
(* Nop has ended the recovery, and the switch has no case for what is left.*)
RecoveryRests ==
    /\ \E state \in {RETRY_READ, IDLE} : PollAt(state)
    /\ cd' = Polled
    /\ UNCHANGED <<fg, calls, environment>>

RecoveryPoll ==
    \/ RecoveryAbandon \/ (\E spinning \in BOOLEAN : RecoveryCheckDisc(spinning))
    \/ RecoveryWaitForDisc \/ RecoveryWaitForDrive \/ RecoveryDiscType
    \/ RecoverySetMode \/ RecoveryReadDiscId \/ RecoveryWaitForRead \/ RecoveryReadTimeout
    \/ RecoveryStopDrive \/ RecoveryRests

ProcessState ==
    \/ ServiceCheckCommand \/ Supervise \/ WatchdogDue
    \/ WatchdogCommand \/ WatchdogStep \/ WatchdogNop
    \/ Restart \/ IdleQuiet \/ IdlePoll \/ IdlePollFails
    \/ RecoveryWait \/ RecoveryPoll

-----------------------------------------------------------------------------
(* Explicit reconfiguration: cdrom_enter_recovery_mode and cdrom_recover. *)

EnterRecoveryMode ==
    /\ "reconfigure" \in Uses
    /\ Running("idle")
    /\ ~IsBusy(cd) /\ ~HasFlag(cd, RecoveryFlags) /\ IsEmpty(cd)
    /\ cd' = [cd EXCEPT !.status_flags = @ \cup {"RECOVERY_PENDING"}, !.init_state = IDLE]
    /\ UNCHANGED <<fg, calls, environment>>

Reconfiguring(state) ==
    /\ Running("idle")
    /\ "RECOVERY_PENDING" \in cd.status_flags
    /\ cd.init_state = state

RecoverFlush ==
    /\ Reconfiguring(RECONF_FLUSH)
    /\ cd' = [cd EXCEPT !.init_state = RECONF_SET_MODE, !.issued = "None", !.filtered = FALSE]
    /\ UNCHANGED <<fg, calls, environment>>

(* It is sent again every fourth frame until it is answered. *)
RecoverSetMode ==
    /\ Reconfiguring(RECONF_SET_MODE)
    /\ TimedOut
    /\ cd' = Issue(cd, "none", STEP_SET_FILTER, "Setmode", 0)
    /\ UNCHANGED <<fg, calls, lid, disc>>

RecoverSetFilter ==
    /\ Reconfiguring(RECONF_SET_FILTER)
    /\ cd' = Issue([cd EXCEPT !.init_state = RECONF_WAIT], cd.ready_callback,
                   STEP_DEMUTE, "Setfilter", 0)
    /\ UNCHANGED <<fg, calls, environment>>

RecoverActivity ==
    /\ Reconfiguring(RECONF_WAIT)
    /\ cd.sync_complete
    /\ cd' = Collect(cd)
    /\ UNCHANGED <<fg, calls, environment>>

(* Thirty quiet frames: repeat the step that was sent last. *)
RecoverTimeout ==
    /\ Reconfiguring(RECONF_WAIT)
    /\ ~cd.sync_complete
    /\ TimedOut
    /\ LET m == [cd EXCEPT !.sync_callback = "handle_recovery_sync"]
           step == IF cd.init_retry THEN 0 ELSE cd.init_command
       IN cd' = CASE step = STEP_DEMUTE -> CdControlF(m, "Demute", 0)
                  [] step = STEP_PAUSE -> CdControlF(m, "Pause", 0)
                  [] OTHER -> Issue(m, m.ready_callback, STEP_SET_FILTER, "Setfilter", 0)
    /\ UNCHANGED <<fg, calls, lid, disc>>

Recover ==
    \/ RecoverFlush \/ RecoverSetMode \/ RecoverSetFilter \/ RecoverActivity \/ RecoverTimeout

-----------------------------------------------------------------------------
(* cdrom_stop and cdrom_reset: pause the drive and drop the queue. *)

DropQueue(m) ==
    [Disarm(BlockingPause(m)) EXCEPT
                             !.current_command = "None",
                             !.init_command = 0,
                             !.init_retry = FALSE,
                             !.playback_state = FALSE,
                             !.transfer_callback = NULL,
                             !.retry_counter = 0,
                             !.queue_read_index = 0,
                             !.queue_write_index = 0]

(* cdrom_reset, called when a movie is over. *)
Reset ==
    /\ "reset" \in Uses
    /\ Running("idle")
    /\ calls < MaxCalls
    /\ cd.last_request # NULL /\ cd.last_request.command = "ReadS"
    /\ calls' = calls + 1
    /\ cd' = [DropQueue(cd) EXCEPT !.audio_enabled = FALSE]
    /\ UNCHANGED <<fg, environment>>

(* cdrom_stop, called on the way to the title; playing XA is reset first. *)
Stop ==
    /\ "stop" \in Uses
    /\ Running("idle")
    /\ calls < MaxCalls
    /\ calls' = calls + 1
    /\ cd' = [DropQueue(cd) EXCEPT !.audio_enabled = FALSE,
                                   !.status_flags = @ \ {"QUEUE_LOCK"},
                                   !.last_request = NULL,
                                   !.retry_count = 0,
                                   !.data_ready_pending = FALSE]
    /\ UNCHANGED <<fg, environment>>

(* field_animation.c locks the queue while it waits for the movie's seek. *)
LockQueue ==
    /\ "lock" \in Uses
    /\ Running("idle")
    /\ cd.last_request # NULL /\ cd.last_request.command = "SeekL"
    /\ cd' = [cd EXCEPT !.status_flags = @ \cup {"QUEUE_LOCK"}]
    /\ UNCHANGED <<fg, calls, environment>>

UnlockQueue ==
    /\ Running("idle")
    /\ "QUEUE_LOCK" \in cd.status_flags
    /\ cd' = [cd EXCEPT !.status_flags = @ \ {"QUEUE_LOCK"}]
    /\ UNCHANGED <<fg, calls, environment>>

-----------------------------------------------------------------------------
(* The drive and its interrupts. *)

(***************************************************************************)
(* Between two calls and while libcd waits any number of interrupts comes; *)
(* in a window, which is a few instructions long, at most one does, as     *)
(* drive events are milliseconds apart.                                    *)
(***************************************************************************)
Interrupt ==
    /\ fg.at \in {"idle", "starting", "blocking"} \/ fg.open \/ cd.waiting # "None"
    /\ fg' = [fg EXCEPT !.open = FALSE]

MotionCommands == {"ReadN", "ReadS", "SeekL", "Pause"}

(* The drive has a command that it can carry out: nothing moves with the shell open. *)
Able == cd.issued # "None" /\ ~(lid = "open" /\ cd.issued \in MotionCommands)

(* The drive carries the command out and answers it. *)
CommandDone ==
    /\ Interrupt
    /\ Able
    /\ cd' = SyncCallback(Executed(cd), TRUE)
    /\ IF cd.issued = "Nop" THEN StatusRead ELSE UNCHANGED lid
    /\ UNCHANGED <<calls, disc, faults>>

(* It refuses the command: always with the shell open, else as a fault. *)
CommandFailed ==
    /\ Interrupt
    /\ cd.issued # "None"
    /\ IF lid = "open" /\ cd.issued \in MotionCommands THEN UNCHANGED faults ELSE Fault("command")
    /\ cd' = SyncCallback([cd EXCEPT !.issued = "None"], FALSE)
    /\ IF cd.issued = "Nop" THEN StatusRead ELSE UNCHANGED lid
    /\ UNCHANGED <<calls, disc>>

(* The earlier command is answered: CdControlF sends the one it held back. *)
SendWaiting ==
    /\ cd.waiting # "None"
    /\ cd.issued = "None"
    /\ cd' = [cd EXCEPT !.issued = cd.waiting, !.issued_location = cd.waiting_location,
                        !.waiting = "None"]
    /\ UNCHANGED <<fg, calls, environment>>

(* The command, or only its answer, is lost. *)
CommandLost ==
    /\ cd.issued # "None"
    /\ Fault("lost")
    /\ \/ Able /\ cd' = Executed(cd)
       \/ cd' = [cd EXCEPT !.issued = "None"]
    /\ UNCHANGED <<fg, calls, lid, disc>>

Delivering == cd.reading /\ cd.head <= LastPosition /\ cd.waiting = "None"
NextSector == [cd EXCEPT !.sector = cd.head, !.head = cd.head + 1]

(* A handler sees a sector before the answer to a later command: out of order. *)
Overlap == IF cd.issued # "None" /\ cd.ready_callback # "none" THEN {"overlap"} ELSE {}

(***************************************************************************)
(* The movie's callback refuses its last sector and may refuse any other.  *)
(* cdrom_handle_stream_data refuses one when its ring is full ("refuse").  *)
(***************************************************************************)
XaEnd == LET extent == Extent[HeadItem(cd).resource] IN extent.loc + extent.size - 1
Refusal(accept) == IF ~accept /\ ~cd.audio_enabled THEN {"refuse"} ELSE {}
Possible(accept) == cd.audio_enabled /\ accept => cd.current_location # XaEnd

SectorReady(accept, decoding) ==
    /\ Interrupt
    /\ Delivering
    /\ Possible(accept)
    /\ decoding => cd.audio_enabled
    /\ Faults(Overlap \cup Refusal(accept))
    /\ cd' = ReadyCallback(NextSector, TRUE, accept, decoding)
    /\ UNCHANGED <<calls, lid, disc>>

(* A read error instead of a sector. *)
SectorFailed ==
    /\ Interrupt
    /\ Delivering
    /\ Faults({"sector"} \cup Overlap)
    /\ cd' = ReadyCallback(cd, FALSE, TRUE, FALSE)
    /\ UNCHANGED <<calls, lid, disc>>

(* A sector passes under the head without an interrupt. *)
SectorLost ==
    /\ Delivering
    /\ Fault("lost")
    /\ cd' = NextSector
    /\ UNCHANGED <<fg, calls, lid, disc>>

(* movie_mdec_out_callback, in place while a movie plays, serves a sector put off. *)
MdecOut(accept) ==
    /\ Interrupt
    /\ cd.audio_enabled /\ cd.data_ready_pending /\ cd.waiting = "None"
    /\ Possible(accept)
    /\ Faults(Refusal(accept))
    /\ cd' = VerifyRecovery(cd, accept)
    /\ UNCHANGED <<calls, lid, disc>>

(* The disc stops; a read in progress ends in an error or in silence. *)
OpenLid ==
    /\ Interrupt
    /\ lid # "open"
    /\ Fault("lid")
    /\ lid' = "open"
    /\ LET stopped == [cd EXCEPT !.reading = FALSE]
       IN \/ cd' = stopped
          \/ cd.reading /\ cd' = ReadyCallback(stopped, FALSE, TRUE, FALSE)
    /\ UNCHANGED <<calls, disc>>

(* The drive answers a command and the decoder finishes faster than a player changes a disc. *)
CloseLid(inserted) ==
    /\ lid = "open"
    /\ cd.issued = "None" /\ ~cd.data_ready_pending /\ Running("idle")
    /\ lid' = "latched"
    /\ disc' = inserted
    /\ UNCHANGED <<cd, fg, calls, faults>>

-----------------------------------------------------------------------------

Game ==
    \/ \E req \in Offered : QueueCommand(req)
    \/ Reset \/ Stop \/ LockQueue \/ UnlockQueue \/ EnterRecoveryMode

Queueing == QueueCheckCommand \/ QueueCheckStep \/ StartNop

Drive ==
    \/ CommandDone \/ CommandFailed \/ SendWaiting \/ CommandLost
    \/ \E accept, decoding \in BOOLEAN : SectorReady(accept, decoding)
    \/ SectorFailed \/ SectorLost
    \/ \E accept \in BOOLEAN : MdecOut(accept)
    \/ OpenLid
    \/ \E inserted \in Inserted : CloseLid(inserted)

Next == Game \/ Queueing \/ ProcessState \/ Recover \/ Drive

Spec == Init /\ [][Next]_vars

(***************************************************************************)
(* Fairness.  The game services the drive every frame and finishes a call  *)
(* it has begun, and a time-out of it comes due.  The drive answers and    *)
(* delivers, its disc spins up, and an open shell is closed over the       *)
(* game's disc; an interrupt raised while the foreground is not to be      *)
(* interrupted is served later, hence strong fairness.  The decoder may be *)
(* late for a sector, which is then read again, but not for ever.  No      *)
(* call, fault, stop or reset is ever due.                                 *)
(***************************************************************************)
Service == Queueing \/ ProcessState \/ Recover
Faultless == UNCHANGED faults

ServiceFairness ==
    /\ WF_vars(Service)
    /\ SF_vars(Faultless /\ WatchdogDue)
    /\ WF_vars(Faultless /\ RecoveryPoll)
    /\ WF_vars(Faultless /\ RecoveryReadTimeout)
    /\ WF_vars(Faultless /\ RecoverTimeout)
    /\ WF_vars(UnlockQueue)

DriveFairness ==
    /\ SF_vars(CommandDone)
    /\ SF_vars(Faultless /\ CommandFailed)
    /\ WF_vars(SendWaiting)
    /\ SF_vars(Faultless /\ SectorReady(TRUE, FALSE))
    /\ SF_vars(Faultless /\ SectorReady(FALSE, FALSE))
    /\ SF_vars(RecoveryCheckDisc(TRUE))
    /\ SF_vars(CloseLid("game"))

DecoderFairness ==
    /\ WF_vars(\E accept \in BOOLEAN : MdecOut(accept))
    /\ \A accept \in BOOLEAN : SF_vars(MdecOut(accept) /\ cd.sector = cd.current_location)

Fairness == ServiceFairness /\ DriveFairness /\ DecoderFairness

FairSpec == Spec /\ Fairness
=============================================================================
