---------------------------- MODULE CdProperties ----------------------------
(***************************************************************************)
(* What the command core promises.                                         *)
(***************************************************************************)
EXTENDS CdSystem

Stepping == cd.init_command # 0 \/ cd.init_retry
Resting == ~IsBusy(cd) /\ ~HasFlag(cd, RecoveryFlags) /\ fg.at = "idle"

(***************************************************************************)
(* No interrupt handler ever goes through a null pointer: not as the       *)
(* destination of a sector, not as the table entry of a read that was to   *)
(* be resumed, not as the movie callback (cdrom_process_sector,            *)
(* cdrom_run_command).                                                     *)
(***************************************************************************)
NoNullAccess == cd.trap = {}

(***************************************************************************)
(* The table of callback roles in cdrom.md: the one sync slot and the one  *)
(* ready slot hold the handlers of the operation under way, whatever       *)
(* interrupted what (every CdSyncCallback and CdReadyCallback of cdrom.c). *)
(***************************************************************************)
Reconfiguration == {STEP_SET_FILTER, STEP_DEMUTE, STEP_PAUSE, STEP_COMPLETE}
Pausing == {PAUSE, AUDIO_PAUSE, RESTORE_MODE}

CallbackRoles ==
    /\ cd.sync_callback = "complete_command" => cd.current_command # "None" /\ ~Stepping
    /\ cd.init_command \in Pausing \cup Reconfiguration =>
         /\ cd.sync_callback = "handle_recovery_sync"
         /\ cd.ready_callback = "none"
         /\ cd.current_command = "None"
    /\ cd.ready_callback = "handle_ready_intr" => cd.sync_callback = "complete_command"
    /\ cd.ready_callback = "verify_disc" => cd.init_state = WAIT_FOR_READ

(***************************************************************************)
(* "Sync error reset: Cleared, Cleared" (the same table): until the game   *)
(* has serviced the error, nothing answers an interrupt.                   *)
(***************************************************************************)
ErrorDisarms ==
    "SYNC_ERROR" \in cd.status_flags => cd.sync_callback = "none" /\ cd.ready_callback = "none"

(***************************************************************************)
(* A controller at rest has no handler installed, so a stray interrupt     *)
(* cannot move a queue that the game believes idle.                        *)
(***************************************************************************)
QuietWhenIdle ==
    Resting => cd.sync_callback = "none" /\ cd.ready_callback = "none"

(***************************************************************************)
(* A transfer that recovery or the watchdog will resume is the one at the  *)
(* read index, and the position it resumes at agrees with the bytes it has *)
(* already handed to its callback (playback_state, cdrom_run_command).     *)
(***************************************************************************)
ResumePoint ==
    cd.playback_state =>
        LET extent == Extent[HeadItem(cd).resource]
        IN /\ ~IsEmpty(cd)
           /\ cd.transfer_callback = HeadItem(cd).callback
           /\ ~cd.audio_enabled =>
                cd.current_location = extent.loc + cd.total_data - cd.read_remaining

-----------------------------------------------------------------------------

Served == HeadItem(cd)
ServedExtent == Extent[Served.resource]

(***************************************************************************)
(* A sector is stored only for the request at the read index, at the       *)
(* offset its disc position calls for, and only from the game's disc.      *)
(***************************************************************************)
StoredInPlace ==
    [][ \A s \in Sinks, o \in Offsets :
          cd'.memory[s][o] # cd.memory[s][o] =>
            /\ disc = "game"
            /\ ~IsEmpty(cd) /\ Served.command = "ReadN"
            /\ s = SinkOf(Served) /\ o < ServedExtent.size
            /\ cd'.memory[s][o] = ServedExtent.loc + o ]_cd

(***************************************************************************)
(* An error is forgotten only on the game's disc: the drive goes back to   *)
(* normal work after cdrom_verify_disc has matched the validation sector   *)
(* of the disc that is in the drive.                                       *)
(***************************************************************************)
ValidatedDisc ==
    [][ HasFlag(cd, ErrorFlags) /\ ~HasFlag(cd', ErrorFlags) => disc = "game" ]_cd

(***************************************************************************)
(* "Normal --> Check: Sync error or shell-open detection" (cdrom.md): the  *)
(* status answer that reports an opened shell, which is the only one that  *)
(* will, sends the controller to the disc check.                           *)
(***************************************************************************)
ShellOpenDetected ==
    [][ lid = "latched" /\ lid' = "closed" => HasFlag(cd', ErrorFlags) ]_<<cd, lid>>

(***************************************************************************)
(* The queue drains, or the drive has been left with another disc in it:   *)
(* the game services the drive and the drive answers, and no error, lost   *)
(* answer or lost sector leaves the two waiting for each other.            *)
(***************************************************************************)
Drains ==
    ~IsEmpty(cd) ~> IsEmpty(cd) \/ disc # "game"

(***************************************************************************)
(* A reconfiguration comes to its end, whatever is refused or lost once:   *)
(* until then cdrom_process_state does nothing at all.                     *)
(***************************************************************************)
Reconfigured ==
    "RECOVERY_PENDING" \in cd.status_flags ~> "RECOVERY_PENDING" \notin cd.status_flags
=============================================================================
