------------------------------ MODULE CdErrors ------------------------------
(***************************************************************************)
(* Why ErrorDisarms holds while the program reads data files: what is true *)
(* of the two callback slots, of the step recovery is at and of the drive  *)
(* from an error until it is cleared.                                      *)
(***************************************************************************)
EXTENDS CdProperties

(***************************************************************************)
(* The conditions of the theorem: no movie and no reconfiguration, no      *)
(* answer goes missing, and the two looks of a service see the same state. *)
(***************************************************************************)
DataFilesOnly ==
    /\ \A req \in Offered : req.command # "ReadS"
    /\ "reconfigure" \notin Uses
    /\ "lost" \notin FaultKinds
    /\ Windows \subseteq {"published", "checking"}

Failing(m) == HasFlag(m, ErrorFlags)
Silent(m) == m.sync_callback = "none" /\ m.ready_callback = "none"

(* The states in which recovery has not given the drive a command yet. *)
Asking == {IDLE, POLL_STATUS, CHECK_DISC, WAIT_FOR_DISC, WAIT_FOR_DRIVE, CHECK_DISC_TYPE}
RecoverySteps == {RECOVERY_SET_MODE, RECOVERY_READ_DISC_ID, RECOVERY_RETRY_READ, RECOVERY_COMPLETE}

(* What data files never touch. *)
Plain(m) ==
    /\ m.audio_enabled = FALSE
    /\ \A i \in Slots : m.items[i].command # "ReadS"
    /\ "RECOVERY_PENDING" \notin m.status_flags

(* After an error only the handlers of recovery are ever installed. *)
Guarded(m) ==
    Failing(m) =>
        /\ m.sync_callback # "complete_command" /\ m.ready_callback # "handle_ready_intr"
        /\ m.init_state \in Asking => Silent(m)
        /\ m.sync_callback = "handle_recovery_sync" => m.init_command \in RecoverySteps
        /\ "SYNC_ERROR" \in m.status_flags => m.init_state \in {IDLE, POLL_STATUS}

(* ... and while one is, the drive still has an answer to give. *)
Owed(m) ==
    Failing(m) /\ m.sync_callback = "handle_recovery_sync" =>
        m.issued # "None" \/ m.waiting # "None"

(* No error comes up between two looks of cdrom_process_state. *)
Undisturbed ==
    fg.at \in {"observed", "watch_command", "watch_step"} =>
        ~Failing(cd) /\ fg.open = FALSE /\ cd.waiting = "None"

(***************************************************************************)
(* From cdrom_handle_sync_error until recovery has cleared the error, only *)
(* handlers of recovery are installed, none before it has given the drive  *)
(* a command, and while its sync callback waits the drive owes an answer.  *)
(***************************************************************************)
ErrorInv == TypeOK /\ Plain(cd) /\ Guarded(cd) /\ Owed(cd) /\ Undisturbed
=============================================================================
