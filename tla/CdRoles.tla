------------------------------- MODULE CdRoles -------------------------------
(***************************************************************************)
(* Why CallbackRoles and QuietWhenIdle hold while the program reads data   *)
(* files: what the two callback slots, the command, the step and the state *)
(* of recovery say about each other and about the queue.                   *)
(***************************************************************************)
EXTENDS CdErrors

(***************************************************************************)
(* The conditions of the theorems: no movie, no sector that overtakes the  *)
(* answer to a later command, and no interrupt between the two halves of a *)
(* watchdog.  Answers may be lost and the drive may be reconfigured.       *)
(***************************************************************************)
DataInTurn ==
    /\ \A req \in Offered : req.command \in {"ReadN", "SeekL"}
    /\ "overlap" \notin FaultKinds
    /\ Windows \subseteq {"published", "checking", "observed"}

-----------------------------------------------------------------------------
(* The machine. *)

(* The entry is behind the read index and before the write index. *)
IsPending(m, i) == (i - m.queue_read_index) % QueueSize < PendingCount(m)

(* Every pending entry is a data request, and nothing serves a sector late. *)
DataQueued(m) ==
    /\ m.audio_enabled = FALSE /\ m.data_ready_pending = FALSE
    /\ \A i \in Slots : IsPending(m, i) => m.items[i].command \in {"ReadN", "SeekL"}

(* A command under way works for the entry at the read index. *)
Commanding(m) ==
    /\ m.current_command # "None" => ~IsEmpty(m)
    /\ m.sync_callback = "complete_command" =>
         m.current_command # "None" /\ m.init_command = 0 /\ m.init_retry = FALSE

(* Sectors are taken only for the read at the read index. *)
Receiving(m) ==
    m.ready_callback = "handle_ready_intr" =>
        /\ m.sync_callback = "complete_command"
        /\ m.current_command \in {"ReadN", "Nop"}
        /\ HeadItem(m).command = "ReadN"

(* A pause or a step of the reconfiguration has the drive to itself. *)
Exclusive(m) ==
    m.init_command \in Pausing \cup Reconfiguration =>
        /\ m.sync_callback = "handle_recovery_sync"
        /\ m.ready_callback = "none"
        /\ m.current_command = "None"

(* The sync callback of recovery belongs to a step. *)
Stepped(m) == m.sync_callback = "handle_recovery_sync" => m.init_command # 0

Started == {SET_MODE, READ_DISC_ID, WAIT_FOR_READ, ERROR_PAUSE, RETRY_READ}
DiscUnknown == {"INVALID_DISC", "NO_DISC"}

(* The flags that stand while recovery is at a state or a step of its own. *)
Recording(m) ==
    /\ "RECOVERY_PENDING" \notin m.status_flags /\ m.init_state \in 2..8 =>
         DiscUnknown \subseteq m.status_flags
    /\ m.init_command \in RecoverySteps =>
         /\ m.init_state \in Started
         /\ "RECOVERY_PENDING" \notin m.status_flags
         /\ "INVALID_DISC" \in m.status_flags
         /\ m.init_command # RECOVERY_READ_DISC_ID => "NO_DISC" \in m.status_flags
    /\ m.ready_callback = "verify_disc" =>
         /\ m.init_state = WAIT_FOR_READ
         /\ "RECOVERY_PENDING" \notin m.status_flags
         /\ m.init_command \in {0, RECOVERY_READ_DISC_ID}

(* The retry flag without a step: cdrom_handle_recovery_sync has found a disc it rejects. *)
Astray(m) == m.init_retry /\ m.init_command = 0

Strayed(m) ==
    Astray(m) =>
        /\ m.init_state \in {ERROR_PAUSE, RETRY_READ}
        /\ "RECOVERY_PENDING" \notin m.status_flags
        /\ "INVALID_DISC" \in m.status_flags

(* Reconfiguration starts from rest and nothing starts before it is over. *)
Reconfigures(m) ==
    /\ m.init_command \in Reconfiguration => "RECOVERY_PENDING" \in m.status_flags
    /\ "RECOVERY_PENDING" \in m.status_flags =>
         /\ ~Failing(m)
         /\ m.sync_callback # "complete_command" /\ m.ready_callback = "none"
         /\ m.current_command = "None"
         /\ m.init_command \in Reconfiguration \cup {0}
         /\ m.init_state \in 0..3

Roles(m) ==
    /\ DataQueued(m) /\ Commanding(m) /\ Receiving(m) /\ Exclusive(m) /\ Stepped(m)
    /\ Recording(m) /\ Strayed(m) /\ Reconfigures(m)

-----------------------------------------------------------------------------
(* The foreground. *)

(* An entry is pending behind the one at the read index. *)
Spare(m) == ~IsEmpty(m) /\ Next1(m.queue_read_index) # m.queue_write_index

(* libcd waits with the shell open: nothing it passes on finishes an entry. *)
Stuck(m) ==
    /\ m.sync_callback = "complete_command" => m.current_command \in {"ReadN", "Nop"}
    /\ m.sync_callback = "handle_recovery_sync" => m.init_command = RECOVERY_RETRY_READ

(* The entry just published is not finished before it has been started. *)
EntryKept(m, point, shell) ==
    point.at \in {"published", "checking"} =>
        /\ ~IsEmpty(m)
        /\ point.open => /\ m.waiting = "None"
                         /\ m.current_command # "None" => point.at = "published" /\ Spare(m)
        /\ m.waiting # "None" => shell = "open" /\ Stuck(m)

(* What a service has seen, and what is left of it after an interrupt. *)
ServiceKnows(m, point) ==
    /\ point.at \in {"observed", "watch_command", "watch_step"} =>
         /\ m.waiting = "None"
         /\ "RECOVERY_PENDING" \notin m.status_flags
         /\ ~Astray(m)
    /\ point.at = "observed" /\ point.open => m.current_command = "None" /\ ~Failing(m)
    /\ point.at \in {"watch_command", "watch_step"} => point.open = FALSE
    /\ point.at = "watch_command" =>
         m.current_command # "None" /\ m.init_command = 0 /\ m.init_retry = FALSE
    /\ point.at = "watch_step" => m.init_command # 0

Agreed(m, point, shell) == Roles(m) /\ EntryKept(m, point, shell) /\ ServiceKnows(m, point)

(***************************************************************************)
(* The callback slots, the command, the step and the queue agree with each *)
(* other, and with what the foreground has seen of them.                   *)
(***************************************************************************)
RolesInv == TypeOK /\ Agreed(cd, fg, lid)
=============================================================================
