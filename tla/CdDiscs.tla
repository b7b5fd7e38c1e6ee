------------------------------- MODULE CdDiscs -------------------------------
(***************************************************************************)
(* Why nothing is read from another disc: what the shell and the disc in   *)
(* the drive say about the commands and handlers under way, from the       *)
(* moment the shell is opened until recovery has verified the disc.        *)
(***************************************************************************)
EXTENDS CdTransfers

(***************************************************************************)
(* The conditions of the theorems: those of CdRoles and of CdErrors.  The  *)
(* drive answers every command in turn, the game reads data files only.    *)
(***************************************************************************)
AnsweredInTurn == DataInTurn /\ DataFilesOnly

(* A step has its sync callback, and the drive owes this callback an answer. *)
Answering(m) ==
    /\ m.init_command # 0 => m.sync_callback = "handle_recovery_sync"
    /\ m.sync_callback = "handle_recovery_sync" => m.issued # "None" \/ m.waiting # "None"

(* The disc does not turn until the status answer has reported the open shell. *)
Stopped == ShellOpen => ~cd.reading

(* ... and the answer that reports it goes to cdrom_complete_command, for a Nop. *)
Reporting ==
    lid = "latched" =>
        /\ cd.waiting = "None" /\ cd.issued \in {"None", "Nop"}
        /\ cd.issued = "Nop" \/ fg.at \in {"starting", "blocking"} =>
             cd.sync_callback = "complete_command" /\ cd.current_command = "Nop"

(* Another disc, once reported, is not worked with. *)
Refused == disc # "game" /\ ~ShellOpen => Failing(cd)

(* Recovery comes to its end only on the game's disc. *)
Verified == cd.init_command = RECOVERY_COMPLETE => disc = "game"

(* A service that has found no command still finds none. *)
Unchanged == fg.at = "observed" => cd.current_command = "None"

(***************************************************************************)
(* While the shell is open, or another disc is in the drive, the drive     *)
(* does not read; the status answer that reports it ends in an error; the  *)
(* error stands until the validation sector of the game's disc was read.   *)
(***************************************************************************)
DiscInv == Answering(cd) /\ Stopped /\ Reporting /\ Refused /\ Verified /\ Unchanged
=============================================================================
