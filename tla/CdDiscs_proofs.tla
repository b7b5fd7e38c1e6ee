--------------------------- MODULE CdDiscs_proofs ---------------------------
(***************************************************************************)
(* DiscInv, ValidatedDisc, ShellOpenDetected and StoredInPlace, for every  *)
(* queue, every disc and any number of faults: an opened shell is noticed, *)
(* an error is forgotten only on the game's disc, and nothing of another   *)
(* disc is ever stored.                                                    *)
(***************************************************************************)
EXTENDS CdDiscs, CdTransfers_proofs

-----------------------------------------------------------------------------
(* What a handler may do to the disc and to recovery. *)

SameData(m, n) == n.reading = m.reading /\ n.memory = m.memory

LEMMA SameDataTransitive ==
    ASSUME NEW m, NEW n, NEW p, SameData(m, n), SameData(n, p)
    PROVE  SameData(m, p)
BY DEF SameData

(* The last step of recovery. *)
Finishing(m) == m.init_command = RECOVERY_COMPLETE

(* The sync slot is empty, or works for the queue, or waits for an answer to come. *)
Settled(m) ==
    \/ m.sync_callback = "none" /\ m.init_command = 0
    \/ m.sync_callback = "complete_command"
    \/ m.sync_callback = "handle_recovery_sync" /\ (m.issued # "None" \/ m.waiting # "None")

LEMMA SettledAnswering ==
    ASSUME NEW m, Roles(m), Settled(m)
    PROVE  Answering(m)
BY DEF Roles, Commanding, Settled, Answering

LEMMA AnsweringSettled ==
    ASSUME NEW m \in MachineType, Answering(m)
    PROVE  Settled(m)
<1>1. m.sync_callback \in {"none", "complete_command", "handle_recovery_sync"}
  BY DEF MachineType
<1> QED BY <1>1 DEF Settled, Answering

(***************************************************************************)
(* An error lasts until the last step of recovery is done, and a handler   *)
(* that answers the drive does not get to that step by itself.             *)
(***************************************************************************)
Lasts(m, n) == Failing(m) => Failing(n) \/ Finishing(m)

Carries(m, n) ==
    /\ Settled(n)
    /\ Finishing(n) => Finishing(m)
    /\ Lasts(m, n)

(* No error is cleared. *)
Remembers(m, n) == m.status_flags \cap ErrorFlags \subseteq n.status_flags

LEMMA RemembersLasts ==
    ASSUME NEW m, NEW n, Remembers(m, n)
    PROVE  Lasts(m, n)
BY DEF Lasts, Failing, HasFlag, Remembers

(* The queue has the sync slot, or nobody has. *)
LEMMA WorkedCarries ==
    ASSUME NEW m, NEW n, n.init_command = 0, n.sync_callback \in {"none", "complete_command"},
           Remembers(m, n)
    PROVE  Carries(m, n)
BY RemembersLasts DEF Carries, Settled, Finishing, RECOVERY_COMPLETE

-----------------------------------------------------------------------------
(* The disc and the memory through the helpers. *)

LEMMA FieldsData ==
    ASSUME NEW m \in MachineType, NEW v
    PROVE  /\ SameData(m, [m EXCEPT !.init_state = v])
           /\ SameData(m, [m EXCEPT !.init_command = v])
           /\ SameData(m, [m EXCEPT !.init_retry = v])
           /\ SameData(m, [m EXCEPT !.sync_complete = v])
           /\ SameData(m, [m EXCEPT !.current_command = v])
           /\ SameData(m, [m EXCEPT !.queue_read_index = v])
           /\ SameData(m, [m EXCEPT !.retry_count = v])
           /\ SameData(m, [m EXCEPT !.sync_callback = v])
           /\ SameData(m, [m EXCEPT !.ready_callback = v])
           /\ SameData(m, [m EXCEPT !.issued = v])
           /\ SameData(m, [m EXCEPT !.status_flags = v])
BY DEF SameData, MachineType

LEMMA CdControlFData ==
    ASSUME NEW m \in MachineType, NEW command, NEW location
    PROVE  SameData(m, CdControlF(m, command, location))
BY DEF CdControlF, SameData, MachineType

LEMMA DisarmData ==
    ASSUME NEW m \in MachineType
    PROVE  SameData(m, Disarm(m))
BY DEF Disarm, SameData, MachineType

LEMMA HandleSyncErrorData ==
    ASSUME NEW m \in MachineType
    PROVE  SameData(m, HandleSyncError(m))
<1> DEFINE off == Disarm(m)
<1>1. off \in MachineType /\ SameData(m, off)
  BY DisarmType, DisarmData
<1>2. HandleSyncError(m) = [off EXCEPT
              !.init_state = IDLE,
              !.status_flags = @ \cup {"SYNC_ERROR"},
              !.current_command = "None",
              !.init_command = 0,
              !.init_retry = FALSE,
              !.retry_count = 0,
              !.retry_counter = 0]
  BY DEF HandleSyncError
<1> HIDE DEF off
<1> QED BY <1>1, <1>2 DEF SameData, MachineType

LEMMA RetireData ==
    ASSUME NEW m \in MachineType
    PROVE  SameData(m, Retire(m))
BY DEF Retire, SameData, MachineType

LEMMA GoIdleData ==
    ASSUME NEW m \in MachineType
    PROVE  SameData(m, GoIdle(m))
BY DEF GoIdle, SameData, MachineType

LEMMA DispatchReadData ==
    ASSUME NEW m \in MachineType, NEW command \in Commands, NEW mode
    PROVE  SameData(m, DispatchRead(m, command, mode))
<1> DEFINE item == HeadItem(m)
           extent == Extent[item.resource]
           resume == m.playback_state /\ ~(item.callback = NULL
                        /\ m.write_ptr = [buffer |-> item.dst, offset |-> 0])
           size == IF m.playback_state THEN 0 ELSE extent.size
           location == IF m.playback_state THEN m.current_location ELSE extent.loc
           trapped == IF m.playback_state THEN {"null_entry"} ELSE {}
           located == [m EXCEPT !.current_location = location,
                                !.current_command = command,
                                !.playback_state = FALSE]
           filled == [located EXCEPT
                             !.total_data = size,
                             !.read_remaining = size,
                             !.write_ptr = [buffer |-> item.dst, offset |-> 0],
                             !.transfer_callback = item.callback,
                             !.trap = @ \cup trapped]
           loaded == IF resume THEN located ELSE filled
           hearing == [loaded EXCEPT !.data_ready_pending = FALSE,
                                     !.ready_callback = "handle_ready_intr"]
           armed == IF mode # "ASYNC" THEN loaded ELSE hearing
<1>1. DispatchRead(m, command, mode) = CdControlF(armed, command, armed.current_location)
  BY DEF DispatchRead
<1>2. size \in Nat /\ location \in Positions
  BY HeadItemType, ExtentType DEF MachineType
<1>3. trapped \in SUBSET {"null_destination", "null_entry", "null_callback"}
  OBVIOUS
<1>4. /\ item.callback \in Callbacks \cup {NULL}
      /\ [buffer |-> item.dst, offset |-> 0] \in [buffer : Buffers \cup {NULL}, offset : Nat]
  BY HeadItemType
<1> HIDE DEF item, size, location, trapped, resume
<1>5. located \in MachineType /\ SameData(m, located)
  <2>1. located \in MachineType
    BY <1>2, ZenonT(30) DEF MachineType
  <2>2. SameData(m, located)
    BY DEF SameData, MachineType
  <2> QED BY <2>1, <2>2
<1> HIDE DEF located
<1>6. filled \in MachineType /\ SameData(located, filled)
  <2>1. located.trap \cup trapped \in SUBSET {"null_destination", "null_entry", "null_callback"}
    BY <1>3, <1>5 DEF MachineType
  <2>2. filled \in MachineType
    BY <1>2, <1>4, <1>5, <2>1, ZenonT(30) DEF MachineType
  <2>3. SameData(located, filled)
    BY <1>5 DEF SameData, MachineType
  <2> QED BY <2>2, <2>3
<1> HIDE DEF filled
<1>7. loaded \in MachineType /\ SameData(m, loaded)
  BY <1>5, <1>6, SameDataTransitive
<1> HIDE DEF loaded
<1>8. hearing \in MachineType /\ SameData(loaded, hearing)
  <2>1. hearing \in MachineType
    BY <1>7, ZenonT(30) DEF MachineType
  <2>2. SameData(loaded, hearing)
    BY <1>7 DEF SameData, MachineType
  <2> QED BY <2>1, <2>2
<1> HIDE DEF hearing
<1>9. armed \in MachineType /\ SameData(m, armed)
  BY <1>7, <1>8, SameDataTransitive
<1> HIDE DEF armed
<1> QED BY <1>1, <1>9, CdControlFData, SameDataTransitive

LEMMA DispatchSeekData ==
    ASSUME NEW m \in MachineType, NEW mode
    PROVE  SameData(m, DispatchSeek(m, mode))
<1> DEFINE location == Extent[HeadItem(m).resource].loc
           ready == IF mode = "COMMAND_THEN_READ" THEN "none" ELSE m.ready_callback
           seeking == [m EXCEPT !.transfer_callback = NULL,
                                !.playback_state = FALSE,
                                !.current_location = location,
                                !.current_command = "SeekL",
                                !.ready_callback = ready]
<1>1. location \in Positions
  BY HeadItemType, ExtentType
<1>2. ready \in {"none", "handle_ready_intr", "verify_disc"}
  BY DEF MachineType
<1>3. DispatchSeek(m, mode) = CdControlF(seeking, "SeekL", location)
  BY DEF DispatchSeek
<1> HIDE DEF location, ready
<1>4. seeking \in MachineType
  BY <1>1, <1>2, CommandValues, ZenonT(30) DEF MachineType
<1>5. SameData(m, seeking)
  BY DEF SameData, MachineType
<1> HIDE DEF seeking
<1> QED BY <1>3, <1>4, <1>5, CdControlFData, SameDataTransitive

LEMMA DispatchOtherData ==
    ASSUME NEW m \in MachineType, NEW command \in Commands, NEW mode
    PROVE  SameData(m, DispatchOther(m, command, mode))
<1> DEFINE ready == IF mode = "COMMAND_THEN_READ" THEN "none" ELSE m.ready_callback
           started == [m EXCEPT !.current_command = command, !.ready_callback = ready]
<1>1. ready \in {"none", "handle_ready_intr", "verify_disc"}
  BY DEF MachineType
<1>2. DispatchOther(m, command, mode) = CdControlF(started, command, 0)
  BY DEF DispatchOther
<1> HIDE DEF ready
<1>3. started \in MachineType
  BY <1>1, ZenonT(30) DEF MachineType
<1>4. SameData(m, started)
  BY DEF SameData, MachineType
<1> HIDE DEF started
<1> QED BY <1>2, <1>3, <1>4, CdControlFData, SameDataTransitive

LEMMA RunCommandData ==
    ASSUME NEW m \in MachineType, NEW command \in Commands, NEW mode
    PROVE  SameData(m, RunCommand(m, command, mode))
<1> DEFINE last == LastPending(m)
           Onto(k) == (m.queue_read_index + k) % QueueSize
           CommandAt(k) == IF k = 0 THEN command ELSE m.items[Onto(k)].command
           stops == {k \in 0..last : k = last \/ CommandAt(k) # "SeekL"}
           skip == Min(stops)
           skipped == [m EXCEPT !.queue_read_index = Onto(skip)]
<1>1. last \in Nat
  BY QueueAssumption DEF LastPending, MachineType, Slots
<1>2. skip \in stops
  <2>1. stops \in SUBSET Nat /\ last \in stops
    BY <1>1
  <2> HIDE DEF stops
  <2> QED BY <2>1, MinOfNats
<1>3. skip \in Int
  <2>1. stops \subseteq Int
    BY <1>1
  <2> HIDE DEF stops, skip
  <2> QED BY <1>2, <2>1
<1>4. RunCommand(m, command, mode) =
        CASE CommandAt(skip) \in {"ReadN", "ReadS"} -> DispatchRead(skipped, CommandAt(skip), mode)
          [] CommandAt(skip) = "SeekL" -> DispatchSeek(skipped, mode)
          [] OTHER -> DispatchOther(skipped, CommandAt(skip), mode)
  BY DEF RunCommand
<1> HIDE DEF skip, stops, last
<1>5. Onto(skip) \in Slots
  <2>1. m.queue_read_index + skip \in Int
    BY <1>3, IndexType
  <2> QED BY <2>1, SlotOf
<1>6. CommandAt(skip) \in Commands
  BY <1>5, ItemType
<1> HIDE DEF Onto
<1>7. skipped \in MachineType /\ SameData(m, skipped)
  BY <1>5, FieldUpdates, FieldsData
<1> HIDE DEF skipped, CommandAt
<1> QED BY <1>4, <1>6, <1>7, DispatchReadData, DispatchSeekData, DispatchOtherData,
           SameDataTransitive

-----------------------------------------------------------------------------
(* The sync callback of normal operation. *)

(* The handler works for the queue, or is done: there is no step, and no error is cleared. *)
Works(m, n) ==
    /\ SameData(m, n)
    /\ n.init_command = 0 /\ n.sync_callback \in {"none", "complete_command"}
    /\ Remembers(m, n)

LEMMA WorksFrom ==
    ASSUME NEW m, NEW p, NEW n, SameData(m, p), p.status_flags = m.status_flags, Works(p, n)
    PROVE  Works(m, n)
BY SameDataTransitive DEF Works, Remembers

LEMMA WorksCarries ==
    ASSUME NEW m, NEW n, Works(m, n)
    PROVE  Carries(m, n) /\ SameData(m, n)
BY WorkedCarries DEF Works

LEMMA HandleSyncErrorWorks ==
    ASSUME NEW m \in MachineType
    PROVE  Works(m, HandleSyncError(m)) /\ Failing(HandleSyncError(m))
<1> DEFINE n == HandleSyncError(m)
<1>1. /\ n.sync_callback = "none" /\ n.init_command = 0
      /\ n.status_flags = m.status_flags \cup {"SYNC_ERROR"}
  BY HandleSyncErrorFields
<1>2. SameData(m, n)
  BY HandleSyncErrorData
<1> HIDE DEF n
<1>3. Failing(n)
  BY <1>1 DEF Failing, HasFlag, ErrorFlags
<1> QED BY <1>1, <1>2, <1>3 DEF Works, Remembers, n

LEMMA RunCommandWorks ==
    ASSUME NEW m \in MachineType, DataQueued(m), ~IsEmpty(m),
           NEW mode \in {"ASYNC", "COMMAND_THEN_READ"},
           m.sync_callback = "complete_command", m.init_command = 0
    PROVE  Works(m, RunCommand(m, HeadItem(m).command, mode))
<1> DEFINE n == RunCommand(m, HeadItem(m).command, mode)
<1>1. SameMode(m, n) /\ SameStep(m, n) /\ n.sync_callback = m.sync_callback
  BY RunCommandFields
<1>2. HeadItem(m).command \in Commands
  BY HeadItemType
<1>3. SameData(m, n)
  BY <1>2, RunCommandData
<1> HIDE DEF n
<1>4. Works(m, n)
  BY <1>1, <1>3 DEF Works, Remembers, SameMode, SameStep
<1> QED BY <1>4 DEF n

LEMMA RetireSeekWorks ==
    ASSUME NEW m \in MachineType, Working(m), ~IsEmpty(m)
    PROVE  Works(m, RetireSeek(m))
<1> DEFINE retired == Retire(m)
           rest == GoIdle(retired)
           idle == [rest EXCEPT !.init_command = 0, !.init_retry = FALSE]
<1>1. DataQueued(m)
  BY DEF Working
<1>2. /\ retired \in MachineType /\ DataQueued(retired)
      /\ SameMode(m, retired) /\ SameStep(m, retired) /\ SameSlots(m, retired)
  BY <1>1, RetireType, RetireFields
<1>3. SameData(m, retired)
  BY RetireData
<1>4. RetireSeek(m) = IF IsEmpty(retired) THEN idle ELSE RunQueued(retired, HeadItem(retired).command)
  BY DEF RetireSeek
<1> HIDE DEF retired
<1>5. /\ SameMode(retired, idle) /\ idle.sync_callback = "none" /\ idle.init_command = 0
  BY <1>2, GoIdleFields
<1>6. SameData(retired, idle)
  <2>1. rest \in MachineType /\ SameData(retired, rest)
    BY <1>2, GoIdleType, GoIdleData
  <2> HIDE DEF rest
  <2> QED BY <2>1 DEF SameData, MachineType
<1> HIDE DEF rest, idle
<1>7. retired.status_flags = m.status_flags
  BY <1>2 DEF SameMode
<1>8. CASE IsEmpty(retired)
  <2>1. Works(retired, idle)
    BY <1>5, <1>6 DEF Works, Remembers, SameMode
  <2> QED BY <1>3, <1>4, <1>7, <1>8, <2>1, WorksFrom
<1>9. CASE ~IsEmpty(retired)
  <2> DEFINE n == RunCommand(retired, HeadItem(retired).command, "ASYNC")
  <2>1. HeadItem(retired).command \in {"ReadN", "SeekL"}
    BY <1>2, <1>9, HeadIsRequest
  <2>2. RetireSeek(m) = n
    BY <1>2, <1>4, <1>9, <2>1, AsData
  <2>3. retired.sync_callback = "complete_command" /\ retired.init_command = 0
    BY <1>2 DEF Working, SameSlots, SameStep
  <2>4. Works(retired, n)
    BY <1>2, <1>9, <2>3, RunCommandWorks
  <2> QED BY <1>3, <1>7, <2>2, <2>4, WorksFrom
<1> QED BY <1>8, <1>9

LEMMA CompleteCommandWorks ==
    ASSUME NEW m \in MachineType, Roles(m), m.sync_callback = "complete_command",
           NEW complete \in BOOLEAN, NEW shellOpen \in BOOLEAN
    PROVE  Works(m, CompleteCommand(m, complete, shellOpen))
<1> DEFINE seen == [m EXCEPT !.sync_complete = TRUE]
           head == HeadItem(m).command
           noping == [seen EXCEPT !.current_command = "Nop"]
           n == CompleteCommand(m, complete, shellOpen)
<1>1. seen \in MachineType
  BY FieldUpdates
<1>2. SameView(m, seen) /\ SameData(m, seen)
  BY OtherFields, FieldsData
<1>3. Roles(seen)
  BY <1>2, ViewRoles
<1>4. HeadItem(seen) = HeadItem(m) /\ seen.current_command = m.current_command
      /\ seen.sync_callback = "complete_command" /\ seen.status_flags = m.status_flags
  BY <1>2, QueueSame DEF SameView, SameSlots, SameMode
<1>5. n = CASE ShellReported(m, shellOpen) -> HandleSyncError(seen)
            [] m.current_command = "Nop" /\ ~ShellReported(m, shellOpen) /\ ~complete ->
                 RunCommand(seen, head, "ASYNC")
            [] m.current_command # "Nop" /\ ~complete -> CdControlF(noping, "Nop", 0)
            [] complete /\ m.current_command \in {"ReadN", "ReadS"} -> seen
            [] complete /\ m.current_command = "SeekL" -> RetireSeek(seen)
            [] OTHER -> DispatchHead(seen)
  BY DEF CompleteCommand
<1> HIDE DEF seen, n
<1>6. Working(seen) /\ ~IsEmpty(seen) /\ DataQueued(seen) /\ seen.init_command = 0
  BY <1>3, <1>4, WorkingFrom DEF Working
<1>7. Works(seen, HandleSyncError(seen))
  BY <1>1, HandleSyncErrorWorks
<1>8. Works(seen, RunCommand(seen, head, "ASYNC"))
  BY <1>1, <1>4, <1>6, RunCommandWorks
<1>9. Works(seen, CdControlF(noping, "Nop", 0))
  <2>1. noping \in MachineType
    BY <1>1, CommandValues, FieldUpdates
  <2>2. /\ noping.init_command = 0 /\ noping.sync_callback = "complete_command"
        /\ noping.status_flags = seen.status_flags
    BY <1>1, <1>4, <1>6 DEF MachineType
  <2>3. SameData(seen, noping)
    BY <1>1, FieldsData
  <2> HIDE DEF noping
  <2> DEFINE p == CdControlF(noping, "Nop", 0)
  <2>4. SameView(noping, p) /\ SameData(noping, p)
    BY <2>1, CdControlFView, CdControlFData
  <2> HIDE DEF p
  <2>5. Works(noping, p)
    BY <2>2, <2>4 DEF Works, Remembers, SameView, SameMode, SameStep, SameSlots
  <2> QED BY <2>2, <2>3, <2>5, WorksFrom DEF p
<1>10. Works(seen, seen)
  BY <1>4, <1>6 DEF Works, Remembers, SameData
<1>11. Works(seen, RetireSeek(seen))
  BY <1>1, <1>6, RetireSeekWorks
<1>12. Works(seen, DispatchHead(seen))
  <2>1. HeadItem(seen).command \in {"ReadN", "SeekL"}
    BY <1>1, <1>6, HeadIsRequest
  <2>2. DispatchHead(seen) = RunQueued(seen, HeadItem(seen).command)
    BY <2>1 DEF DispatchHead
  <2>3. DispatchHead(seen) = RunCommand(seen, head, "ASYNC")
    BY <1>1, <1>4, <1>6, <2>1, <2>2, AsData
  <2> QED BY <1>8, <2>3
<1>13. Works(seen, n)
  <2> HIDE DEF head, noping
  <2>1. CASE ShellReported(m, shellOpen)
    BY <1>5, <1>7, <2>1 DEF ShellReported
  <2>2. CASE m.current_command = "Nop" /\ ~ShellReported(m, shellOpen) /\ ~complete
    BY <1>5, <1>8, <2>2
  <2>3. CASE m.current_command # "Nop" /\ ~complete /\ ~ShellReported(m, shellOpen)
    BY <1>5, <1>9, <2>3
  <2>4. CASE complete /\ ~ShellReported(m, shellOpen)
    BY <1>5, <1>10, <1>11, <1>12, <2>4
  <2> QED BY <2>1, <2>2, <2>3, <2>4
<1>14. Works(m, n)
  BY <1>2, <1>4, <1>13, WorksFrom
<1> QED BY <1>14 DEF n

(* The Nop that finds the shell open ends in an error. *)
LEMMA ShellReportedFails ==
    ASSUME NEW m \in MachineType, m.current_command = "Nop", NEW complete \in BOOLEAN
    PROVE  Failing(CompleteCommand(m, complete, TRUE))
<1> DEFINE seen == [m EXCEPT !.sync_complete = TRUE]
<1>1. CompleteCommand(m, complete, TRUE) = HandleSyncError(seen)
  BY DEF CompleteCommand, ShellReported
<1>2. seen \in MachineType
  BY FieldUpdates
<1> HIDE DEF seen
<1> QED BY <1>1, <1>2, HandleSyncErrorWorks

-----------------------------------------------------------------------------
(* The sync callback of pauses, reconfiguration and recovery. *)

LEMMA EndStepWorks ==
    ASSUME NEW m \in MachineType
    PROVE  Works(m, EndStep(m))
<1> DEFINE n == EndStep(m)
<1>1. SameData(m, n)
  BY DEF EndStep, SameData, MachineType
<1>2. n.init_command = 0 /\ n.sync_callback = "none" /\ n.status_flags = m.status_flags
  BY EndStepView DEF SameMode
<1> HIDE DEF n
<1>3. Works(m, n)
  BY <1>1, <1>2 DEF Works, Remembers
<1> QED BY <1>3 DEF n

LEMMA EndStepAtWorks ==
    ASSUME NEW m \in MachineType, NEW state \in InitStates
    PROVE  Works(m, EndStepAt(m, state))
<1> DEFINE ended == EndStep(m)
           n == EndStepAt(m, state)
<1>1. ended \in MachineType /\ Works(m, ended)
  BY EndStepType, EndStepWorks
<1>2. n = [ended EXCEPT !.init_state = state]
  BY DEF EndStepAt
<1> HIDE DEF ended, n
<1>3. /\ SameData(ended, n)
      /\ n.init_command = ended.init_command /\ n.sync_callback = ended.sync_callback
      /\ n.status_flags = ended.status_flags
  BY <1>1, <1>2 DEF SameData, MachineType
<1>4. Works(m, n)
  BY <1>1, <1>3, SameDataTransitive DEF Works, Remembers
<1> QED BY <1>4 DEF n

LEMMA FinishReconfigurationWorks ==
    ASSUME NEW m \in MachineType
    PROVE  Works(m, FinishReconfiguration(m))
<1> DEFINE at == EndStepAt(m, IDLE)
           n == FinishReconfiguration(m)
<1>1. at \in MachineType /\ Works(m, at)
  BY EndStepAtType, EndStepAtWorks, StateValues
<1>2. n = [at EXCEPT !.status_flags = @ \ {"RECOVERY_PENDING"}]
  BY DEF FinishReconfiguration
<1> HIDE DEF at, n
<1>3. /\ SameData(at, n)
      /\ n.init_command = at.init_command /\ n.sync_callback = at.sync_callback
      /\ n.status_flags = at.status_flags \ {"RECOVERY_PENDING"}
  BY <1>1, <1>2 DEF SameData, MachineType
<1>4. Works(m, n)
  BY <1>1, <1>3, SameDataTransitive DEF Works, Remembers, ErrorFlags
<1> QED BY <1>4 DEF n

LEMMA AfterPauseWorks ==
    ASSUME NEW m \in MachineType, Roles(m)
    PROVE  Works(m, AfterPause(m))
<1> DEFINE command == HeadItem(m).command
           next == [m EXCEPT !.init_command = 0,
                             !.sync_callback = "complete_command",
                             !.playback_state = FALSE,
                             !.transfer_callback = NULL]
           n == RunCommand(next, command, "ASYNC")
<1>1. CASE IsEmpty(m)
  BY <1>1, EndStepWorks DEF AfterPause
<1>2. CASE ~IsEmpty(m)
  <2>1. DataQueued(m) /\ command \in {"ReadN", "SeekL"}
    BY <1>2, HeadIsRequest DEF Roles
  <2>2. AsMovie(m, command) = m
    BY <2>1, AsData
  <2>3. AfterPause(m) = n
    BY <1>2, <2>2 DEF AfterPause
  <2>4. next \in MachineType
    BY StepValues, ZenonT(30) DEF MachineType
  <2>5. /\ SameQueue(m, next) /\ SameMode(m, next) /\ SameData(m, next)
        /\ next.sync_callback = "complete_command" /\ next.init_command = 0
    BY DEF SameQueue, SameMode, SameData, MachineType
  <2> HIDE DEF next
  <2>6. DataQueued(next)
    <3>1. next.audio_enabled = FALSE /\ next.data_ready_pending = FALSE
      BY <2>1, <2>5 DEF DataQueued, SameMode
    <3> QED BY <2>1, <2>5, <3>1, DataQueuedSame
  <2>7. ~IsEmpty(next) /\ HeadItem(next) = HeadItem(m)
    BY <1>2, <2>5, QueueSame
  <2> DEFINE q == RunCommand(next, HeadItem(next).command, "ASYNC")
  <2>8. Works(next, q)
    BY <2>4, <2>5, <2>6, <2>7, RunCommandWorks
  <2>9. q = n
    BY <2>7
  <2> HIDE DEF q, n
  <2> QED BY <2>3, <2>5, <2>8, <2>9, WorksFrom DEF SameMode
<1> QED BY <1>1, <1>2

(* A command of the step under way goes out. *)
LEMMA SentCarries ==
    ASSUME NEW m \in MachineType, m.sync_callback = "handle_recovery_sync",
           NEW command \in Commands, command # "None", NEW location
    PROVE  /\ Carries(m, CdControlF(m, command, location))
           /\ SameData(m, CdControlF(m, command, location))
<1> DEFINE n == CdControlF(m, command, location)
<1>1. /\ n.status_flags = m.status_flags /\ n.sync_callback = m.sync_callback
      /\ n.init_command = m.init_command
      /\ n.issued # "None" \/ n.waiting # "None"
  BY CdControlFFields
<1>2. SameData(m, n)
  BY CdControlFData
<1> HIDE DEF n
<1>3. Carries(m, n)
  BY <1>1, RemembersLasts DEF Carries, Settled, Finishing, Remembers
<1> QED BY <1>2, <1>3 DEF n

LEMMA CarriesFrom ==
    ASSUME NEW m, NEW p, NEW n, SameData(m, p), p.status_flags = m.status_flags,
           p.init_command = m.init_command, Carries(p, n), SameData(p, n)
    PROVE  Carries(m, n) /\ SameData(m, n)
BY SameDataTransitive DEF Carries, Finishing, Lasts, Failing, HasFlag

LEMMA NextStepCarries ==
    ASSUME NEW m \in MachineType, m.sync_callback = "handle_recovery_sync",
           m.init_command \in {2, 17, 18}, NEW command \in Commands, command # "None"
    PROVE  Carries(m, NextStep(m, command)) /\ SameData(m, NextStep(m, command))
<1> DEFINE next == m.init_command + 1
           p == [m EXCEPT !.init_command = next]
           n == CdControlF(p, command, 0)
<1>1. NextStep(m, command) = n
  BY DEF NextStep
<1>2. next \in InitCommands /\ next # RECOVERY_COMPLETE
  BY DEF InitCommands, RECOVERY_COMPLETE
<1> HIDE DEF next
<1>3. p \in MachineType /\ SameData(m, p)
  BY <1>2, FieldUpdates, FieldsData
<1>4. /\ p.init_command = next /\ p.sync_callback = "handle_recovery_sync"
      /\ p.status_flags = m.status_flags
  BY DEF MachineType
<1> HIDE DEF p
<1>5. Carries(p, n) /\ SameData(p, n)
  BY <1>3, <1>4, SentCarries
<1> HIDE DEF n
<1>6. Carries(m, n)
  BY <1>2, <1>4, <1>5 DEF Carries, Finishing, Lasts, Failing, HasFlag
<1> QED BY <1>1, <1>3, <1>5, <1>6, SameDataTransitive

LEMMA FinishRecoveryCarries ==
    ASSUME NEW m \in MachineType, m.init_command = RECOVERY_COMPLETE
    PROVE  Carries(m, FinishRecovery(m)) /\ SameData(m, FinishRecovery(m))
<1> DEFINE cleared == ClearErrors(m)
           clean == [cleared EXCEPT !.init_command = 0, !.init_state = IDLE, !.retry_counter = 0]
           idle == [clean EXCEPT !.sync_callback = "none"]
           next == [clean EXCEPT !.current_command = "Nop", !.sync_callback = "complete_command"]
           sent == CdControlF(next, "Nop", 0)
           n == FinishRecovery(m)
<1>1. n = IF IsEmpty(m) THEN idle ELSE sent
  BY DEF FinishRecovery
<1>2. cleared \in MachineType /\ SameData(m, cleared)
  <2>1. SameData(m, cleared)
    BY DEF ClearErrors, SameData, MachineType
  <2> QED BY <2>1, ClearErrorsType
<1> HIDE DEF cleared, n
<1>3. clean \in MachineType /\ SameData(cleared, clean) /\ clean.init_command = 0
  <2>1. clean \in MachineType
    BY <1>2, StepValues, StateValues, ZenonT(30) DEF MachineType
  <2>2. SameData(cleared, clean) /\ clean.init_command = 0
    BY <1>2 DEF SameData, MachineType
  <2> QED BY <2>1, <2>2
<1> HIDE DEF clean
<1>4. SameData(clean, idle) /\ idle.init_command = 0 /\ idle.sync_callback = "none"
  BY <1>3 DEF SameData, MachineType
<1>5. /\ next \in MachineType /\ SameData(clean, next)
      /\ next.init_command = 0 /\ next.sync_callback = "complete_command"
  <2>1. next \in MachineType
    BY <1>3, CommandValues, ZenonT(30) DEF MachineType
  <2>2. SameData(clean, next) /\ next.init_command = 0 /\ next.sync_callback = "complete_command"
    BY <1>3 DEF SameData, MachineType
  <2> QED BY <2>1, <2>2
<1> HIDE DEF idle, next
<1>6. SameData(next, sent) /\ sent.init_command = 0 /\ sent.sync_callback = "complete_command"
  BY <1>5, CdControlFData, CdControlFView DEF SameView, SameStep, SameSlots
<1> HIDE DEF sent
<1>7. n.init_command = 0 /\ n.sync_callback \in {"none", "complete_command"} /\ SameData(m, n)
  BY <1>1, <1>2, <1>3, <1>4, <1>5, <1>6, SameDataTransitive
<1>8. Carries(m, n)
  BY <1>7 DEF Carries, Settled, Finishing, Lasts, RECOVERY_COMPLETE
<1> QED BY <1>7, <1>8 DEF n

LEMMA StepDoneCarries ==
    ASSUME NEW m \in MachineType, Roles(m), m.sync_callback = "handle_recovery_sync"
    PROVE  Carries(m, StepDone(m)) /\ SameData(m, StepDone(m))
<1>1. m.init_command # 0
  BY DEF Roles, Stepped
<1>2. m.init_command \in {1, 2, 3, 16, 17, 18, 19, 32, 33, 34, 35}
  BY <1>1, StepFacts
<1>3. CASE m.init_command \in {PAUSE, RESTORE_MODE}
  <2>1. StepDone(m) = AfterPause(m)
    BY <1>3 DEF StepDone, AUDIO_PAUSE, STEP_SET_FILTER, STEP_DEMUTE, STEP_PAUSE, STEP_COMPLETE,
       PAUSE, RESTORE_MODE, RECOVERY_SET_MODE, RECOVERY_READ_DISC_ID, RECOVERY_RETRY_READ,
       RECOVERY_COMPLETE
  <2> QED BY <2>1, AfterPauseWorks, WorksCarries
<1>4. CASE m.init_command \in {AUDIO_PAUSE, STEP_DEMUTE, STEP_PAUSE}
  <2>1. m.init_command \in {2, 17, 18}
    BY <1>4, StepNumbers
  <2>2. StepDone(m) \in {NextStep(m, "Setmode"), NextStep(m, "Demute"), NextStep(m, "Pause")}
    BY <1>4, StepNumbers DEF StepDone
  <2> QED BY <2>1, <2>2, NextStepCarries, CommandValues
<1>5. CASE m.init_command = STEP_SET_FILTER
  <2>1. StepDone(m) = EndStepAt(m, RECONF_SET_FILTER)
    BY <1>5, StepNumbers DEF StepDone
  <2>2. RECONF_SET_FILTER \in InitStates
    BY StateValues
  <2> QED BY <2>1, <2>2, EndStepAtWorks, WorksCarries
<1>6. CASE m.init_command = STEP_COMPLETE
  <2>1. StepDone(m) = FinishReconfiguration(m)
    BY <1>6, StepNumbers DEF StepDone
  <2> QED BY <2>1, FinishReconfigurationWorks, WorksCarries
<1>7. CASE m.init_command = RECOVERY_READ_DISC_ID
  <2>1. StepDone(m) = EndStep(m)
    BY <1>7, StepNumbers DEF StepDone
  <2> QED BY <2>1, EndStepWorks, WorksCarries
<1>8. CASE m.init_command \in {RECOVERY_SET_MODE, RECOVERY_RETRY_READ}
  <2>1. StepDone(m) = EndStepAt(m, READ_DISC_ID)
    BY <1>8, StepNumbers DEF StepDone
  <2>2. READ_DISC_ID \in InitStates
    BY StateValues
  <2> QED BY <2>1, <2>2, EndStepAtWorks, WorksCarries
<1>9. CASE m.init_command = RECOVERY_COMPLETE
  <2>1. StepDone(m) = FinishRecovery(m)
    BY <1>9, StepNumbers DEF StepDone
  <2> QED BY <1>9, <2>1, FinishRecoveryCarries
<1> QED BY <1>2, <1>3, <1>4, <1>5, <1>6, <1>7, <1>8, <1>9, StepNumbers

LEMMA StepFailedTwiceCarries ==
    ASSUME NEW m \in MachineType, Roles(m), m.sync_callback = "handle_recovery_sync"
    PROVE  Carries(m, StepFailedTwice(m)) /\ SameData(m, StepFailedTwice(m))
<1>1. m.init_command # 0
  BY DEF Roles, Stepped
<1>2. m.init_command \in {1, 2, 3, 16, 17, 18, 19, 32, 33, 34, 35}
  BY <1>1, StepFacts
<1>3. CASE m.init_command \in {STEP_SET_FILTER, RECOVERY_RETRY_READ, RECOVERY_SET_MODE,
                              RECOVERY_COMPLETE}
  <2>1. StepFailedTwice(m) \in
          {EndStepAt(m, RECONF_SET_MODE), EndStepAt(m, READ_DISC_ID), EndStepAt(m, SET_MODE)}
    BY <1>3, StepNumbers DEF StepFailedTwice
  <2>2. {RECONF_SET_MODE, READ_DISC_ID, SET_MODE} \subseteq InitStates
    BY StateValues
  <2>3. \A state \in InitStates :
          Carries(m, EndStepAt(m, state)) /\ SameData(m, EndStepAt(m, state))
    BY EndStepAtWorks, WorksCarries
  <2> QED BY <2>1, <2>2, <2>3
<1>4. CASE m.init_command \in {1, 2, 3, 17, 18, 19, 33}
  <2>1. StepFailedTwice(m) \in
          {CdControlF(m, "Setmode", 0), CdControlF(m, "Setfilter", 0), CdControlF(m, "Demute", 0),
           CdControlF(m, "Pause", 0), CdControlF(m, "ReadN", ValidationLocation)}
    BY <1>4, StepNumbers DEF StepFailedTwice
  <2> QED BY <2>1, SentCarries, CommandValues
<1> QED BY <1>2, <1>3, <1>4, StepNumbers

(* The drive rejects the disc, which is then still the wrong one. *)
LEMMA RejectedCarries ==
    ASSUME NEW m \in MachineType, Roles(m), m.sync_callback = "handle_recovery_sync",
           m.init_command = RECOVERY_READ_DISC_ID, NEW retry \in BOOLEAN
    PROVE  LET n == [[Disarm(m) EXCEPT !.init_state = ERROR_PAUSE,
                                       !.init_command = 0,
                                       !.init_retry = FALSE,
                                       !.status_flags = @ \ {"NO_DISC"}]
                        EXCEPT !.init_retry = retry]
           IN /\ Carries(m, n) /\ SameData(m, n)
              /\ Carries(m, CdControlF(n, "Nop", 0)) /\ SameData(m, CdControlF(n, "Nop", 0))
<1> DEFINE off == Disarm(m)
           refused == [off EXCEPT !.init_state = ERROR_PAUSE,
                                  !.init_command = 0,
                                  !.init_retry = FALSE,
                                  !.status_flags = @ \ {"NO_DISC"}]
           n == [refused EXCEPT !.init_retry = retry]
           p == CdControlF(n, "Nop", 0)
<1>1. off \in MachineType /\ SameData(m, off)
  BY DisarmType, DisarmData
<1>2. off.sync_callback = "none" /\ off.status_flags = m.status_flags
  BY DEF Disarm, MachineType
<1> HIDE DEF off
<1>3. refused \in MachineType
  <2>1. off.status_flags \ {"NO_DISC"} \in SUBSET Flags
    BY <1>1 DEF MachineType
  <2> QED BY <1>1, <2>1, StateValues, StepValues, ZenonT(30) DEF MachineType
<1>4. /\ SameData(off, refused)
      /\ refused.sync_callback = "none" /\ refused.init_command = 0
      /\ refused.status_flags = m.status_flags \ {"NO_DISC"}
  BY <1>1, <1>2 DEF SameData, MachineType
<1> HIDE DEF refused
<1>5. /\ n \in MachineType /\ SameData(refused, n)
      /\ n.sync_callback = "none" /\ n.init_command = 0
      /\ n.status_flags = m.status_flags \ {"NO_DISC"}
  <2>1. n \in MachineType
    BY <1>3, FieldUpdates
  <2> QED BY <1>3, <1>4, <2>1 DEF SameData, MachineType
<1> HIDE DEF n
<1>6. /\ SameData(n, p)
      /\ p.sync_callback = "none" /\ p.init_command = 0
      /\ p.status_flags = m.status_flags \ {"NO_DISC"}
  BY <1>5, CdControlFData, CdControlFFields, CommandValues
<1> HIDE DEF p
<1>7. "INVALID_DISC" \in m.status_flags
  BY StepNumbers DEF Roles, Recording
<1>8. Carries(m, n) /\ Carries(m, p)
  BY <1>5, <1>6, <1>7 DEF Carries, Settled, Finishing, Lasts, Failing, HasFlag, ErrorFlags,
     RECOVERY_COMPLETE
<1>9. SameData(m, n) /\ SameData(m, p)
  BY <1>1, <1>4, <1>5, <1>6, SameDataTransitive
<1> QED BY <1>8, <1>9 DEF n, p, refused, off

LEMMA HandleRecoverySyncCarries ==
    ASSUME NEW m \in MachineType, Roles(m), m.sync_callback = "handle_recovery_sync",
           NEW complete \in BOOLEAN, NEW shellOpen \in BOOLEAN, NEW rejected \in BOOLEAN
    PROVE  LET n == HandleRecoverySync(m, complete, shellOpen, rejected)
           IN Carries(m, n) /\ SameData(m, n)
<1> DEFINE seen == [m EXCEPT !.sync_complete = TRUE]
           refused == [Disarm(seen) EXCEPT !.init_state = ERROR_PAUSE,
                                           !.init_command = 0,
                                           !.init_retry = FALSE,
                                           !.status_flags = @ \ {"NO_DISC"}]
           checked == IF m.init_command = RECOVERY_READ_DISC_ID /\ rejected THEN refused ELSE seen
           off(retry) == [refused EXCEPT !.init_retry = retry]
           heard(retry) == [seen EXCEPT !.init_retry = retry]
           lidOpened == m.init_retry /\ "RECOVERY_PENDING" \notin m.status_flags /\ shellOpen
           n == HandleRecoverySync(m, complete, shellOpen, rejected)
<1>1. n = IF lidOpened THEN HandleSyncError(seen)
          ELSE IF complete THEN StepDone([checked EXCEPT !.init_retry = FALSE])
          ELSE IF checked.init_retry THEN StepFailedTwice([checked EXCEPT !.init_retry = FALSE])
          ELSE CdControlF([checked EXCEPT !.init_retry = TRUE], "Nop", 0)
  BY DEF HandleRecoverySync
<1>2. seen \in MachineType /\ SameView(m, seen) /\ SameLine(m, seen) /\ SameData(m, seen)
  BY FieldUpdates, OtherFields, FieldsData
<1>3. Roles(seen) /\ seen.sync_callback = "handle_recovery_sync"
      /\ seen.init_command = m.init_command /\ seen.status_flags = m.status_flags
  BY <1>2, ViewRoles DEF SameView, SameSlots, SameStep, SameMode
<1>4. Carries(seen, HandleSyncError(seen)) /\ SameData(seen, HandleSyncError(seen))
  BY <1>2, HandleSyncErrorWorks, WorksCarries
<1>5. m.init_command = RECOVERY_READ_DISC_ID =>
        \A retry \in BOOLEAN :
            /\ refused.init_retry = FALSE
            /\ Carries(seen, off(retry)) /\ SameData(seen, off(retry))
            /\ Carries(seen, CdControlF(off(retry), "Nop", 0))
            /\ SameData(seen, CdControlF(off(retry), "Nop", 0))
            /\ off(retry).init_command = 0
  BY <1>2, <1>3, RejectedCarries, RejectedKept
<1>6. ASSUME NEW retry \in BOOLEAN
      PROVE  /\ heard(retry) \in MachineType /\ Roles(heard(retry))
             /\ heard(retry).sync_callback = "handle_recovery_sync"
             /\ heard(retry).init_command = seen.init_command
             /\ heard(retry).status_flags = seen.status_flags
             /\ SameData(seen, heard(retry))
  <2>1. /\ heard(retry) \in MachineType /\ Kept(seen, heard(retry))
        /\ SameMode(seen, heard(retry)) /\ SameSlots(seen, heard(retry))
        /\ heard(retry).init_command = seen.init_command
    BY <1>2, <1>3, RetryKept
  <2>2. SameData(seen, heard(retry))
    BY <1>2, FieldsData
  <2> QED BY <1>3, <2>1, <2>2 DEF Kept, SameMode, SameSlots
<1> HIDE DEF n, seen, refused, off, heard
<1>7. ASSUME Carries(seen, n), SameData(seen, n)
      PROVE  Carries(m, n) /\ SameData(m, n)
  BY <1>2, <1>3, <1>7, CarriesFrom
<1>8. CASE m.init_command = RECOVERY_READ_DISC_ID /\ rejected /\ ~lidOpened
  <2>1. refused.init_retry = FALSE
    BY <1>5, <1>8
  <2>2. StepDone(off(FALSE)) = off(FALSE)
    <3>1. off(FALSE).init_command = 0
      BY <1>5, <1>8
    <3> QED BY <3>1, NoStepDone
  <2>3. n = IF complete THEN StepDone(off(FALSE)) ELSE CdControlF(off(TRUE), "Nop", 0)
    BY <1>1, <1>8, <2>1 DEF off
  <2>4. Carries(seen, n) /\ SameData(seen, n)
    BY <1>5, <1>8, <2>2, <2>3
  <2> QED BY <1>7, <2>4 DEF n
<1>9. CASE ~(m.init_command = RECOVERY_READ_DISC_ID /\ rejected) /\ ~lidOpened
  <2>1. n = IF complete THEN StepDone(heard(FALSE))
            ELSE IF seen.init_retry THEN StepFailedTwice(heard(FALSE))
            ELSE CdControlF(heard(TRUE), "Nop", 0)
    BY <1>1, <1>9 DEF heard
  <2> DEFINE done == StepDone(heard(FALSE))
             failed == StepFailedTwice(heard(FALSE))
             asked == CdControlF(heard(TRUE), "Nop", 0)
  <2>2. Carries(heard(FALSE), done) /\ SameData(heard(FALSE), done)
    BY <1>6, StepDoneCarries
  <2>3. Carries(heard(FALSE), failed) /\ SameData(heard(FALSE), failed)
    BY <1>6, StepFailedTwiceCarries
  <2>4. Carries(heard(TRUE), asked) /\ SameData(heard(TRUE), asked)
    BY <1>6, SentCarries, CommandValues
  <2> HIDE DEF done, failed, asked
  <2>5. Carries(seen, done) /\ SameData(seen, done)
    BY <1>6, <2>2, CarriesFrom
  <2>6. Carries(seen, failed) /\ SameData(seen, failed)
    BY <1>6, <2>3, CarriesFrom
  <2>7. Carries(seen, asked) /\ SameData(seen, asked)
    BY <1>6, <2>4, CarriesFrom
  <2>8. n \in {done, failed, asked}
    BY <2>1 DEF done, failed, asked
  <2>9. Carries(seen, n) /\ SameData(seen, n)
    BY <2>5, <2>6, <2>7, <2>8
  <2> QED BY <1>7, <2>9 DEF n
<1>10. CASE lidOpened
  <2>1. Carries(seen, n) /\ SameData(seen, n)
    BY <1>1, <1>4, <1>10
  <2> QED BY <1>7, <2>1 DEF n
<1> QED BY <1>8, <1>9, <1>10

(* Whatever answer comes, whatever callback it goes to. *)
LEMMA SyncCallbackCarries ==
    ASSUME TypeOK, NEW m \in MachineType, Roles(m),
           m.sync_callback = "none" => m.init_command = 0, NEW complete \in BOOLEAN
    PROVE  Carries(m, SyncCallback(m, complete)) /\ SameData(m, SyncCallback(m, complete))
<1>1. ShellOpen \in BOOLEAN /\ Rejected \in BOOLEAN
  BY DEF ShellOpen, Rejected
<1>2. CASE m.sync_callback = "complete_command"
  <2>1. SyncCallback(m, complete) = CompleteCommand(m, complete, ShellOpen)
    BY <1>2 DEF SyncCallback
  <2> QED BY <1>1, <1>2, <2>1, CompleteCommandWorks, WorksCarries
<1>3. CASE m.sync_callback = "handle_recovery_sync"
  <2>1. SyncCallback(m, complete) = HandleRecoverySync(m, complete, ShellOpen, Rejected)
    BY <1>3 DEF SyncCallback
  <2> QED BY <1>1, <1>3, <2>1, HandleRecoverySyncCarries
<1>4. CASE m.sync_callback = "none"
  <2>1. SyncCallback(m, complete) = m
    BY <1>4 DEF SyncCallback
  <2>2. Carries(m, m) /\ SameData(m, m)
    BY <1>4 DEF Carries, Settled, Lasts, SameData
  <2> QED BY <2>1, <2>2
<1>5. m.sync_callback \in {"none", "complete_command", "handle_recovery_sync"}
  BY DEF MachineType
<1> QED BY <1>2, <1>3, <1>4, <1>5

-----------------------------------------------------------------------------
(* The ready callbacks. *)

(* A sector taken does not make the drive start or stop by itself. *)
Receives(m, n) == Carries(m, n) /\ n.reading = m.reading

LEMMA ReceivesFrom ==
    ASSUME NEW m, NEW p, NEW n, p.reading = m.reading, p.status_flags = m.status_flags,
           p.init_command = m.init_command, Receives(p, n)
    PROVE  Receives(m, n)
BY DEF Receives, Carries, Finishing, Lasts, Failing, HasFlag

(* The queue keeps the sync slot. *)
LEMMA StillWorks ==
    ASSUME NEW m, NEW n, n.sync_callback = "complete_command", n.init_command = m.init_command,
           n.status_flags = m.status_flags, n.reading = m.reading
    PROVE  Receives(m, n)
BY DEF Receives, Carries, Settled, Finishing, Lasts, Failing, HasFlag

LEMMA RetireReadReceives ==
    ASSUME NEW m \in MachineType, Working(m), ~IsEmpty(m)
    PROVE  Receives(m, RetireRead(m, FALSE))
<1> DEFINE retired == Retire(m)
           n == RetireRead(m, FALSE)
<1>1. DataQueued(m)
  BY DEF Working
<1>2. /\ retired \in MachineType /\ DataQueued(retired)
      /\ SameMode(m, retired) /\ SameStep(m, retired) /\ SameSlots(m, retired)
  BY <1>1, RetireType, RetireFields
<1>3. SameData(m, retired)
  BY RetireData
<1>4. n = IF IsEmpty(retired) THEN PauseDrive(retired, PAUSE)
          ELSE RunCommand(retired, HeadItem(retired).command, "COMMAND_THEN_READ")
  BY DEF RetireRead
<1> HIDE DEF retired, n
<1>5. retired.sync_callback = "complete_command" /\ retired.init_command = 0
  BY <1>2 DEF Working, SameSlots, SameStep
<1>6. Receives(retired, n)
  <2>1. CASE IsEmpty(retired)
    <3> DEFINE p == [retired EXCEPT !.init_command = PAUSE,
                                    !.init_retry = FALSE,
                                    !.sync_callback = "handle_recovery_sync",
                                    !.ready_callback = "none",
                                    !.current_command = "None",
                                    !.retry_counter = 0]
    <3>1. n = CdControlF(p, "Pause", 0)
      BY <1>4, <2>1 DEF PauseDrive
    <3>2. p \in MachineType
      BY <1>2, CommandValues, StepValues, ZenonT(30) DEF MachineType
    <3>3. /\ p.init_command = PAUSE /\ p.sync_callback = "handle_recovery_sync"
          /\ p.status_flags = retired.status_flags /\ p.reading = retired.reading
      BY <1>2 DEF MachineType
    <3> HIDE DEF p
    <3>4. Carries(p, n) /\ SameData(p, n)
      BY <3>1, <3>2, <3>3, SentCarries, CommandValues
    <3>5. ~Finishing(p)
      BY <3>3 DEF Finishing, PAUSE, RECOVERY_COMPLETE
    <3> QED BY <3>3, <3>4, <3>5 DEF Receives, Carries, SameData, Lasts, Failing, HasFlag
  <2>2. CASE ~IsEmpty(retired)
    <3>1. Works(retired, n)
      BY <1>2, <1>4, <1>5, <2>2, RunCommandWorks
    <3> QED BY <3>1, WorksCarries DEF Receives, SameData
  <2> QED BY <2>1, <2>2
<1>7. Receives(m, n)
  BY <1>2, <1>3, <1>6, ReceivesFrom DEF SameData, SameMode, SameStep
<1> QED BY <1>7 DEF n

LEMMA ProcessDataSectorReceives ==
    ASSUME NEW m \in MachineType, Roles(m), m.sync_callback = "complete_command",
           NEW accept \in BOOLEAN
    PROVE  Receives(m, ProcessDataSector(m, FALSE, accept))
<1> DEFINE direct == m.transfer_callback = NULL
           stored == IF direct THEN StoreSector(m, m.write_ptr.buffer, m.write_ptr.offset)
                     ELSE StoreSector(m, m.transfer_callback, m.total_data - m.read_remaining)
           again == CdControlF(m, m.current_command, m.current_location)
           offset == IF direct THEN stored.write_ptr.offset + 1 ELSE stored.write_ptr.offset
           more == [stored EXCEPT !.current_location = @ + 1,
                                  !.read_remaining = @ - 1,
                                  !.write_ptr.offset = offset]
<1>1. ProcessDataSector(m, FALSE, accept) =
        IF ~direct /\ ~accept THEN again
        ELSE IF MoreToCome(m) THEN more ELSE RetireRead(stored, FALSE)
  BY DEF ProcessDataSector
<1>2. Receives(m, again)
  <2>1. /\ again.sync_callback = "complete_command" /\ again.init_command = m.init_command
        /\ again.status_flags = m.status_flags /\ again.reading = m.reading
    BY DEF CdControlF, MachineType
  <2> QED BY <2>1, StillWorks
<1>3. stored \in MachineType /\ SameView(m, stored)
  BY StoreSectorType, StoreSectorView
<1>4. stored.reading = m.reading
  BY DEF StoreSector, MachineType
<1> HIDE DEF stored, direct, again, offset
<1>5. /\ stored.sync_callback = "complete_command" /\ stored.init_command = m.init_command
      /\ stored.status_flags = m.status_flags
  BY <1>3 DEF SameView, SameSlots, SameStep, SameMode
<1>6. /\ more.sync_callback = "complete_command" /\ more.init_command = m.init_command
      /\ more.status_flags = m.status_flags /\ more.reading = m.reading
  BY <1>3, <1>4, <1>5 DEF MachineType
<1> HIDE DEF more
<1>7. Receives(m, more)
  BY <1>6, StillWorks
<1>8. Roles(stored)
  BY <1>3, ViewRoles
<1>9. Receives(stored, RetireRead(stored, FALSE))
  BY <1>3, <1>5, <1>8, WorkingFrom, RetireReadReceives
<1>10. Receives(m, RetireRead(stored, FALSE))
  BY <1>4, <1>5, <1>9, ReceivesFrom
<1> QED BY <1>1, <1>2, <1>7, <1>10

LEMMA ProcessSectorReceives ==
    ASSUME NEW m \in MachineType, Roles(m), m.sync_callback = "complete_command",
           NEW accept \in BOOLEAN
    PROVE  Receives(m, ProcessSector(m, FALSE, accept))
<1> DEFINE fresh == [m EXCEPT !.retry_count = 0,
                              !.retry_exhausted = FALSE,
                              !.data_ready_pending = FALSE]
<1>1. m.audio_enabled = FALSE /\ m.data_ready_pending = FALSE
  BY DEF Roles, DataQueued
<1>2. ProcessSector(m, FALSE, accept) = ProcessDataSector(fresh, FALSE, accept)
  BY <1>1 DEF ProcessSector
<1>3. fresh \in MachineType
  BY NumberValues, ZenonT(30) DEF MachineType
<1>4. SameView(m, fresh) /\ fresh.reading = m.reading
  BY <1>1 DEF SameView, SameQueue, SameMode, SameStep, SameSlots, MachineType
<1> HIDE DEF fresh
<1>5. Roles(fresh) /\ fresh.sync_callback = "complete_command"
      /\ fresh.status_flags = m.status_flags /\ fresh.init_command = m.init_command
  BY <1>4, ViewRoles DEF SameView, SameSlots, SameMode, SameStep
<1>6. Receives(fresh, ProcessDataSector(fresh, FALSE, accept))
  BY <1>3, <1>5, ProcessDataSectorReceives
<1> QED BY <1>2, <1>4, <1>5, <1>6, ReceivesFrom

(* A retry stores nothing. *)
LEMMA RetrySectorReceives ==
    ASSUME NEW m \in MachineType, m.sync_callback = "complete_command"
    PROVE  LET n == RetrySector(m)
               off == [n EXCEPT !.ready_callback = "none"]
           IN /\ Receives(m, n) /\ n.memory = m.memory
              /\ Receives(m, off) /\ off.memory = m.memory
<1> DEFINE resume == Resumable(m)
           given == [m EXCEPT !.retry_exhausted = TRUE,
                              !.retry_count = 0,
                              !.playback_state = resume,
                              !.current_command = "Nop"]
           once == [m EXCEPT !.retry_count = @ + 1]
           p == IF GivesUp(m) THEN given ELSE once
           n == RetrySector(m)
           off == [n EXCEPT !.ready_callback = "none"]
<1>1. n \in {CdControlF(p, "Nop", 0), CdControlF(p, m.current_command, m.current_location)}
  BY DEF RetrySector, GiveUpSector
<1>2. p \in MachineType
  <2>1. resume \in BOOLEAN
    BY DEF Resumable
  <2> HIDE DEF resume
  <2>2. given \in MachineType
    BY <2>1, NumberValues, CommandValues, ZenonT(30) DEF MachineType
  <2>3. ~GivesUp(m) => once \in MachineType
    BY RetryCountType
  <2> QED BY <2>2, <2>3
<1>3. /\ p.sync_callback = "complete_command" /\ p.init_command = m.init_command
      /\ p.status_flags = m.status_flags /\ SameData(m, p)
  BY DEF SameData, MachineType
<1> HIDE DEF p, n
<1>4. /\ n.sync_callback = "complete_command" /\ n.init_command = m.init_command
      /\ n.status_flags = m.status_flags /\ SameData(m, n)
  <2>1. SameView(p, n) /\ SameData(p, n)
    BY <1>1, <1>2, CdControlFView, CdControlFData
  <2> QED BY <1>3, <2>1, SameDataTransitive DEF SameView, SameSlots, SameStep, SameMode
<1>5. n \in MachineType
  BY <1>1, <1>2, CdControlFType, CommandValues, NumberValues DEF MachineType
<1>6. /\ off.sync_callback = "complete_command" /\ off.init_command = m.init_command
      /\ off.status_flags = m.status_flags /\ SameData(m, off)
  BY <1>4, <1>5 DEF SameData, MachineType
<1> HIDE DEF off
<1>7. Receives(m, n) /\ Receives(m, off)
  BY <1>4, <1>6, StillWorks DEF SameData
<1> QED BY <1>4, <1>6, <1>7 DEF SameData, n, off

LEMMA HandleReadyIntrReceives ==
    ASSUME NEW m \in MachineType, Roles(m), m.ready_callback = "handle_ready_intr",
           NEW dataReady \in BOOLEAN, NEW accept \in BOOLEAN, NEW decoding
    PROVE  LET n == HandleReadyIntr(m, dataReady, accept, decoding)
           IN Receives(m, n) /\ (~dataReady => n.memory = m.memory)
<1> DEFINE seen == [m EXCEPT !.sync_complete = TRUE]
           n == HandleReadyIntr(m, dataReady, accept, decoding)
<1>1. m.audio_enabled = FALSE /\ m.sync_callback = "complete_command"
  BY DEF Roles, DataQueued, Receiving
<1>2. n = HandleReadyData(seen, dataReady, accept)
  BY <1>1 DEF HandleReadyIntr
<1>3. seen \in MachineType /\ SameView(m, seen) /\ SameData(m, seen)
  BY FieldUpdates, OtherFields, FieldsData
<1> HIDE DEF seen, n
<1>4. Roles(seen) /\ seen.sync_callback = "complete_command"
      /\ seen.status_flags = m.status_flags /\ seen.init_command = m.init_command
      /\ seen.reading = m.reading /\ seen.memory = m.memory
  BY <1>1, <1>3, ViewRoles DEF SameView, SameSlots, SameMode, SameStep, SameData
<1>5. \/ dataReady /\ n = ProcessSector(seen, FALSE, accept)
      \/ n = [RetrySector(seen) EXCEPT !.ready_callback = "none"]
      \/ n = RetrySector(seen)
  BY <1>2 DEF HandleReadyData
<1>6. Receives(seen, ProcessSector(seen, FALSE, accept))
  BY <1>3, <1>4, ProcessSectorReceives
<1>7. Receives(seen, n) /\ (~dataReady => n.memory = seen.memory)
  BY <1>3, <1>4, <1>5, <1>6, RetrySectorReceives
<1>8. Receives(m, n)
  BY <1>4, <1>7, ReceivesFrom
<1> QED BY <1>4, <1>7, <1>8 DEF n

(* The validation sector: only the game's disc leads to the last step of recovery. *)
LEMMA VerifyDiscVerifies ==
    ASSUME NEW m \in MachineType, Roles(m), m.ready_callback = "verify_disc", Settled(m),
           NEW dataReady \in BOOLEAN, NEW genuine \in BOOLEAN
    PROVE  LET n == VerifyDisc(m, dataReady, genuine)
           IN /\ SameData(m, n) /\ Settled(n)
              /\ Failing(m) => Failing(n)
              /\ Finishing(n) => genuine
<1> DEFINE seen == [m EXCEPT !.sync_complete = TRUE, !.ready_callback = "none"]
           at(step) == [seen EXCEPT !.init_command = step,
                                    !.init_retry = FALSE,
                                    !.sync_callback = "handle_recovery_sync"]
           wrong == [seen EXCEPT !.init_state = ERROR_PAUSE, !.status_flags = @ \ {"NO_DISC"}]
           sent(step, command) == CdControlF(at(step), command, 0)
           n == VerifyDisc(m, dataReady, genuine)
<1>1. \/ n = sent(RECOVERY_RETRY_READ, "Pause")
      \/ genuine /\ n = sent(RECOVERY_COMPLETE, "Setmode")
      \/ n = wrong
  BY DEF VerifyDisc
<1>2. seen \in MachineType
  BY DEF MachineType
<1>3. /\ SameData(m, seen) /\ SameStep(m, seen)
      /\ seen.sync_callback = m.sync_callback /\ seen.status_flags = m.status_flags
      /\ seen.issued = m.issued /\ seen.waiting = m.waiting
  BY DEF SameData, SameStep, MachineType
<1> HIDE DEF seen
<1>4. m.init_command \in {0, RECOVERY_READ_DISC_ID} /\ "INVALID_DISC" \in m.status_flags
  BY StateNumbers DEF Roles, Recording, DiscUnknown
<1>5. ASSUME NEW step \in {RECOVERY_RETRY_READ, RECOVERY_COMPLETE}, NEW command \in Commands,
             command # "None"
      PROVE  LET p == sent(step, command)
             IN /\ SameData(m, p) /\ Settled(p)
                /\ Failing(m) => Failing(p)
                /\ Finishing(p) => step = RECOVERY_COMPLETE
  <2> DEFINE a == at(step)
             p == sent(step, command)
  <2>1. a \in MachineType
    <3>1. step \in InitCommands
      BY StepNumbers DEF InitCommands
    <3> QED BY <1>2, <3>1, ZenonT(30) DEF MachineType
  <2>2. /\ SameData(seen, a) /\ a.sync_callback = "handle_recovery_sync"
        /\ a.status_flags = seen.status_flags /\ a.init_command = step
    BY <1>2 DEF SameData, MachineType
  <2> HIDE DEF at
  <2>3. Settled(p) /\ SameData(a, p)
    BY <1>5, <2>1, <2>2, SentCarries DEF Carries
  <2>4. p.status_flags = a.status_flags /\ p.init_command = step
    BY <2>1, <2>2, <1>5, CdControlFFields
  <2> HIDE DEF p, a
  <2>5. Failing(m) => Failing(p)
    BY <1>3, <2>2, <2>4 DEF Failing, HasFlag
  <2>6. Finishing(p) => step = RECOVERY_COMPLETE
    BY <2>4 DEF Finishing
  <2>7. SameData(m, p)
    BY <1>3, <2>2, <2>3, SameDataTransitive
  <2> QED BY <2>3, <2>5, <2>6, <2>7 DEF p
<1>6. /\ SameData(m, wrong) /\ Settled(wrong) /\ Failing(wrong) /\ ~Finishing(wrong)
  <2>1. /\ SameData(seen, wrong) /\ SameStep(seen, wrong)
        /\ wrong.sync_callback = seen.sync_callback
        /\ wrong.issued = seen.issued /\ wrong.waiting = seen.waiting
        /\ "INVALID_DISC" \in wrong.status_flags
    BY <1>2, <1>3, <1>4 DEF SameData, SameStep, MachineType
  <2> HIDE DEF wrong
  <2>2. Settled(wrong)
    BY <1>3, <2>1 DEF Settled, SameStep
  <2>3. Failing(wrong) /\ ~Finishing(wrong)
    BY <1>3, <1>4, <2>1, StepNumbers DEF Failing, HasFlag, ErrorFlags, Finishing, SameStep
  <2> QED BY <1>3, <2>1, <2>2, <2>3, SameDataTransitive
<1> HIDE DEF wrong, sent, n
<1>7. CASE n = sent(RECOVERY_RETRY_READ, "Pause")
  <2>1. RECOVERY_RETRY_READ # RECOVERY_COMPLETE
    BY StepNumbers
  <2> QED BY <1>5, <1>7, <2>1, CommandValues DEF n
<1>8. CASE genuine /\ n = sent(RECOVERY_COMPLETE, "Setmode")
  BY <1>5, <1>8, CommandValues DEF n
<1>9. CASE n = wrong
  BY <1>6, <1>9 DEF n
<1> QED BY <1>1, <1>7, <1>8, <1>9

(***************************************************************************)
(* A sector, or a read error, whatever callback it goes to.  Only the      *)
(* ready callback of normal operation stores anything.                     *)
(***************************************************************************)
LEMMA ReadyCallbackReceives ==
    ASSUME NEW m \in MachineType, Roles(m), Settled(m),
           NEW dataReady \in BOOLEAN, NEW accept \in BOOLEAN, NEW decoding
    PROVE  LET n == ReadyCallback(m, dataReady, accept, decoding)
           IN /\ Settled(n) /\ Lasts(m, n)
              /\ Finishing(n) => Finishing(m) \/ Genuine
              /\ n.reading = m.reading
              /\ n.memory # m.memory => dataReady /\ m.ready_callback = "handle_ready_intr"
<1> DEFINE n == ReadyCallback(m, dataReady, accept, decoding)
<1>1. Genuine \in BOOLEAN
  BY DEF Genuine
<1>2. CASE m.ready_callback = "handle_ready_intr"
  <2>1. n = HandleReadyIntr(m, dataReady, accept, decoding)
    BY <1>2 DEF ReadyCallback
  <2> HIDE DEF n
  <2>2. Receives(m, n) /\ (~dataReady => n.memory = m.memory)
    BY <1>2, <2>1, HandleReadyIntrReceives
  <2> QED BY <1>2, <2>2 DEF Receives, Carries, n
<1>3. CASE m.ready_callback = "verify_disc"
  <2>1. n = VerifyDisc(m, dataReady, Genuine)
    BY <1>3 DEF ReadyCallback
  <2> HIDE DEF n
  <2>2. /\ SameData(m, n) /\ Settled(n)
        /\ Failing(m) => Failing(n)
        /\ Finishing(n) => Genuine
    BY <1>1, <1>3, <2>1, VerifyDiscVerifies
  <2>3. Lasts(m, n)
    BY <2>2 DEF Lasts
  <2> QED BY <2>2, <2>3 DEF SameData, n
<1>4. CASE m.ready_callback = "none"
  <2>1. n = m
    BY <1>4 DEF ReadyCallback
  <2>2. Lasts(m, m)
    BY DEF Lasts
  <2> HIDE DEF n
  <2> QED BY <2>1, <2>2 DEF n
<1>5. m.ready_callback \in {"none", "handle_ready_intr", "verify_disc"}
  BY DEF MachineType
<1> QED BY <1>2, <1>3, <1>4, <1>5

-----------------------------------------------------------------------------
(* One step of the system. *)

Held == RolesInv /\ ErrorInv /\ DiscInv

LEMMA HeldFacts ==
    ASSUME Held
    PROVE  /\ cd \in MachineType /\ Roles(cd) /\ Settled(cd)
           /\ fg \in [at : Points, open : BOOLEAN]
           /\ cd.sync_callback = "none" => cd.init_command = 0
<1>1. cd \in MachineType /\ Roles(cd) /\ fg \in [at : Points, open : BOOLEAN]
  BY DEF Held, RolesInv, TypeOK, Agreed
<1>2. Answering(cd)
  BY DEF Held, DiscInv
<1>3. cd.init_command # 0 => cd.sync_callback = "handle_recovery_sync"
  BY <1>2 DEF Answering
<1> QED BY <1>1, <1>2, <1>3, AnsweringSettled

(***************************************************************************)
(* What a step does to the drive, the error and the memory.  A step that   *)
(* goes on to the last step of recovery has compared the disc.             *)
(***************************************************************************)
Moves ==
    /\ Settled(cd') /\ Lasts(cd, cd')
    /\ Finishing(cd') => Finishing(cd) \/ Genuine
    /\ cd'.reading => ~ShellOpen'
    /\ cd'.memory # cd.memory => cd.reading /\ cd.ready_callback = "handle_ready_intr"

(* The status request under way, when the open shell has not been reported. *)
Reports(m, point) ==
    /\ m.waiting = "None" /\ m.issued \in {"None", "Nop"}
    /\ m.issued = "Nop" \/ point.at \in {"starting", "blocking"} =>
         m.sync_callback = "complete_command" /\ m.current_command = "Nop"

(* ... and what is to come of it. *)
Sees ==
    /\ lid' = "latched" => Reports(cd', fg')
    /\ lid = "latched" /\ lid' = "closed" => Failing(cd')

LEMMA HeldReports ==
    ASSUME Held, lid = "latched"
    PROVE  Reports(cd, fg) /\ ~cd.reading
BY DEF Held, DiscInv, Reporting, Reports, Stopped, ShellOpen

(* A step that leaves the disc to the drive. *)
LEMMA CarriedMoves ==
    ASSUME Held, Carries(cd, cd'), SameData(cd, cd'), ShellOpen' => ShellOpen
    PROVE  Moves
<1>1. ShellOpen => ~cd.reading
  BY DEF Held, DiscInv, Stopped
<1> QED BY <1>1 DEF Moves, Carries, SameData

(* What the callbacks, the step, the command and the drive say is left alone. *)
Alike(m, n) ==
    /\ SameData(m, n) /\ Remembers(m, n) /\ n.init_command = m.init_command
    /\ n.sync_callback = m.sync_callback /\ n.current_command = m.current_command
    /\ n.issued = m.issued /\ n.waiting = m.waiting

LEMMA AlikeCarries ==
    ASSUME NEW m, NEW n, Settled(m), Alike(m, n)
    PROVE  Carries(m, n)
<1>1. Settled(n)
  BY DEF Settled, Alike
<1>2. Lasts(m, n)
  BY RemembersLasts DEF Alike
<1> QED BY <1>1, <1>2 DEF Carries, Finishing, Alike

LEMMA AlikeTransitive ==
    ASSUME NEW m, NEW n, NEW p, Alike(m, n), Alike(n, p)
    PROVE  Alike(m, p)
<1>1. SameData(m, p)
  BY SameDataTransitive DEF Alike
<1>2. Remembers(m, p)
  BY DEF Alike, Remembers
<1> QED BY <1>1, <1>2 DEF Alike

LEMMA AlikeStep ==
    ASSUME Held, Alike(cd, cd'), lid' = lid,
           fg'.at \in {"starting", "blocking"} => fg.at \in {"starting", "blocking"}
    PROVE  Moves /\ Sees
<1>1. Carries(cd, cd') /\ SameData(cd, cd')
  BY HeldFacts, AlikeCarries DEF Alike
<1>2. ShellOpen' => ShellOpen
  BY DEF ShellOpen
<1>3. lid = "latched" => Reports(cd', fg')
  BY HeldReports DEF Reports, Alike
<1> QED BY <1>1, <1>2, <1>3, CarriedMoves DEF Sees

(* A Nop is to be sent or asked for, and the queue has the sync slot. *)
LEMMA NoppedStep ==
    ASSUME Held, SameData(cd, cd'), Remembers(cd, cd'), cd'.init_command = cd.init_command,
           cd'.issued = cd.issued, cd'.waiting = cd.waiting,
           cd'.sync_callback = "complete_command", cd'.current_command = "Nop", lid' = lid
    PROVE  Moves /\ Sees
<1>1. Carries(cd, cd')
  BY RemembersLasts DEF Carries, Settled, Finishing
<1>2. ShellOpen' => ShellOpen
  BY DEF ShellOpen
<1>3. lid = "latched" => Reports(cd', fg')
  BY HeldReports DEF Reports
<1> QED BY <1>1, <1>2, <1>3, CarriedMoves DEF Sees

(* The queue is dropped, or a status poll has failed: nobody waits for anything. *)
LEMMA QuietStep ==
    ASSUME Held, SameData(cd, cd') \/ (cd'.memory = cd.memory /\ ~cd'.reading),
           Remembers(cd, cd'), cd'.init_command = 0, cd'.sync_callback = "none",
           lid' = lid, fg'.at \notin {"starting", "blocking"},
           lid = "latched" => cd'.issued = "None" /\ cd'.waiting = "None"
    PROVE  Moves /\ Sees
<1>1. Settled(cd') /\ Lasts(cd, cd') /\ ~Finishing(cd')
  BY RemembersLasts DEF Settled, Finishing, RECOVERY_COMPLETE
<1>2. ShellOpen => ~cd.reading
  BY DEF Held, DiscInv, Stopped
<1>3. ShellOpen' => ShellOpen
  BY DEF ShellOpen
<1>4. lid = "latched" => Reports(cd', fg')
  BY DEF Reports
<1> QED BY <1>1, <1>2, <1>3, <1>4 DEF Moves, Sees, SameData

LEMMA GameSteps ==
    ASSUME AnsweredInTurn, Held, Game
    PROVE  Moves /\ Sees
<1> USE DEF environment
<1>1. cd \in MachineType
  BY HeldFacts
<1>2. Alike(cd, cd)
  BY DEF Alike, SameData, Remembers
<1>3. CASE \E req \in Offered : QueueCommand(req)
  <2>1. PICK req \in Offered : QueueCommand(req)
    BY <1>3
  <2>2. lid' = lid /\ fg.at = "idle"
    BY <2>1 DEF QueueCommand, Running
  <2>3. CASE UNCHANGED <<cd, fg>>
    BY <1>2, <2>2, <2>3, AlikeStep
  <2>4. CASE cd' = Enqueue(cd, req) /\ fg' = At("published")
    <3>1. Alike(cd, Enqueue(cd, req))
      BY <1>1 DEF Enqueue, Alike, SameData, Remembers, MachineType
    <3>2. fg'.at = "published"
      BY <2>4 DEF At
    <3> QED BY <2>2, <2>4, <3>1, <3>2, AlikeStep
  <2> QED BY <2>1, <2>3, <2>4 DEF QueueCommand
<1>4. CASE Reset \/ Stop
  <2> DEFINE dropped == DropQueue(cd)
             reset == [dropped EXCEPT !.audio_enabled = FALSE]
             stop == [dropped EXCEPT !.audio_enabled = FALSE,
                                     !.status_flags = @ \ {"QUEUE_LOCK"},
                                     !.last_request = NULL,
                                     !.retry_count = 0,
                                     !.data_ready_pending = FALSE]
             Drops(n) == /\ n.memory = cd.memory /\ ~n.reading /\ Remembers(cd, n)
                         /\ n.init_command = 0 /\ n.sync_callback = "none"
                         /\ n.issued = "None" /\ n.waiting = cd.waiting
  <2>1. cd' \in {reset, stop} /\ fg' = fg /\ fg.at = "idle" /\ lid' = lid
        /\ cd.waiting = "None"
    BY <1>4 DEF Reset, Stop, Running
  <2>2. dropped \in MachineType
    BY <1>1, DropQueueType
  <2>3. /\ dropped.memory = cd.memory /\ ~dropped.reading
        /\ dropped.status_flags = cd.status_flags
        /\ dropped.init_command = 0 /\ dropped.sync_callback = "none"
        /\ dropped.issued = "None" /\ dropped.waiting = cd.waiting
    <3> DEFINE paused == BlockingPause(cd)
               off == Disarm(paused)
    <3>1. paused \in MachineType /\ off \in MachineType
      BY <1>1, BlockingPauseType, DisarmType
    <3>2. /\ paused.memory = cd.memory /\ paused.reading = FALSE
          /\ paused.status_flags = cd.status_flags
          /\ paused.issued = "None" /\ paused.waiting = cd.waiting
      BY <1>1 DEF BlockingPause, MachineType
    <3> HIDE DEF paused
    <3>3. /\ off.memory = cd.memory /\ off.reading = FALSE
          /\ off.status_flags = cd.status_flags
          /\ off.sync_callback = "none"
          /\ off.issued = "None" /\ off.waiting = cd.waiting
      BY <3>1, <3>2 DEF Disarm, MachineType
    <3>4. dropped = [off EXCEPT !.current_command = "None",
                                !.init_command = 0,
                                !.init_retry = FALSE,
                                !.playback_state = FALSE,
                                !.transfer_callback = NULL,
                                !.retry_counter = 0,
                                !.queue_read_index = 0,
                                !.queue_write_index = 0]
      BY DEF DropQueue, paused
    <3> HIDE DEF off, dropped
    <3> QED BY <3>1, <3>3, <3>4 DEF MachineType
  <2> HIDE DEF dropped
  <2>4. Drops(reset)
    BY <2>2, <2>3 DEF Remembers, MachineType
  <2>5. Drops(stop)
    <3>1. /\ stop.memory = cd.memory /\ ~stop.reading
          /\ stop.status_flags = cd.status_flags \ {"QUEUE_LOCK"}
          /\ stop.init_command = 0 /\ stop.sync_callback = "none"
          /\ stop.issued = "None" /\ stop.waiting = cd.waiting
      BY <2>2, <2>3 DEF MachineType
    <3> HIDE DEF stop
    <3> QED BY <3>1 DEF Remembers, ErrorFlags
  <2> HIDE DEF reset, stop
  <2>6. Drops(cd')
    BY <2>1, <2>4, <2>5
  <2> QED BY <2>1, <2>6, QuietStep
<1>5. CASE LockQueue \/ UnlockQueue
  <2>1. \/ cd' = [cd EXCEPT !.status_flags = @ \cup {"QUEUE_LOCK"}]
        \/ cd' = [cd EXCEPT !.status_flags = @ \ {"QUEUE_LOCK"}]
    BY <1>5 DEF LockQueue, UnlockQueue
  <2>2. Alike(cd, [cd EXCEPT !.status_flags = @ \cup {"QUEUE_LOCK"}])
    BY <1>1 DEF Alike, SameData, Remembers, MachineType
  <2>3. Alike(cd, [cd EXCEPT !.status_flags = @ \ {"QUEUE_LOCK"}])
    BY <1>1 DEF Alike, SameData, Remembers, ErrorFlags, MachineType
  <2>4. fg' = fg /\ lid' = lid
    BY <1>5 DEF LockQueue, UnlockQueue
  <2> QED BY <2>1, <2>2, <2>3, <2>4, AlikeStep
<1>6. CASE EnterRecoveryMode
  BY <1>6 DEF EnterRecoveryMode, AnsweredInTurn, DataFilesOnly
<1> QED BY <1>3, <1>4, <1>5, <1>6 DEF Game

LEMMA QueueingSteps ==
    ASSUME Held, Queueing
    PROVE  Moves /\ Sees
<1> USE DEF environment
<1>1. cd \in MachineType /\ Settled(cd)
  BY HeldFacts
<1>2. Alike(cd, cd)
  BY DEF Alike, SameData, Remembers
<1>3. CASE QueueCheckCommand
  <2>1. cd' = cd /\ lid' = lid /\ fg'.at \in {"checking", "idle"}
    BY <1>3 DEF QueueCheckCommand, At
  <2> QED BY <1>2, <2>1, AlikeStep
<1>4. CASE QueueCheckStep
  <2>1. lid' = lid
    BY <1>4 DEF QueueCheckStep
  <2>2. CASE cd' = cd /\ fg' = At("idle")
    BY <1>2, <2>1, <2>2, AlikeStep, RestingPoints
  <2>3. CASE cd' = [cd EXCEPT !.current_command = "Nop",
                              !.playback_state = FALSE,
                              !.transfer_callback = NULL,
                              !.sync_callback = "complete_command"]
    <3>1. /\ SameData(cd, cd') /\ Remembers(cd, cd') /\ cd'.init_command = cd.init_command
          /\ cd'.issued = cd.issued /\ cd'.waiting = cd.waiting
          /\ cd'.sync_callback = "complete_command" /\ cd'.current_command = "Nop"
      BY <1>1, <2>3 DEF SameData, Remembers, MachineType
    <3> QED BY <2>1, <3>1, NoppedStep
  <2> QED BY <1>4, <2>2, <2>3 DEF QueueCheckStep
<1>5. CASE StartNop
  <2> DEFINE n == CdControlF(cd, "Nop", 0)
  <2>1. fg.at = "starting" /\ cd.waiting = "None" /\ cd.issued = "None"
        /\ cd' = n /\ lid' = lid
    BY <1>5 DEF StartNop, Running
  <2>2. n = [cd EXCEPT !.issued = "Nop", !.issued_location = 0]
    BY <2>1 DEF CdControlF
  <2>3. /\ SameData(cd, n) /\ Remembers(cd, n)
        /\ n.init_command = cd.init_command /\ n.sync_callback = cd.sync_callback
        /\ n.current_command = cd.current_command
        /\ n.issued = "Nop" /\ n.waiting = "None"
    BY <1>1, <2>1, <2>2 DEF SameData, Remembers, MachineType
  <2> HIDE DEF n
  <2>4. Carries(cd, n)
    BY <1>1, <2>3, RemembersLasts DEF Carries, Settled, Finishing
  <2>5. ShellOpen' => ShellOpen
    BY <2>1 DEF ShellOpen
  <2>6. lid = "latched" => Reports(n, fg')
    BY <2>1, <2>3, HeldReports DEF Reports
  <2> QED BY <2>1, <2>3, <2>4, <2>5, <2>6, CarriedMoves DEF Sees
<1> QED BY <1>3, <1>4, <1>5 DEF Queueing

LEMMA CarriesAlike ==
    ASSUME NEW m, NEW n, NEW p, Carries(m, n), SameData(m, n), Alike(n, p)
    PROVE  Carries(m, p) /\ SameData(m, p)
<1>1. Settled(p)
  BY DEF Carries, Settled, Alike
<1>2. Finishing(p) => Finishing(m)
  BY DEF Carries, Finishing, Alike
<1>3. Failing(n) => Failing(p)
  BY DEF Alike, Remembers, Failing, HasFlag
<1>4. SameData(m, p)
  BY SameDataTransitive DEF Alike
<1> QED BY <1>1, <1>2, <1>3, <1>4 DEF Carries, Lasts

(* What cdrom_handle_sync_error leaves is settled, whatever came before it. *)
LEMMA FailsCarries ==
    ASSUME NEW m, NEW n, NEW p, SameData(m, n), Works(n, p), Failing(p)
    PROVE  Carries(m, p) /\ SameData(m, p)
<1>1. SameData(m, p)
  BY SameDataTransitive DEF Works
<1>2. Settled(p) /\ ~Finishing(p)
  BY DEF Works, Settled, Finishing, RECOVERY_COMPLETE
<1> QED BY <1>1, <1>2 DEF Carries, Lasts

LEMMA RestAlike ==
    ASSUME NEW m \in MachineType
    PROVE  Alike(m, Rest(m))
BY DEF Rest, Alike, SameData, Remembers, MachineType

LEMMA HandleSyncErrorIssued ==
    ASSUME NEW m \in MachineType
    PROVE  HandleSyncError(m).issued = m.issued /\ HandleSyncError(m).waiting = m.waiting
<1> DEFINE off == Disarm(m)
<1>1. off \in MachineType
  BY DisarmType
<1>2. off.issued = m.issued /\ off.waiting = m.waiting
  BY DEF Disarm, MachineType
<1> HIDE DEF off
<1> QED BY <1>1, <1>2 DEF HandleSyncError, MachineType, off

(* The status answer of a watchdog or a poll. *)
LEMMA StatusMoves ==
    ASSUME Held, StatusRead, Carries(cd, cd'), SameData(cd, cd'),
           lid = "latched" => Failing(cd')
    PROVE  Moves /\ Sees
<1>1. (ShellOpen' => ShellOpen) /\ lid' # "latched"
  BY DEF ShellOpen, StatusRead
<1> QED BY <1>1, CarriedMoves DEF Sees

LEMMA ServiceSteps ==
    ASSUME Held,
           \/ ServiceCheckCommand \/ Supervise \/ WatchdogDue
           \/ WatchdogCommand \/ WatchdogStep \/ WatchdogNop
           \/ Restart \/ IdleQuiet \/ IdlePoll \/ IdlePollFails
    PROVE  Moves /\ Sees
<1> USE DEF environment
<1> DEFINE rested == Rest(cd)
<1>1. /\ cd \in MachineType /\ Roles(cd) /\ Settled(cd) /\ TypeOK
      /\ cd.sync_callback = "none" => cd.init_command = 0
  BY HeldFacts DEF Held, RolesInv
<1>2. Alike(cd, cd)
  BY DEF Alike, SameData, Remembers
<1>3. rested \in MachineType /\ Alike(cd, rested) /\ Roles(rested)
  BY <1>1, RestType, RestAlike, RestView, ViewRoles
<1> HIDE DEF rested
<1>4. CASE ServiceCheckCommand \/ WatchdogDue
  <2>1. /\ cd' = cd /\ lid' = lid
        /\ fg' \in {At("observed"), At("watch_command"), At("watch_step")}
    BY <1>4 DEF ServiceCheckCommand, WatchdogDue
  <2>2. fg'.at \notin {"starting", "blocking"}
    BY <2>1 DEF At
  <2> QED BY <1>2, <2>1, <2>2, AlikeStep
<1>5. CASE Supervise
  <2>1. cd' = [cd EXCEPT !.sync_complete = FALSE] /\ fg' = At("idle") /\ lid' = lid
    BY <1>5 DEF Supervise, Collect
  <2>2. Alike(cd, cd')
    BY <1>1, <2>1 DEF Alike, SameData, Remembers, MachineType
  <2> QED BY <2>1, <2>2, RestingPoints, AlikeStep
<1>6. CASE WatchdogCommand \/ Restart
  <2> DEFINE resume == Resumable(cd)
  <2>1. /\ cd' = [cd EXCEPT !.current_command = "Nop",
                            !.playback_state = resume,
                            !.sync_callback = "complete_command",
                            !.ready_callback = "none"]
        /\ lid' = lid
    BY <1>6 DEF WatchdogCommand, Restart
  <2> HIDE DEF resume
  <2>2. /\ SameData(cd, cd') /\ Remembers(cd, cd') /\ cd'.init_command = cd.init_command
        /\ cd'.issued = cd.issued /\ cd'.waiting = cd.waiting
        /\ cd'.sync_callback = "complete_command" /\ cd'.current_command = "Nop"
    BY <1>1, <2>1 DEF SameData, Remembers, MachineType
  <2> QED BY <2>1, <2>2, NoppedStep
<1>7. CASE WatchdogStep
  <2>1. /\ cd' = [cd EXCEPT !.sync_callback = "handle_recovery_sync", !.ready_callback = "none"]
        /\ fg.at = "watch_step" /\ lid' = lid
    BY <1>7 DEF WatchdogStep, Running
  <2>2. cd.init_command # 0
    BY <2>1 DEF Held, RolesInv, Agreed, ServiceKnows
  <2>3. cd.sync_callback = "handle_recovery_sync" /\ (cd.issued # "None" \/ cd.waiting # "None")
    BY <2>2 DEF Held, DiscInv, Answering
  <2>4. Alike(cd, cd')
    BY <1>1, <2>1, <2>3 DEF Alike, SameData, Remembers, MachineType
  <2>5. lid # "latched"
    BY <2>3, HeldReports DEF Reports
  <2>6. Carries(cd, cd') /\ SameData(cd, cd')
    BY <1>1, <2>4, AlikeCarries DEF Alike
  <2>7. ShellOpen' => ShellOpen
    BY <2>1 DEF ShellOpen
  <2> QED BY <2>1, <2>5, <2>6, <2>7, CarriedMoves DEF Sees
<1>8. CASE WatchdogNop
  <2>1. /\ fg.at = "blocking" /\ StatusRead
        /\ \E answered \in BOOLEAN : cd' = SyncCallback(cd, answered)
    BY <1>8 DEF WatchdogNop, BlockingNop, Running
  <2> PICK answered \in BOOLEAN : cd' = SyncCallback(cd, answered)
    BY <2>1
  <2>2. Carries(cd, cd') /\ SameData(cd, cd')
    BY <1>1, <2>1, SyncCallbackCarries
  <2>3. ASSUME lid = "latched" PROVE Failing(cd')
    <3>1. cd.sync_callback = "complete_command" /\ cd.current_command = "Nop"
      BY <2>1, <2>3, HeldReports DEF Reports
    <3>2. ShellOpen = TRUE
      BY <2>3 DEF ShellOpen
    <3>3. cd' = CompleteCommand(cd, answered, TRUE)
      BY <3>1, <3>2 DEF SyncCallback
    <3> QED BY <1>1, <3>1, <3>3, ShellReportedFails
  <2> QED BY <2>1, <2>2, <2>3, StatusMoves
<1>9. CASE IdleQuiet
  <2>1. cd' = rested /\ fg' = At("idle") /\ lid' = lid
    BY <1>9 DEF IdleQuiet, rested
  <2> QED BY <1>3, <2>1, RestingPoints, AlikeStep
<1>10. CASE IdlePoll
  <2> DEFINE polled == SyncCallback(rested, TRUE)
             answered == IF ShellOpen THEN HandleSyncError(polled) ELSE polled
  <2>1. cd' = [answered EXCEPT !.sync_complete = FALSE, !.retry_counter = 0] /\ StatusRead
    BY <1>10 DEF IdlePoll, BlockingNop, rested
  <2>2. rested.sync_callback = "none" => rested.init_command = 0
    BY <1>1, <1>3 DEF Alike
  <2>3. polled \in MachineType /\ Carries(rested, polled) /\ SameData(rested, polled)
    BY <1>1, <1>3, <2>2, SyncCallbackCarries, SyncCallbackType
  <2> HIDE DEF polled
  <2>4. SameData(cd, rested) /\ rested.init_command = cd.init_command
        /\ rested.status_flags = cd.status_flags
    BY <1>1 DEF Rest, SameData, rested, MachineType
  <2>5. Carries(cd, polled) /\ SameData(cd, polled)
    BY <2>3, <2>4, CarriesFrom
  <2>6. HandleSyncError(polled) \in MachineType /\ Works(polled, HandleSyncError(polled))
        /\ Failing(HandleSyncError(polled))
    BY <2>3, HandleSyncErrorType, HandleSyncErrorWorks
  <2>7. answered \in MachineType /\ Carries(cd, answered) /\ SameData(cd, answered)
        /\ (ShellOpen => Failing(answered))
    <3>1. CASE ShellOpen
      BY <2>5, <2>6, <3>1, FailsCarries
    <3>2. CASE ~ShellOpen
      BY <2>3, <2>5, <3>2
    <3> QED BY <3>1, <3>2
  <2> HIDE DEF answered
  <2>8. Alike(answered, cd')
    BY <2>1, <2>7 DEF Alike, SameData, Remembers, MachineType
  <2>9. Carries(cd, cd') /\ SameData(cd, cd')
    BY <2>7, <2>8, CarriesAlike
  <2>10. lid = "latched" => Failing(cd')
    BY <2>7, <2>8 DEF ShellOpen, Alike, Remembers, Failing, HasFlag
  <2> QED BY <2>1, <2>9, <2>10, StatusMoves
<1>11. CASE IdlePollFails
  <2> DEFINE count == rested.retry_counter + 1
             counted == [rested EXCEPT !.retry_counter = count]
             failed == HandleSyncError(rested)
  <2>1. (cd' = failed \/ cd' = counted) /\ fg' = At("idle") /\ lid' = lid /\ fg.at = "observed"
    BY <1>11 DEF IdlePollFails, Unoccupied, Running, rested
  <2>2. CASE cd' = counted
    <3> HIDE DEF count
    <3>1. Alike(rested, counted)
      BY <1>3 DEF Alike, SameData, Remembers, MachineType
    <3>2. Alike(cd, counted)
      BY <1>3, <3>1, AlikeTransitive
    <3> QED BY <2>1, <2>2, <3>2, RestingPoints, AlikeStep
  <2>3. CASE cd' = failed
    <3>1. /\ SameData(rested, failed) /\ failed.sync_callback = "none"
          /\ failed.init_command = 0 /\ failed.issued = rested.issued
          /\ failed.status_flags = rested.status_flags \cup {"SYNC_ERROR"}
          /\ failed.waiting = rested.waiting
      BY <1>3, HandleSyncErrorFields, HandleSyncErrorData, HandleSyncErrorIssued
    <3> HIDE DEF failed
    <3>2. SameData(cd, failed) /\ Remembers(cd, failed)
          /\ failed.issued = cd.issued /\ failed.waiting = cd.waiting
      BY <1>3, <3>1, SameDataTransitive DEF Alike, Remembers
    <3>3. cd.current_command = "None"
      BY <2>1 DEF Held, DiscInv, Unchanged
    <3>4. lid = "latched" => cd.issued = "None" /\ cd.waiting = "None"
      BY <3>3, HeldReports DEF Reports
    <3> QED BY <2>1, <2>3, <3>1, <3>2, <3>4, RestingPoints, QuietStep
  <2> QED BY <2>1, <2>2, <2>3
<1> QED BY <1>4, <1>5, <1>6, <1>7, <1>8, <1>9, <1>10, <1>11

-----------------------------------------------------------------------------
(* Recovery. *)

LEMMA EnterRecoveryAlike ==
    ASSUME NEW m \in MachineType
    PROVE  Alike(m, EnterRecovery(m))
<1>1. CASE m.init_state # IDLE
  BY <1>1 DEF EnterRecovery, Alike, SameData, Remembers
<1>2. CASE m.init_state = IDLE
  <2> DEFINE resume == Resumable(m)
             n == [m EXCEPT !.init_state = POLL_STATUS,
                            !.playback_state = resume,
                            !.data_ready_pending = FALSE]
  <2>1. EnterRecovery(m) = n
    BY <1>2 DEF EnterRecovery
  <2> HIDE DEF resume
  <2>2. Alike(m, n)
    BY DEF Alike, SameData, Remembers, MachineType
  <2> QED BY <2>1, <2>2
<1> QED BY <1>1, <1>2

(* A poll finds the error standing and both slots of the step empty. *)
LEMMA PolledFound ==
    ASSUME Held, Recovering, cd.issued = "None"
    PROVE  /\ BlockingNop(EnterRecovery(cd)) = EnterRecovery(cd)
           /\ Polled \in MachineType /\ Roles(Polled) /\ Failing(Polled)
           /\ Polled.sync_callback = "none" /\ Polled.init_command = 0
           /\ SameData(cd, Polled)
           /\ "RECOVERY_PENDING" \notin Polled.status_flags
<1>1. cd \in MachineType /\ Sound(cd) /\ RolesInv
  BY HeldFacts DEF Held, ErrorInv, Sound
<1>2. BlockingNop(EnterRecovery(cd)) = EnterRecovery(cd)
      /\ Polled \in MachineType /\ Failing(Polled) /\ Polled.sync_callback = "none"
  BY <1>1, PolledIs
<1>3. Roles(Polled) /\ "RECOVERY_PENDING" \notin Polled.status_flags
  BY <1>1, PolledRoles
<1>4. Alike(cd, Polled)
  BY <1>1, <1>2, EnterRecoveryAlike DEF Polled
<1>5. Answering(cd)
  BY DEF Held, DiscInv
<1>6. Polled.init_command = 0
  BY <1>2, <1>4, <1>5 DEF Alike, Answering
<1> QED BY <1>2, <1>3, <1>4, <1>6 DEF Alike

(* The error stands, and recovery is not at its last step. *)
Stands(m) == Settled(m) /\ Failing(m) /\ ~Finishing(m)

LEMMA StandsStep ==
    ASSUME Held, ~ShellOpen, lid' = lid, Stands(cd'), cd'.memory = cd.memory
    PROVE  Moves /\ Sees
<1>1. lid = "closed" /\ ~ShellOpen'
  BY DEF ShellOpen
<1> QED BY <1>1 DEF Moves, Sees, Lasts, Stands

LEMMA IssueStands ==
    ASSUME NEW m \in MachineType, Failing(m), NEW ready \in {"none", "verify_disc"},
           NEW step \in {RECOVERY_SET_MODE, RECOVERY_READ_DISC_ID},
           NEW command \in Commands, command # "None", NEW location
    PROVE  LET n == Issue(m, ready, step, command, location)
           IN Stands(n) /\ n.memory = m.memory
<1> DEFINE armed == [m EXCEPT !.sync_callback = "handle_recovery_sync",
                              !.ready_callback = ready,
                              !.init_command = step,
                              !.init_retry = FALSE]
           n == CdControlF(armed, command, location)
<1>1. Issue(m, ready, step, command, location) = n
  BY DEF Issue
<1>2. step \in InitCommands /\ step # RECOVERY_COMPLETE
  BY StepValues DEF RECOVERY_SET_MODE, RECOVERY_READ_DISC_ID, RECOVERY_COMPLETE
<1>3. armed \in MachineType
  BY <1>2, ZenonT(30) DEF MachineType
<1>4. /\ armed.status_flags = m.status_flags /\ armed.memory = m.memory
      /\ armed.sync_callback = "handle_recovery_sync" /\ armed.init_command = step
  BY DEF MachineType
<1> HIDE DEF armed
<1>5. /\ n.status_flags = armed.status_flags /\ n.sync_callback = armed.sync_callback
      /\ n.init_command = armed.init_command
      /\ n.issued # "None" \/ n.waiting # "None"
      /\ SameData(armed, n)
  BY <1>3, CdControlFFields, CdControlFData
<1> HIDE DEF n
<1> QED BY <1>1, <1>2, <1>4, <1>5
        DEF Stands, Settled, Failing, HasFlag, Finishing, SameData

LEMMA SteplessType ==
    ASSUME NEW m \in MachineType
    PROVE  [m EXCEPT !.init_command = 0, !.init_retry = FALSE] \in MachineType
BY StepValues, ZenonT(30) DEF MachineType

LEMMA AbandonStands ==
    ASSUME NEW m \in MachineType, m.sync_callback = "none", m.init_command = 0
    PROVE  /\ Stands(Abandon(m))
           /\ Abandon(m).memory = m.memory
           /\ Abandon(m).reading \in {FALSE, m.reading}
<1> DEFINE paused == BlockingPause(m)
           off == Disarm(paused)
           stopped == [off EXCEPT !.init_command = 0, !.init_retry = FALSE]
           quiet == IF m.init_state < SET_MODE THEN m ELSE stopped
           n == [quiet EXCEPT !.init_state = POLL_STATUS,
                              !.status_flags = (@ \cup {"SYNC_ERROR"}) \ {"INVALID_DISC", "NO_DISC"}]
<1>1. Abandon(m) = n
  BY DEF Abandon
<1>2. paused \in MachineType /\ paused.memory = m.memory /\ paused.reading = FALSE
  <2>1. paused \in MachineType
    BY BlockingPauseType
  <2> QED BY <2>1 DEF BlockingPause, MachineType
<1> HIDE DEF paused
<1>3. off \in MachineType /\ off.memory = m.memory /\ off.reading = FALSE
      /\ off.sync_callback = "none"
  <2>1. off \in MachineType
    BY <1>2, DisarmType
  <2> QED BY <1>2, <2>1 DEF Disarm, MachineType
<1> HIDE DEF off
<1>4. stopped \in MachineType
  BY <1>3, SteplessType
<1>5. stopped.memory = m.memory /\ stopped.reading = FALSE
      /\ stopped.sync_callback = "none" /\ stopped.init_command = 0
  BY <1>3 DEF MachineType
<1> HIDE DEF stopped
<1>6. /\ quiet \in MachineType /\ quiet.memory = m.memory /\ quiet.reading \in {FALSE, m.reading}
      /\ quiet.sync_callback = "none" /\ quiet.init_command = 0
  BY <1>4, <1>5
<1> HIDE DEF quiet
<1>7. /\ n.memory = m.memory /\ n.reading \in {FALSE, m.reading}
      /\ n.sync_callback = "none" /\ n.init_command = 0
      /\ "SYNC_ERROR" \in n.status_flags
  BY <1>6 DEF MachineType
<1> HIDE DEF n
<1>8. Failing(n)
  BY <1>7 DEF Failing, HasFlag, ErrorFlags
<1>9. Stands(n)
  BY <1>7, <1>8 DEF Stands, Settled, Finishing, RECOVERY_COMPLETE
<1> QED BY <1>1, <1>7, <1>9

LEMMA RecoveryMoves ==
    ASSUME Held, RecoveryWait \/ RecoveryPoll
    PROVE  Moves /\ Sees
<1> USE DEF environment
<1>1. cd \in MachineType /\ Settled(cd)
  BY HeldFacts
<1>2. CASE RecoveryWait
  <2>1. cd' = EnterRecovery(cd) /\ fg' = fg /\ lid' = lid
    BY <1>2 DEF RecoveryWait
  <2> QED BY <1>1, <2>1, EnterRecoveryAlike, AlikeStep
<1>3. CASE RecoveryAbandon
  <2>1. /\ Recovering /\ cd.issued = "None" /\ StatusRead
        /\ cd' = LET m == EnterRecovery(cd) IN Abandon(IF ShellOpen THEN BlockingNop(m) ELSE m)
    BY <1>3 DEF RecoveryAbandon
  <2>2. /\ BlockingNop(EnterRecovery(cd)) = EnterRecovery(cd)
        /\ Polled \in MachineType /\ Polled.sync_callback = "none" /\ Polled.init_command = 0
        /\ SameData(cd, Polled)
    BY <2>1, PolledFound
  <2>3. cd' = Abandon(Polled)
    BY <2>1, <2>2 DEF Polled
  <2>4. Stands(cd') /\ cd'.memory = cd.memory /\ (cd'.reading => cd.reading)
    BY <2>2, <2>3, AbandonStands DEF SameData
  <2>5. cd.reading => ~ShellOpen
    BY DEF Held, DiscInv, Stopped
  <2>6. (ShellOpen' => ShellOpen) /\ lid' # "latched"
    BY <2>1 DEF ShellOpen, StatusRead
  <2> QED BY <2>4, <2>5, <2>6 DEF Moves, Sees, Stands, Lasts
<1>4. ASSUME NEW state, PollAt(state)
      PROVE  /\ Polled \in MachineType /\ Roles(Polled) /\ Failing(Polled)
             /\ Polled.sync_callback = "none" /\ Polled.init_command = 0
             /\ Polled.memory = cd.memory /\ Polled.init_state = state
             /\ "RECOVERY_PENDING" \notin Polled.status_flags
             /\ ~ShellOpen
  BY <1>4, PolledFound DEF PollAt, SameData
<1>5. CASE \E spinning \in BOOLEAN : RecoveryCheckDisc(spinning)
  <2> DEFINE found == FoundClosed
  <2>1. PICK state \in {POLL_STATUS, CHECK_DISC} : PollAt(state)
    BY <1>5 DEF RecoveryCheckDisc
  <2>2. /\ Polled \in MachineType /\ Failing(Polled)
        /\ Polled.sync_callback = "none" /\ Polled.init_command = 0
        /\ Polled.memory = cd.memory /\ ~ShellOpen
    BY <1>4, <2>1
  <2>3. found \in MachineType
    BY <1>1, FoundClosedType
  <2>4. /\ Failing(found) /\ found.sync_callback = "none" /\ found.init_command = 0
        /\ found.memory = cd.memory
    <3>1. CASE Polled.init_state # POLL_STATUS
      BY <2>2, <3>1 DEF FoundClosed
    <3>2. CASE Polled.init_state = POLL_STATUS
      <4>1. found = [Polled EXCEPT !.status_flags = (@ \ {"SYNC_ERROR"})
                                                      \cup {"INVALID_DISC", "NO_DISC"}]
        BY <3>2 DEF FoundClosed
      <4>2. /\ found.status_flags = (Polled.status_flags \ {"SYNC_ERROR"})
                                      \cup {"INVALID_DISC", "NO_DISC"}
            /\ found.sync_callback = Polled.sync_callback
            /\ found.init_command = Polled.init_command /\ found.memory = Polled.memory
        BY <2>2, <4>1 DEF MachineType
      <4> HIDE DEF found
      <4> QED BY <2>2, <4>2 DEF Failing, HasFlag, ErrorFlags
    <3> QED BY <3>1, <3>2
  <2>5. \/ cd' = [found EXCEPT !.init_state = WAIT_FOR_DISC, !.retry_counter = 0]
        \/ cd' = [found EXCEPT !.init_state = CHECK_DISC]
    BY <1>5 DEF RecoveryCheckDisc
  <2>6. lid' = lid
    BY <1>5 DEF RecoveryCheckDisc
  <2> HIDE DEF found
  <2>7. /\ cd'.status_flags = found.status_flags /\ cd'.sync_callback = found.sync_callback
        /\ cd'.init_command = found.init_command /\ cd'.memory = found.memory
    <3>1. CASE cd' = [found EXCEPT !.init_state = WAIT_FOR_DISC, !.retry_counter = 0]
      BY <2>3, <3>1 DEF MachineType
    <3>2. CASE cd' = [found EXCEPT !.init_state = CHECK_DISC]
      BY <2>3, <3>2 DEF MachineType
    <3> QED BY <2>5, <3>1, <3>2
  <2>8. Stands(cd')
    BY <2>4, <2>7 DEF Stands, Settled, Failing, HasFlag, Finishing, RECOVERY_COMPLETE
  <2> QED BY <2>2, <2>4, <2>6, <2>7, <2>8, StandsStep
<1>6. CASE \/ RecoveryWaitForDisc \/ RecoveryWaitForDrive \/ RecoveryDiscType
           \/ RecoveryWaitForRead \/ RecoveryRests
  <2> DEFINE polled == Polled
             count == Polled.retry_counter + 2
             s == IF Polled.retry_counter + 1 >= DiscReadyRetryLimit
                  THEN WAIT_FOR_DRIVE ELSE Polled.init_state
  <2>1. PICK state : PollAt(state)
    BY <1>6 DEF RecoveryWaitForDisc, RecoveryWaitForDrive, RecoveryDiscType,
         RecoveryWaitForRead, RecoveryRests
  <2>2. /\ polled \in MachineType /\ Roles(polled) /\ Failing(polled)
        /\ polled.sync_callback = "none" /\ polled.init_command = 0
        /\ polled.memory = cd.memory
        /\ "RECOVERY_PENDING" \notin polled.status_flags
        /\ ~ShellOpen
    BY <1>4, <2>1
  <2>3. \/ cd' = polled
        \/ \E i : cd' = [polled EXCEPT !.init_state = i]
        \/ \E c, i : cd' = [polled EXCEPT !.retry_counter = c, !.init_state = i]
        \/ cd' = [polled EXCEPT !.sync_complete = FALSE]
        \/ /\ cd' = [polled EXCEPT !.init_state = ERROR_PAUSE, !.status_flags = @ \ {"INVALID_DISC"}]
           /\ polled.init_state = CHECK_DISC_TYPE
    <3>1. CASE RecoveryWaitForDisc
      <4>1. \/ cd' = [polled EXCEPT !.init_state = WAIT_FOR_DRIVE]
            \/ cd' = [polled EXCEPT !.retry_counter = count, !.init_state = s]
        BY <3>1 DEF RecoveryWaitForDisc
      <4> HIDE DEF count, s, polled
      <4> QED BY <4>1
    <3>2. CASE RecoveryWaitForDrive
      BY <3>2 DEF RecoveryWaitForDrive
    <3>3. CASE RecoveryDiscType
      BY <3>3 DEF RecoveryDiscType, PollAt
    <3>4. CASE RecoveryWaitForRead \/ RecoveryRests
      BY <3>4 DEF RecoveryWaitForRead, RecoveryRests, Collect
    <3> QED BY <1>6, <3>1, <3>2, <3>3, <3>4
  <2>4. lid' = lid
    BY <1>6 DEF RecoveryWaitForDisc, RecoveryWaitForDrive, RecoveryDiscType,
         RecoveryWaitForRead, RecoveryRests
  <2>5. polled.init_state = CHECK_DISC_TYPE => "NO_DISC" \in polled.status_flags
    BY <2>2, StateNumbers DEF Roles, Recording, DiscUnknown
  <2> HIDE DEF polled
  <2> DEFINE Found == /\ cd'.sync_callback = polled.sync_callback
                      /\ cd'.init_command = polled.init_command
                      /\ cd'.memory = polled.memory
                      /\ Failing(cd')
  <2>6. Found
    <3>1. CASE cd' = polled
      BY <2>2, <3>1
    <3>2. CASE \E i : cd' = [polled EXCEPT !.init_state = i]
      BY <2>2, <3>2 DEF Failing, HasFlag, MachineType
    <3>3. CASE \E c, i : cd' = [polled EXCEPT !.retry_counter = c, !.init_state = i]
      BY <2>2, <3>3 DEF Failing, HasFlag, MachineType
    <3>4. CASE cd' = [polled EXCEPT !.sync_complete = FALSE]
      BY <2>2, <3>4 DEF Failing, HasFlag, MachineType
    <3>5. CASE /\ cd' = [polled EXCEPT !.init_state = ERROR_PAUSE,
                                       !.status_flags = @ \ {"INVALID_DISC"}]
               /\ polled.init_state = CHECK_DISC_TYPE
      <4>1. /\ cd'.sync_callback = polled.sync_callback
            /\ cd'.init_command = polled.init_command
            /\ cd'.memory = polled.memory
            /\ cd'.status_flags = polled.status_flags \ {"INVALID_DISC"}
        BY <2>2, <3>5 DEF MachineType
      <4>2. Failing(cd')
        BY <2>5, <3>5, <4>1 DEF Failing, HasFlag, ErrorFlags
      <4> QED BY <4>1, <4>2
    <3> QED BY <2>3, <3>1, <3>2, <3>3, <3>4, <3>5
  <2>7. Stands(cd')
    BY <2>2, <2>6 DEF Stands, Settled, Finishing, RECOVERY_COMPLETE
  <2> QED BY <2>2, <2>4, <2>6, <2>7, StandsStep
<1>7. CASE RecoverySetMode
  <2>1. PollAt(SET_MODE) /\ cd' = Issue(Polled, "none", RECOVERY_SET_MODE, "Setmode", 0)
        /\ lid' = lid
    BY <1>7 DEF RecoverySetMode
  <2>2. Polled \in MachineType /\ Failing(Polled) /\ Polled.memory = cd.memory /\ ~ShellOpen
    BY <1>4, <2>1
  <2>3. Stands(cd') /\ cd'.memory = Polled.memory
    BY <2>1, <2>2, IssueStands, CommandValues
  <2> QED BY <2>1, <2>2, <2>3, StandsStep
<1>8. CASE RecoveryReadDiscId
  <2> DEFINE waits == [Polled EXCEPT !.init_state = WAIT_FOR_READ]
  <2>1. /\ PollAt(READ_DISC_ID)
        /\ cd' = Issue(waits, "verify_disc", RECOVERY_READ_DISC_ID, "ReadN", ValidationLocation)
        /\ lid' = lid
    BY <1>8 DEF RecoveryReadDiscId
  <2>2. Polled \in MachineType /\ Failing(Polled) /\ Polled.memory = cd.memory /\ ~ShellOpen
    BY <1>4, <2>1
  <2>3. waits \in MachineType
    BY <2>2, FieldUpdates, StateValues
  <2>4. Failing(waits) /\ waits.memory = cd.memory
    BY <2>2 DEF Failing, HasFlag, MachineType
  <2> HIDE DEF waits
  <2>5. Stands(cd') /\ cd'.memory = waits.memory
    BY <2>1, <2>3, <2>4, IssueStands, CommandValues
  <2> QED BY <2>1, <2>2, <2>4, <2>5, StandsStep
<1>9. CASE RecoveryReadTimeout
  <2> DEFINE armed == [Polled EXCEPT !.sync_callback = "handle_recovery_sync"]
  <2>1. PollAt(WAIT_FOR_READ) /\ lid' = lid
    BY <1>9 DEF RecoveryReadTimeout
  <2>2. /\ Polled \in MachineType /\ Failing(Polled) /\ Polled.init_command = 0
        /\ Polled.memory = cd.memory /\ ~ShellOpen
    BY <1>4, <2>1
  <2>3. cd' = Issue(armed, "verify_disc", RECOVERY_READ_DISC_ID, "ReadN", ValidationLocation)
    BY <1>9, <2>2 DEF RecoveryReadTimeout, RECOVERY_RETRY_READ, RECOVERY_COMPLETE
  <2>4. armed \in MachineType
    BY <2>2, ZenonT(30) DEF MachineType
  <2>5. Failing(armed) /\ armed.memory = cd.memory
    BY <2>2 DEF Failing, HasFlag, MachineType
  <2> HIDE DEF armed
  <2>6. Stands(cd') /\ cd'.memory = armed.memory
    BY <2>3, <2>4, <2>5, IssueStands, CommandValues
  <2> QED BY <2>1, <2>2, <2>5, <2>6, StandsStep
<1>10. CASE RecoveryStopDrive
  <2>1. PollAt(ERROR_PAUSE) /\ cd' = [BlockingPause(Polled) EXCEPT !.init_state = RETRY_READ]
        /\ lid' = lid
    BY <1>10 DEF RecoveryStopDrive
  <2>2. /\ Polled \in MachineType /\ Failing(Polled) /\ Polled.init_command = 0
        /\ Polled.sync_callback = "none" /\ Polled.memory = cd.memory /\ ~ShellOpen
    BY <1>4, <2>1
  <2>3. /\ cd'.status_flags = Polled.status_flags /\ cd'.memory = cd.memory
        /\ cd'.sync_callback = "none" /\ cd'.init_command = 0
    BY <2>1, <2>2 DEF BlockingPause, MachineType
  <2>4. Stands(cd')
    BY <2>2, <2>3 DEF Stands, Settled, Failing, HasFlag, Finishing, RECOVERY_COMPLETE
  <2> QED BY <2>1, <2>2, <2>3, <2>4, StandsStep
<1> QED BY <1>2, <1>3, <1>5, <1>6, <1>7, <1>8, <1>9, <1>10 DEF RecoveryPoll

-----------------------------------------------------------------------------
(* The drive and its interrupts. *)

(* What the callbacks see of the machine is what they would have seen before. *)
LEMMA ViewSettles ==
    ASSUME Held, NEW m \in MachineType, SameView(cd, m), m.issued = cd.issued, m.waiting = cd.waiting
    PROVE  /\ Roles(m) /\ Settled(m)
           /\ m.ready_callback = cd.ready_callback
           /\ Failing(m) <=> Failing(cd)
           /\ Finishing(m) <=> Finishing(cd)
<1>1. cd \in MachineType /\ Roles(cd) /\ Settled(cd)
  BY HeldFacts
<1>2. Roles(m)
  BY <1>1, ViewRoles
<1>3. m.sync_callback = cd.sync_callback /\ m.ready_callback = cd.ready_callback
      /\ m.init_command = cd.init_command /\ m.status_flags = cd.status_flags
  BY DEF SameView, SameSlots, SameStep, SameMode
<1>4. Settled(m)
  BY <1>1, <1>3 DEF Settled
<1> QED BY <1>2, <1>3, <1>4 DEF Failing, HasFlag, Finishing

(* An answer, and what was to be reported with it. *)
LEMMA AnswerMoves ==
    ASSUME Held, cd.issued # "None", NEW m \in MachineType, SameView(cd, m), m.memory = cd.memory,
           m.reading => lid = "closed", NEW complete \in BOOLEAN,
           cd' = SyncCallback(m, complete),
           IF cd.issued = "Nop" THEN StatusRead ELSE UNCHANGED lid
    PROVE  Moves /\ Sees
<1>1. cd \in MachineType /\ Roles(cd) /\ TypeOK
      /\ (cd.sync_callback = "none" => cd.init_command = 0)
  BY HeldFacts DEF Held, RolesInv
<1>2. m.sync_callback = cd.sync_callback /\ m.current_command = cd.current_command
      /\ m.init_command = cd.init_command /\ m.status_flags = cd.status_flags
  BY DEF SameView, SameSlots, SameStep, SameMode
<1>3. Roles(m)
  BY <1>1, ViewRoles
<1>4. Carries(m, cd') /\ SameData(m, cd')
  BY <1>1, <1>2, <1>3, SyncCallbackCarries
<1>5. Settled(cd') /\ Lasts(cd, cd') /\ (Finishing(cd') => Finishing(cd))
  BY <1>2, <1>4 DEF Carries, Lasts, Failing, HasFlag, Finishing
<1>6. lid' # "latched" /\ (lid = "closed" => lid' = "closed")
  BY HeldReports DEF Reports, StatusRead
<1>7. ASSUME lid = "latched" PROVE Failing(cd')
  <2>1. cd.sync_callback = "complete_command" /\ cd.current_command = "Nop"
    BY <1>7, HeldReports DEF Reports
  <2>2. ShellOpen = TRUE
    BY <1>7 DEF ShellOpen
  <2>3. cd' = CompleteCommand(m, complete, TRUE)
    BY <1>2, <2>1, <2>2 DEF SyncCallback
  <2> QED BY <1>2, <2>1, <2>3, ShellReportedFails
<1>8. (cd'.reading => ~ShellOpen') /\ cd'.memory = cd.memory
  BY <1>4, <1>6 DEF SameData, ShellOpen
<1> QED BY <1>5, <1>6, <1>7, <1>8 DEF Moves, Sees

LEMMA DriveSteps ==
    ASSUME AnsweredInTurn, Held, Drive
    PROVE  Moves /\ Sees
<1> USE DEF environment
<1>1. cd \in MachineType /\ Roles(cd) /\ Settled(cd) /\ fg \in [at : Points, open : BOOLEAN]
  BY HeldFacts
<1>2. cd.reading => lid = "closed"
  BY DEF Held, DiscInv, Stopped, ShellOpen
<1>3. CASE CommandDone
  <2> DEFINE m == Executed(cd)
  <2>1. /\ Able /\ cd' = SyncCallback(m, TRUE)
        /\ IF cd.issued = "Nop" THEN StatusRead ELSE UNCHANGED lid
    BY <1>3 DEF CommandDone
  <2>2. m \in MachineType /\ SameView(cd, m)
    BY <1>1, ExecutedType, ExecutedView
  <2>3. m.memory = cd.memory /\ (m.reading => cd.reading \/ cd.issued \in {"ReadN", "ReadS"})
    <3> DEFINE turns == IF cd.issued \in {"ReadN", "ReadS"} THEN TRUE
                        ELSE cd.issued \notin {"Pause", "SeekL"} /\ cd.reading
               at == IF cd.issued \in {"ReadN", "ReadS"} THEN cd.issued_location ELSE cd.head
               passes == cd.filtered \/ cd.issued = "Setfilter"
    <3>1. m = [cd EXCEPT !.issued = "None", !.reading = turns, !.head = at, !.filtered = passes]
      BY DEF Executed
    <3>2. turns => cd.reading \/ cd.issued \in {"ReadN", "ReadS"}
      OBVIOUS
    <3> HIDE DEF turns, at, passes, m
    <3>3. m.memory = cd.memory /\ m.reading = turns
      BY <1>1, <3>1 DEF MachineType
    <3> QED BY <3>2, <3>3
  <2> HIDE DEF m
  <2>4. cd.issued # "None" /\ (cd.issued \in {"ReadN", "ReadS"} => lid # "open")
    BY <2>1 DEF Able, MotionCommands
  <2>5. lid = "latched" => cd.issued \in {"None", "Nop"}
    BY HeldReports DEF Reports
  <2>6. lid \in {"open", "latched", "closed"}
    BY DEF Held, RolesInv, TypeOK
  <2>7. m.reading => lid = "closed"
    BY <1>2, <2>3, <2>4, <2>5, <2>6
  <2> QED BY <2>1, <2>2, <2>3, <2>4, <2>7, AnswerMoves
<1>4. CASE CommandFailed
  <2> DEFINE m == [cd EXCEPT !.issued = "None"]
  <2>1. /\ cd.issued # "None" /\ cd' = SyncCallback(m, FALSE)
        /\ IF cd.issued = "Nop" THEN StatusRead ELSE UNCHANGED lid
    BY <1>4 DEF CommandFailed
  <2>2. m \in MachineType
    BY <1>1, CommandValues DEF MachineType
  <2>3. SameView(cd, m) /\ m.memory = cd.memory /\ m.reading = cd.reading
    BY <1>1, OtherFields DEF MachineType
  <2> HIDE DEF m
  <2> QED BY <1>2, <2>1, <2>2, <2>3, AnswerMoves
<1>5. CASE SendWaiting
  <2>1. /\ cd' = [cd EXCEPT !.issued = cd.waiting, !.issued_location = cd.waiting_location,
                            !.waiting = "None"]
        /\ cd.waiting # "None" /\ lid' = lid
    BY <1>5 DEF SendWaiting
  <2>2. /\ SameData(cd, cd') /\ cd'.status_flags = cd.status_flags
        /\ cd'.sync_callback = cd.sync_callback /\ cd'.init_command = cd.init_command
        /\ cd'.issued = cd.waiting
    BY <1>1, <2>1 DEF SameData, MachineType
  <2>3. Carries(cd, cd')
    BY <1>1, <2>1, <2>2 DEF Carries, Settled, Finishing, Lasts, Failing, HasFlag
  <2>4. lid # "latched"
    BY <2>1, HeldReports DEF Reports
  <2>5. ShellOpen' => ShellOpen
    BY <2>1 DEF ShellOpen
  <2> QED BY <2>1, <2>2, <2>3, <2>4, <2>5, CarriedMoves DEF Sees
<1>6. CASE CommandLost \/ SectorLost
  BY <1>6 DEF CommandLost, SectorLost, Fault, Faults, AnsweredInTurn, DataFilesOnly
<1>7. CASE \E accept, decoding \in BOOLEAN : SectorReady(accept, decoding)
  <2>1. PICK accept \in BOOLEAN, decoding \in BOOLEAN : SectorReady(accept, decoding)
    BY <1>7
  <2> DEFINE m == NextSector
             n == ReadyCallback(m, TRUE, accept, decoding)
  <2>2. cd.reading /\ cd' = n /\ lid' = lid
    BY <2>1 DEF SectorReady, Delivering
  <2>3. m \in MachineType /\ SameView(cd, m) /\ m.issued = cd.issued /\ m.waiting = cd.waiting
    BY <1>1, NextSectorView DEF SameLine
  <2>4. SameData(cd, m)
    BY <1>1 DEF NextSector, SameData, MachineType
  <2> HIDE DEF m
  <2>5. /\ Roles(m) /\ Settled(m) /\ m.ready_callback = cd.ready_callback
        /\ Failing(m) <=> Failing(cd)
        /\ Finishing(m) <=> Finishing(cd)
    BY <2>3, ViewSettles
  <2>6. /\ Settled(n) /\ Lasts(m, n)
        /\ Finishing(n) => Finishing(m) \/ Genuine
        /\ n.memory # m.memory => m.ready_callback = "handle_ready_intr"
    BY <2>3, <2>5, ReadyCallbackReceives
  <2> HIDE DEF n
  <2>7. Lasts(cd, n)
    BY <2>5, <2>6 DEF Lasts
  <2>8. lid = "closed" /\ ~ShellOpen'
    BY <1>2, <2>2 DEF ShellOpen
  <2> QED BY <2>2, <2>4, <2>5, <2>6, <2>7, <2>8 DEF Moves, Sees, SameData
<1>8. CASE SectorFailed
  <2> DEFINE n == ReadyCallback(cd, FALSE, TRUE, FALSE)
  <2>1. cd.reading /\ cd' = n /\ lid' = lid
    BY <1>8 DEF SectorFailed, Delivering
  <2>2. /\ Settled(n) /\ Lasts(cd, n)
        /\ Finishing(n) => Finishing(cd) \/ Genuine
        /\ n.memory = cd.memory
    BY <1>1, ReadyCallbackReceives
  <2> HIDE DEF n
  <2>3. lid = "closed" /\ ~ShellOpen'
    BY <1>2, <2>1 DEF ShellOpen
  <2> QED BY <2>1, <2>2, <2>3 DEF Moves, Sees
<1>9. CASE \E accept \in BOOLEAN : MdecOut(accept)
  BY <1>1, <1>9 DEF MdecOut, Roles, DataQueued
<1>10. CASE OpenLid
  <2> DEFINE m == [cd EXCEPT !.reading = FALSE]
             n == ReadyCallback(m, FALSE, TRUE, FALSE)
  <2>1. lid' = "open" /\ (cd' = m \/ cd' = n)
    BY <1>10 DEF OpenLid
  <2>2. m \in MachineType
    BY <1>1 DEF MachineType
  <2>3. SameView(cd, m) /\ m.issued = cd.issued /\ m.waiting = cd.waiting
        /\ m.reading = FALSE /\ m.memory = cd.memory
    BY <1>1, OtherFields DEF MachineType
  <2> HIDE DEF m
  <2>4. /\ Roles(m) /\ Settled(m)
        /\ Failing(m) <=> Failing(cd)
        /\ Finishing(m) <=> Finishing(cd)
    BY <2>2, <2>3, ViewSettles
  <2>5. /\ Settled(n) /\ Lasts(m, n)
        /\ Finishing(n) => Finishing(m) \/ Genuine
        /\ n.reading = m.reading /\ n.memory = m.memory
    BY <2>2, <2>4, ReadyCallbackReceives
  <2> HIDE DEF n
  <2> QED BY <2>1, <2>3, <2>4, <2>5 DEF Moves, Sees, Lasts
<1>11. CASE \E inserted \in Inserted : CloseLid(inserted)
  <2>1. /\ cd' = cd /\ fg' = fg /\ lid = "open" /\ fg.at = "idle"
        /\ cd.issued = "None" /\ cd.waiting = "None"
    BY <1>11 DEF CloseLid, Running
  <2>2. Reports(cd', fg')
    BY <2>1 DEF Reports
  <2> QED BY <1>1, <1>2, <2>1, <2>2 DEF Moves, Sees, Lasts
<1> QED BY <1>3, <1>4, <1>5, <1>6, <1>7, <1>8, <1>9, <1>10, <1>11 DEF Drive

LEMMA StepMoves ==
    ASSUME AnsweredInTurn, Held, [Next]_vars
    PROVE  Moves /\ Sees
<1>1. CASE ProcessState
  BY <1>1, ServiceSteps, RecoveryMoves DEF ProcessState
<1>2. CASE Recover
  BY <1>2 DEF Recover, RecoverFlush, RecoverSetMode, RecoverSetFilter, RecoverActivity,
     RecoverTimeout, Reconfiguring, Held, ErrorInv, Plain
<1>3. CASE UNCHANGED vars
  <2>1. cd' = cd /\ fg' = fg /\ lid' = lid
    BY <1>3 DEF vars
  <2>2. Alike(cd, cd)
    BY DEF Alike, SameData, Remembers
  <2> QED BY <2>1, <2>2, AlikeStep
<1> QED BY <1>1, <1>2, <1>3, GameSteps, QueueingSteps, DriveSteps DEF Next

-----------------------------------------------------------------------------
(* The invariant. *)

(* The shell is closed for the program only once its status was read; discs change in an open one. *)
LEMMA ShellMoves ==
    ASSUME [Next]_vars, TypeOK
    PROVE  /\ lid' = "closed" => lid \in {"latched", "closed"}
           /\ \/ disc' = disc
              \/ lid' = "latched" /\ cd' = cd /\ cd.issued = "None" /\ cd.waiting = "None"
<1> USE DEF environment
<1>2. CASE Game
  BY <1>2 DEF Game, QueueCommand, Reset, Stop, LockQueue, UnlockQueue, EnterRecoveryMode, TypeOK
<1>3. CASE Queueing
  BY <1>3 DEF Queueing, QueueCheckCommand, QueueCheckStep, StartNop, TypeOK
<1>4. CASE ProcessState
  <2>1. disc' = disc /\ (lid' = lid \/ StatusRead)
    BY <1>4 DEF ProcessState, ServiceCheckCommand, Supervise, WatchdogDue, WatchdogCommand,
       WatchdogStep, WatchdogNop, Restart, IdleQuiet, IdlePoll, IdlePollFails,
       RecoveryWait, RecoveryPoll, RecoveryAbandon, RecoveryCheckDisc,
       RecoveryWaitForDisc, RecoveryWaitForDrive, RecoveryDiscType, RecoverySetMode,
       RecoveryReadDiscId, RecoveryWaitForRead, RecoveryReadTimeout, RecoveryStopDrive,
       RecoveryRests
  <2> QED BY <2>1 DEF StatusRead, TypeOK
<1>5. CASE Recover
  BY <1>5 DEF Recover, RecoverFlush, RecoverSetMode, RecoverSetFilter, RecoverActivity,
     RecoverTimeout, TypeOK
<1>6. CASE Drive
  <2>1. CASE CommandDone \/ CommandFailed
    <3>1. disc' = disc /\ (lid' = lid \/ StatusRead)
      BY <2>1 DEF CommandDone, CommandFailed
    <3> QED BY <3>1 DEF StatusRead, TypeOK
  <2>2. CASE \/ SendWaiting \/ CommandLost \/ SectorFailed \/ SectorLost
             \/ (\E accept, decoding \in BOOLEAN : SectorReady(accept, decoding))
             \/ (\E accept \in BOOLEAN : MdecOut(accept))
    <3>1. disc' = disc /\ lid' = lid
      BY <2>2 DEF SendWaiting, CommandLost, SectorFailed, SectorLost, SectorReady, MdecOut
    <3> QED BY <3>1 DEF TypeOK
  <2>3. CASE OpenLid
    BY <2>3 DEF OpenLid
  <2>4. CASE \E inserted \in Inserted : CloseLid(inserted)
    BY <2>4 DEF CloseLid, Running
  <2> QED BY <1>6, <2>1, <2>2, <2>3, <2>4 DEF Drive
<1>7. CASE UNCHANGED vars
  BY <1>7 DEF vars, TypeOK
<1> QED BY <1>2, <1>3, <1>4, <1>5, <1>6, <1>7 DEF Next

LEMMA UnchangedStep ==
    ASSUME DataFilesOnly, TypeOK, Undisturbed, Unchanged, [Next]_vars, fg'.at = "observed"
    PROVE  cd'.current_command = "None"
<1> USE DEF environment
<1>1. "observed" \in Looking
  BY DEF Looking
<1>2. CASE Game
  <2>1. fg.at = "idle" /\ (fg' = fg \/ fg' = At("published"))
    BY <1>2 DEF Game, QueueCommand, Reset, Stop, LockQueue, UnlockQueue, EnterRecoveryMode, Running
  <2> QED BY <2>1 DEF At
<1>3. CASE Queueing
  BY <1>1, <1>3, NotLooking DEF Queueing, QueueCheckCommand, QueueCheckStep, StartNop
<1>4. CASE ProcessState
  <2>1. CASE ServiceCheckCommand
    BY <2>1 DEF ServiceCheckCommand
  <2>2. CASE WatchdogDue
    BY <2>2 DEF WatchdogDue, At
  <2>3. CASE \/ Supervise \/ WatchdogCommand \/ WatchdogStep \/ WatchdogNop
             \/ Restart \/ IdleQuiet \/ IdlePoll \/ IdlePollFails
    BY <1>1, <2>3, NotLooking
       DEF Supervise, WatchdogCommand, WatchdogStep, WatchdogNop, Restart, IdleQuiet, IdlePoll,
           IdlePollFails
  <2>4. CASE RecoveryWait \/ RecoveryPoll
    <3>1. fg' = fg /\ Recovering
      BY <2>4 DEF RecoveryWait, RecoveryPoll, RecoveryAbandon, RecoveryCheckDisc, PollAt,
           RecoveryWaitForDisc, RecoveryWaitForDrive, RecoveryDiscType, RecoverySetMode,
           RecoveryReadDiscId, RecoveryWaitForRead, RecoveryReadTimeout, RecoveryStopDrive,
           RecoveryRests
    <3> QED BY <3>1 DEF Recovering, Running
  <2> QED BY <1>4, <2>1, <2>2, <2>3, <2>4 DEF ProcessState
<1>5. CASE Recover
  BY <1>5 DEF Recover, RecoverFlush, RecoverSetMode, RecoverSetFilter, RecoverActivity,
       RecoverTimeout, Reconfiguring, Running
<1>6. CASE Drive
  <2>1. CASE CommandDone \/ CommandFailed \/ SectorFailed \/ OpenLid
             \/ (\E accept, decoding \in BOOLEAN : SectorReady(accept, decoding))
             \/ (\E accept \in BOOLEAN : MdecOut(accept))
    <3>1. Interrupt
      BY <2>1 DEF CommandDone, CommandFailed, SectorFailed, OpenLid, SectorReady, MdecOut
    <3>2. fg'.at = fg.at
      BY <3>1 DEF Interrupt, TypeOK
    <3> QED BY <1>1, <3>1, <3>2, NoInterrupt
  <2>2. CASE SendWaiting
    BY <1>1, <2>2, NoInterrupt DEF SendWaiting
  <2>3. CASE CommandLost \/ SectorLost
    BY <2>3 DEF CommandLost, SectorLost, Fault, Faults, DataFilesOnly
  <2>4. CASE \E inserted \in Inserted : CloseLid(inserted)
    BY <2>4 DEF CloseLid, Running
  <2> QED BY <1>6, <2>1, <2>2, <2>3, <2>4 DEF Drive
<1>7. CASE UNCHANGED vars
  BY <1>7 DEF vars, Unchanged
<1> QED BY <1>2, <1>3, <1>4, <1>5, <1>6, <1>7 DEF Next

LEMMA DiscInit == Init => DiscInv
<1> SUFFICES ASSUME Init PROVE DiscInv
  OBVIOUS
<1>1. /\ cd.init_command = 0 /\ cd.sync_callback = "none" /\ cd.current_command = "None"
      /\ cd.reading = FALSE
  BY DEF Init, InitialMachine
<1>2. lid = "closed" /\ disc = "game" /\ fg.at = "idle"
  BY DEF Init, At
<1> QED BY <1>1, <1>2 DEF DiscInv, Answering, Stopped, Reporting, Refused, Verified, Unchanged,
       ShellOpen

LEMMA HeldStep ==
    ASSUME AnsweredInTurn
    PROVE  Held /\ [Next]_vars => Held'
<1> SUFFICES ASSUME Held, [Next]_vars PROVE Held'
  OBVIOUS
<1>1. RolesInv /\ ErrorInv /\ TypeOK /\ Undisturbed
      /\ Answering(cd) /\ Stopped /\ Refused /\ Verified /\ Unchanged
  BY DEF Held, DiscInv, RolesInv, ErrorInv
<1>2. RolesInv' /\ ErrorInv'
  BY <1>1, RolesStep, InductiveStep DEF AnsweredInTurn
<1>3. Moves /\ Sees
  BY StepMoves
<1>4. /\ lid' = "closed" => lid \in {"latched", "closed"}
      /\ \/ disc' = disc
         \/ lid' = "latched" /\ cd' = cd /\ cd.issued = "None" /\ cd.waiting = "None"
  BY <1>1, ShellMoves
<1>5. Answering(cd)'
  <2>1. Roles(cd')
    BY <1>1, AgreedStep DEF AnsweredInTurn, Agreed
  <2>2. Answering(cd')
    BY <1>3, <2>1, SettledAnswering DEF Moves
  <2> QED BY <2>2 DEF Answering
<1>6. Stopped' /\ Reporting'
  BY <1>3 DEF Moves, Sees, Reports, Stopped, Reporting
<1>7. Verified'
  <2> SUFFICES ASSUME cd'.init_command = RECOVERY_COMPLETE PROVE disc' = "game"
    BY DEF Verified
  <2>1. cd.init_command = RECOVERY_COMPLETE \/ disc = "game"
    BY <1>3 DEF Moves, Finishing, Genuine
  <2>2. disc = "game"
    BY <1>1, <2>1 DEF Verified
  <2>3. disc' = disc
    <3> SUFFICES ASSUME disc' # disc PROVE FALSE
      OBVIOUS
    <3>1. cd' = cd /\ cd.issued = "None" /\ cd.waiting = "None"
      BY <1>4
    <3>2. cd.init_command = 0
      BY <1>1, <3>1 DEF Answering
    <3> QED BY <3>1, <3>2 DEF RECOVERY_COMPLETE
  <2> QED BY <2>2, <2>3
<1>8. Refused'
  <2> SUFFICES ASSUME disc' # "game", lid' = "closed" PROVE Failing(cd')
    BY DEF Refused, ShellOpen, Failing, HasFlag
  <2>1. disc' = disc /\ lid \in {"latched", "closed"}
    BY <1>4
  <2>2. CASE lid = "latched"
    BY <1>3, <2>2 DEF Sees
  <2>3. CASE lid = "closed"
    <3>1. Failing(cd)
      BY <1>1, <2>1, <2>3 DEF Refused, ShellOpen
    <3>2. ~Finishing(cd)
      BY <1>1, <2>1 DEF Verified, Finishing
    <3> QED BY <1>3, <3>1, <3>2 DEF Moves, Lasts
  <2> QED BY <2>1, <2>2, <2>3
<1>9. Unchanged'
  BY <1>1, UnchangedStep DEF AnsweredInTurn, Unchanged
<1> QED BY <1>2, <1>5, <1>6, <1>7, <1>8, <1>9 DEF Held, DiscInv

LEMMA HeldAlways ==
    ASSUME AnsweredInTurn
    PROVE  Spec => []Held
<1>1. Init => Held
  BY RolesInit, InductiveInit, DiscInit DEF Held
<1>2. Held /\ [Next]_vars => Held'
  BY HeldStep
<1> QED BY <1>1, <1>2, PTL DEF Spec

(***************************************************************************)
(* From the moment the shell is opened until recovery has read the game's  *)
(* validation sector: the disc does not turn, the status answer that is to *)
(* report the shell belongs to a Nop of the queue, another disc is refused *)
(* with an error, and recovery ends on the game's disc only                *)
(* (cdrom_complete_command, cdrom_handle_recovery_sync, cdrom_verify_disc, *)
(* cdrom_process_state).                                                   *)
(***************************************************************************)
THEOREM DiscsHold ==
    ASSUME AnsweredInTurn
    PROVE  Spec => []DiscInv
<1>1. Held => DiscInv
  BY DEF Held
<1> QED BY <1>1, HeldAlways, PTL

(***************************************************************************)
(* No step but the one after cdrom_verify_disc has matched the sector of   *)
(* the game's disc forgets an error, whatever disc the player puts in and  *)
(* however often the shell is opened (cdrom_handle_recovery_sync).         *)
(***************************************************************************)
THEOREM ForgivenOnlyForTheGame ==
    ASSUME AnsweredInTurn
    PROVE  Spec => ValidatedDisc
<1>1. Held /\ [Next]_vars =>
        [HasFlag(cd, ErrorFlags) /\ ~HasFlag(cd', ErrorFlags) => disc = "game"]_cd
  <2> SUFFICES ASSUME Held, [Next]_vars, Failing(cd), ~Failing(cd')
               PROVE  disc = "game"
    BY DEF Failing
  <2>1. Finishing(cd)
    BY StepMoves DEF Moves, Lasts
  <2> QED BY <2>1 DEF Finishing, Held, DiscInv, Verified
<1> QED BY <1>1, HeldAlways, PTL DEF Spec, ValidatedDisc

(***************************************************************************)
(* The shell-open bit is cleared in the drive by the first status answer   *)
(* after the shell was closed; this answer always reaches a handler that   *)
(* acts on it (cdrom_complete_command; cdrom_process_state, whose polls    *)
(* look at the bit themselves).                                            *)
(***************************************************************************)
THEOREM NoOpenedShellMissed ==
    ASSUME AnsweredInTurn
    PROVE  Spec => ShellOpenDetected
<1>1. Held /\ [Next]_vars =>
        [lid = "latched" /\ lid' = "closed" => HasFlag(cd', ErrorFlags)]_<<cd, lid>>
  <2> SUFFICES ASSUME Held, [Next]_vars, lid = "latched", lid' = "closed"
               PROVE  Failing(cd')
    BY DEF Failing
  <2> QED BY StepMoves DEF Sees
<1> QED BY <1>1, HeldAlways, PTL DEF Spec, ShellOpenDetected

(* A sector that is stored comes from the game's disc. *)
LEMMA StoredFromGame ==
    ASSUME AnsweredInTurn, Held, [Next]_vars, cd'.memory # cd.memory
    PROVE  disc = "game"
<1>1. cd.reading /\ cd.ready_callback = "handle_ready_intr"
  BY StepMoves DEF Moves
<1>2. ~ShellOpen
  BY <1>1 DEF Held, DiscInv, Stopped
<1>3. ~Failing(cd)
  BY <1>1 DEF Held, ErrorInv, Guarded
<1> QED BY <1>2, <1>3 DEF Held, DiscInv, Refused

(* ... and goes to its place in the sink of the read at the read index. *)
LEMMA StoredThere ==
    ASSUME ReadsInTurn, Held, TransferInv, [Next]_vars,
           NEW s \in Sinks, NEW o \in Offsets, cd'.memory[s][o] # cd.memory[s][o]
    PROVE  /\ ~IsEmpty(cd) /\ Served.command = "ReadN"
           /\ s = SinkOf(Served) /\ o < ServedExtent.size
           /\ cd'.memory[s][o] = ServedExtent.loc + o
<1>1. Progress(cd, cd')
  BY StepProgress DEF Held
<1>2. cd.memory \in [Sinks -> [Offsets -> Positions]]
  BY HeldFacts DEF MachineType
<1>3. PutsOne(cd, cd')
  BY <1>1 DEF Progress, Accepts, Clears, Serves
<1>4. PICK p \in 0..HeadExtent(cd).size - 1 :
        cd'.memory = [cd.memory EXCEPT ![SinkOf(HeadItem(cd))][p] = HeadExtent(cd).loc + p]
  BY <1>3 DEF PutsOne
<1> DEFINE sink == SinkOf(HeadItem(cd))
           place == HeadExtent(cd).loc + p
<1>5. cd'.memory = [cd.memory EXCEPT ![sink][p] = place]
  BY <1>4
<1>6. HeadExtent(cd).size \in Nat
  <2>1. HeadItem(cd) \in Request
    BY HeldFacts DEF HeadItem, MachineType
  <2> QED BY <2>1, DiscAssumption DEF HeadExtent, Request
<1>7. p < HeadExtent(cd).size
  BY <1>6
<1> HIDE DEF sink, place
<1>8. s = sink /\ o = p /\ cd'.memory[s][o] = place
  BY <1>2, <1>5
<1> QED BY <1>3, <1>7, <1>8 DEF PutsOne, Served, ServedExtent, HeadExtent, sink, place

(***************************************************************************)
(* A sector is written only for the read at the read index, only at the    *)
(* offset that its disc position calls for, and only from the game's disc  *)
(* (cdrom_process_data_sector, cdrom_process_sector), whatever interrupts, *)
(* retries and disc changes come in between.                               *)
(***************************************************************************)
THEOREM NothingMisplaced ==
    ASSUME AnsweredInTurn, ReadsInTurn
    PROVE  Spec => StoredInPlace
<1>1. Spec => []TransferInv
  BY TransfersHold
<1>2. Held /\ TransferInv /\ [Next]_vars =>
        [ \A s \in Sinks, o \in Offsets :
            cd'.memory[s][o] # cd.memory[s][o] =>
              /\ disc = "game"
              /\ ~IsEmpty(cd) /\ Served.command = "ReadN"
              /\ s = SinkOf(Served) /\ o < ServedExtent.size
              /\ cd'.memory[s][o] = ServedExtent.loc + o ]_cd
  <2> SUFFICES ASSUME Held, TransferInv, [Next]_vars,
                      NEW s \in Sinks, NEW o \in Offsets, cd'.memory[s][o] # cd.memory[s][o]
               PROVE  /\ disc = "game"
                      /\ ~IsEmpty(cd) /\ Served.command = "ReadN"
                      /\ s = SinkOf(Served) /\ o < ServedExtent.size
                      /\ cd'.memory[s][o] = ServedExtent.loc + o
    OBVIOUS
  <2>1. cd'.memory # cd.memory
    OBVIOUS
  <2>2. disc = "game"
    BY <2>1, StoredFromGame
  <2> QED BY <2>2, StoredThere
<1> QED BY <1>1, <1>2, HeldAlways, PTL DEF Spec, StoredInPlace
=============================================================================
