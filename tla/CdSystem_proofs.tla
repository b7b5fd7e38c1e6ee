-------------------------- MODULE CdSystem_proofs --------------------------
(***************************************************************************)
(* The type invariant of the command core, for every queue size, disc,     *)
(* retry limit, offer of requests and kind of fault: each handler maps     *)
(* machines to machines, and most of them do not report an error (Calmer). *)
(*                                                                         *)
(* And, in the second half: after an error nothing answers an interrupt    *)
(* until the game has serviced the error (ErrorDisarms), for any number of *)
(* refused commands, read errors, time-outs, failed polls and disc         *)
(* changes, as long as the program reads data files.  (With movies, lost   *)
(* answers or an interrupt between two looks of cdrom_process_state it     *)
(* does not hold; see the README.)                                         *)
(***************************************************************************)
EXTENDS CdErrors, FiniteSetTheorems, WellFoundedInduction, TLAPS

-----------------------------------------------------------------------------
(* Numbers: the ring, the least index of a search. *)

(* A nonempty set of natural numbers has a least element, and Min is it. *)
LEMMA MinOfNats ==
    ASSUME NEW S \in SUBSET Nat, S # {}
    PROVE  Min(S) \in S /\ \A y \in S : Min(S) =< y
<1> DEFINE Less == {p \in Nat \X Nat : p[1] < p[2]}
<1>1. IsWellFoundedOn(Less, Nat)
  BY NatLessThanWellFounded DEF OpToRel
<1>2. \E x \in S : \A y \in S : ~ (<<y, x>> \in Less)
  <2> HIDE DEF Less
  <2> QED BY <1>1, WFMin
<1>3. PICK x \in S : \A y \in S : ~ (<<y, x>> \in Less)
  BY <1>2
<1>4. ASSUME NEW y \in S PROVE x =< y
  <2>1. <<y, x>> \in Nat \X Nat /\ <<y, x>> \notin Less
    BY <1>3
  <2> QED BY <2>1
<1> QED BY <1>4 DEF Min

(* Any index taken modulo the ring's size is a slot. *)
LEMMA SlotOf ==
    ASSUME NEW i \in Int
    PROVE  i % QueueSize \in Slots
BY QueueAssumption DEF Slots

LEMMA SlotsAreNat == Slots \in SUBSET Nat
BY QueueAssumption DEF Slots

-----------------------------------------------------------------------------
(* The values the handlers assign are of the fields' types. *)

LEMMA CommandValues ==
    /\ "None" \in Commands /\ "Nop" \in Commands /\ "SeekL" \in Commands
    /\ "ReadN" \in Commands /\ "ReadS" \in Commands /\ "Pause" \in Commands
    /\ "Setmode" \in Commands /\ "Setfilter" \in Commands /\ "Demute" \in Commands
BY DEF Commands

LEMMA StepValues ==
    /\ 0 \in InitCommands
    /\ PAUSE \in InitCommands /\ AUDIO_PAUSE \in InitCommands
    /\ RESTORE_MODE \in InitCommands
    /\ STEP_SET_FILTER \in InitCommands /\ STEP_DEMUTE \in InitCommands
    /\ STEP_PAUSE \in InitCommands /\ STEP_COMPLETE \in InitCommands
    /\ RECOVERY_SET_MODE \in InitCommands /\ RECOVERY_READ_DISC_ID \in InitCommands
    /\ RECOVERY_RETRY_READ \in InitCommands /\ RECOVERY_COMPLETE \in InitCommands
BY DEF InitCommands, PAUSE, AUDIO_PAUSE, RESTORE_MODE,
       STEP_SET_FILTER, STEP_DEMUTE, STEP_PAUSE, STEP_COMPLETE,
       RECOVERY_SET_MODE, RECOVERY_READ_DISC_ID, RECOVERY_RETRY_READ, RECOVERY_COMPLETE

LEMMA StateValues ==
    /\ IDLE \in InitStates /\ POLL_STATUS \in InitStates /\ CHECK_DISC \in InitStates
    /\ WAIT_FOR_DISC \in InitStates /\ WAIT_FOR_DRIVE \in InitStates
    /\ CHECK_DISC_TYPE \in InitStates /\ SET_MODE \in InitStates
    /\ READ_DISC_ID \in InitStates /\ WAIT_FOR_READ \in InitStates
    /\ ERROR_PAUSE \in InitStates /\ RETRY_READ \in InitStates
    /\ RECONF_SET_MODE \in InitStates /\ RECONF_SET_FILTER \in InitStates
    /\ RECONF_WAIT \in InitStates
BY DEF InitStates, IDLE, POLL_STATUS, CHECK_DISC, WAIT_FOR_DISC, WAIT_FOR_DRIVE, CHECK_DISC_TYPE,
       SET_MODE, READ_DISC_ID, WAIT_FOR_READ, ERROR_PAUSE, RETRY_READ,
       RECONF_SET_MODE, RECONF_SET_FILTER, RECONF_WAIT

LEMMA NumberValues ==
    /\ 0 \in Positions /\ ValidationLocation \in Positions /\ NoPosition \in Positions
    /\ 0 \in 0..SectorRetryLimit /\ 0 \in Slots
BY QueueAssumption, LimitAssumption, DiscAssumption
   DEF Positions, ValidationLocation, NoPosition, Slots

LEMMA FlagValues ==
    /\ "SYNC_ERROR" \in Flags /\ "RECOVERY_PENDING" \in Flags
    /\ "INVALID_DISC" \in Flags /\ "NO_DISC" \in Flags /\ "QUEUE_LOCK" \in Flags
BY DEF ErrorFlags, RecoveryFlags, Flags

LEMMA FlagSets ==
    ASSUME NEW flags \in SUBSET Flags
    PROVE  /\ \A f \in Flags : flags \cup {f} \in SUBSET Flags
           /\ \A f : flags \ f \in SUBSET Flags
OBVIOUS

(* The extent of a request's resource. *)
LEMMA ExtentType ==
    ASSUME NEW req \in Request
    PROVE  Extent[req.resource].loc \in Positions /\ Extent[req.resource].size \in Nat
BY DiscAssumption DEF Request, Positions

(* What is in the ring. *)
LEMMA ItemType ==
    ASSUME NEW m \in MachineType, NEW i \in Slots
    PROVE  /\ m.items[i] \in Request
           /\ m.items[i].command \in Commands
           /\ m.items[i].dst \in Buffers \cup {NULL}
           /\ m.items[i].callback \in Callbacks \cup {NULL}
BY DEF MachineType, Request

LEMMA HeadItemType ==
    ASSUME NEW m \in MachineType
    PROVE  /\ HeadItem(m) \in Request
           /\ HeadItem(m).command \in Commands
           /\ HeadItem(m).dst \in Buffers \cup {NULL}
           /\ HeadItem(m).callback \in Callbacks \cup {NULL}
<1>1. m.queue_read_index \in Slots
  BY DEF MachineType
<1> QED BY <1>1, ItemType DEF HeadItem

LEMMA IndexType ==
    ASSUME NEW m \in MachineType
    PROVE  /\ m.queue_read_index \in Slots /\ m.queue_read_index \in Int
           /\ m.queue_write_index \in Slots /\ m.queue_write_index \in Int
<1>1. m.queue_read_index \in Slots /\ m.queue_write_index \in Slots
  BY DEF MachineType
<1> QED BY <1>1, QueueAssumption DEF Slots

(* One field at a time. *)
LEMMA FieldUpdates ==
    ASSUME NEW m \in MachineType
    PROVE  /\ \A v \in SUBSET Flags : [m EXCEPT !.status_flags = v] \in MachineType
           /\ \A v \in InitStates : [m EXCEPT !.init_state = v] \in MachineType
           /\ \A v \in InitCommands : [m EXCEPT !.init_command = v] \in MachineType
           /\ \A v \in BOOLEAN : [m EXCEPT !.init_retry = v] \in MachineType
           /\ \A v \in BOOLEAN : [m EXCEPT !.data_ready_pending = v] \in MachineType
           /\ \A v \in BOOLEAN : [m EXCEPT !.audio_enabled = v] \in MachineType
           /\ \A v \in BOOLEAN : [m EXCEPT !.sync_complete = v] \in MachineType
           /\ \A v \in Commands : [m EXCEPT !.current_command = v] \in MachineType
           /\ \A v \in Slots : [m EXCEPT !.queue_read_index = v] \in MachineType
           /\ \A v \in 0..SectorRetryLimit : [m EXCEPT !.retry_count = v] \in MachineType
           /\ \A v \in Nat : [m EXCEPT !.retry_counter = v] \in MachineType
           /\ \A v \in Positions : [m EXCEPT !.current_location = v] \in MachineType
           /\ [m EXCEPT !.sync_callback = "none"] \in MachineType
           /\ [m EXCEPT !.sync_callback = "handle_recovery_sync"] \in MachineType
           /\ [m EXCEPT !.ready_callback = "none"] \in MachineType
           /\ [m EXCEPT !.trap = @ \cup {"null_callback"}] \in MachineType
<1>1. \A v \in SUBSET Flags : [m EXCEPT !.status_flags = v] \in MachineType
  BY DEF MachineType
<1>2. \A v \in InitStates : [m EXCEPT !.init_state = v] \in MachineType
  BY DEF MachineType
<1>3. \A v \in InitCommands : [m EXCEPT !.init_command = v] \in MachineType
  BY DEF MachineType
<1>4. \A v \in BOOLEAN : [m EXCEPT !.init_retry = v] \in MachineType
  BY DEF MachineType
<1>5. \A v \in BOOLEAN : [m EXCEPT !.data_ready_pending = v] \in MachineType
  BY DEF MachineType
<1>6. \A v \in BOOLEAN : [m EXCEPT !.audio_enabled = v] \in MachineType
  BY DEF MachineType
<1>7. \A v \in BOOLEAN : [m EXCEPT !.sync_complete = v] \in MachineType
  BY DEF MachineType
<1>8. \A v \in Commands : [m EXCEPT !.current_command = v] \in MachineType
  BY DEF MachineType
<1>9. \A v \in Slots : [m EXCEPT !.queue_read_index = v] \in MachineType
  BY DEF MachineType
<1>10. \A v \in 0..SectorRetryLimit : [m EXCEPT !.retry_count = v] \in MachineType
  BY DEF MachineType
<1>11. \A v \in Nat : [m EXCEPT !.retry_counter = v] \in MachineType
  BY DEF MachineType
<1>12. \A v \in Positions : [m EXCEPT !.current_location = v] \in MachineType
  BY DEF MachineType
<1>13. [m EXCEPT !.sync_callback = "none"] \in MachineType
  BY DEF MachineType
<1>14. [m EXCEPT !.sync_callback = "handle_recovery_sync"] \in MachineType
  BY DEF MachineType
<1>15. [m EXCEPT !.ready_callback = "none"] \in MachineType
  BY DEF MachineType
<1>16. [m EXCEPT !.trap = @ \cup {"null_callback"}] \in MachineType
  BY DEF MachineType
<1> QED BY <1>1, <1>2, <1>3, <1>4, <1>5, <1>6, <1>7, <1>8, <1>9, <1>10, <1>11, <1>12, <1>13, <1>14, <1>15, <1>16

-----------------------------------------------------------------------------
(***************************************************************************)
(* All handlers but HandleSyncError leave the entries of the ring as they  *)
(* are and raise no error, and movie mode begins only for a movie.         *)
(***************************************************************************)

MovieQueued(m) == \E i \in Slots : m.items[i].command = "ReadS"

Calmer(m, n) ==
    /\ n.items = m.items
    /\ n.status_flags \subseteq m.status_flags
    /\ n.audio_enabled => m.audio_enabled \/ MovieQueued(m)

LEMMA CalmerReflexive ==
    ASSUME NEW m
    PROVE  Calmer(m, m)
BY DEF Calmer

LEMMA CalmerTransitive ==
    ASSUME NEW m, NEW n, NEW p, Calmer(m, n), Calmer(n, p)
    PROVE  Calmer(m, p)
BY DEF Calmer, MovieQueued

(* One field at a time, once more. *)
LEMMA FieldsCalm ==
    ASSUME NEW m \in MachineType, NEW v
    PROVE  /\ Calmer(m, [m EXCEPT !.init_state = v])
           /\ Calmer(m, [m EXCEPT !.init_command = v])
           /\ Calmer(m, [m EXCEPT !.init_retry = v])
           /\ Calmer(m, [m EXCEPT !.data_ready_pending = v])
           /\ Calmer(m, [m EXCEPT !.sync_complete = v])
           /\ Calmer(m, [m EXCEPT !.current_command = v])
           /\ Calmer(m, [m EXCEPT !.queue_read_index = v])
           /\ Calmer(m, [m EXCEPT !.retry_count = v])
           /\ Calmer(m, [m EXCEPT !.current_location = v])
           /\ Calmer(m, [m EXCEPT !.sync_callback = v])
           /\ Calmer(m, [m EXCEPT !.ready_callback = v])
           /\ Calmer(m, [m EXCEPT !.trap = v])
           /\ Calmer(m, [m EXCEPT !.audio_enabled = FALSE])
BY DEF Calmer, MachineType

-----------------------------------------------------------------------------
(* libcd *)

LEMMA DisarmType ==
    ASSUME NEW m \in MachineType
    PROVE  Disarm(m) \in MachineType /\ Calmer(m, Disarm(m))
<1>1. Disarm(m) \in MachineType
  BY DEF Disarm, MachineType
<1>2. Calmer(m, Disarm(m))
  BY DEF Calmer, Disarm, MachineType
<1> QED BY <1>1, <1>2

LEMMA CdControlFType ==
    ASSUME NEW m \in MachineType, NEW command \in Commands, NEW location \in Positions
    PROVE  CdControlF(m, command, location) \in MachineType /\ Calmer(m, CdControlF(m, command, location))
<1>1. [m EXCEPT !.issued = command, !.issued_location = location] \in MachineType
  BY DEF MachineType
<1>2. [m EXCEPT !.waiting = command, !.waiting_location = location] \in MachineType
  BY DEF MachineType
<1>3. /\ Calmer(m, [m EXCEPT !.issued = command, !.issued_location = location])
      /\ Calmer(m, [m EXCEPT !.waiting = command, !.waiting_location = location])
  BY DEF Calmer, MachineType
<1> QED BY <1>1, <1>2, <1>3 DEF CdControlF

LEMMA ExecutedType ==
    ASSUME NEW m \in MachineType
    PROVE  Executed(m) \in MachineType /\ Calmer(m, Executed(m))
<1> DEFINE reads == IF m.issued \in {"ReadN", "ReadS"} THEN TRUE
                    ELSE m.issued \notin {"Pause", "SeekL"} /\ m.reading
           next == IF m.issued \in {"ReadN", "ReadS"} THEN m.issued_location ELSE m.head
           filter == m.filtered \/ m.issued = "Setfilter"
<1>1. reads \in BOOLEAN /\ next \in Positions /\ filter \in BOOLEAN
  BY DEF MachineType
<1>2. Executed(m) =
        [m EXCEPT !.issued = "None", !.reading = reads, !.head = next, !.filtered = filter]
  BY DEF Executed
<1> HIDE DEF reads, next, filter
<1>3. [m EXCEPT !.issued = "None", !.reading = reads, !.head = next, !.filtered = filter]
        \in MachineType
  BY <1>1, CommandValues, ZenonT(30) DEF MachineType
<1>4. Calmer(m, [m EXCEPT !.issued = "None", !.reading = reads, !.head = next, !.filtered = filter])
  BY DEF Calmer, MachineType
<1> QED BY <1>2, <1>3, <1>4

LEMMA BlockingPauseType ==
    ASSUME NEW m \in MachineType
    PROVE  BlockingPause(m) \in MachineType /\ Calmer(m, BlockingPause(m))
<1>1. BlockingPause(m) \in MachineType
  BY CommandValues, ZenonT(30) DEF BlockingPause, MachineType
<1>2. Calmer(m, BlockingPause(m))
  BY DEF Calmer, BlockingPause, MachineType
<1> QED BY <1>1, <1>2

LEMMA StoreSectorType ==
    ASSUME NEW m \in MachineType, NEW sink, NEW offset
    PROVE  StoreSector(m, sink, offset) \in MachineType /\ Calmer(m, StoreSector(m, sink, offset))
<1>1. CASE sink = NULL
  <2>1. StoreSector(m, sink, offset) \in MachineType
    BY <1>1 DEF StoreSector, MachineType
  <2>2. Calmer(m, StoreSector(m, sink, offset))
    BY <1>1 DEF StoreSector, Calmer, MachineType
  <2> QED BY <2>1, <2>2
<1>2. CASE sink # NULL
  <2>1. [m.memory EXCEPT ![sink][offset] = m.sector] \in [Sinks -> [Offsets -> Positions]]
    BY DEF MachineType
  <2>2. StoreSector(m, sink, offset) \in MachineType
    BY <1>2, <2>1, ZenonT(30) DEF StoreSector, MachineType
  <2>3. Calmer(m, StoreSector(m, sink, offset))
    BY <1>2 DEF StoreSector, Calmer, MachineType
  <2> QED BY <2>2, <2>3
<1> QED BY <1>1, <1>2

-----------------------------------------------------------------------------
(* Dispatch *)

LEMMA RetireType ==
    ASSUME NEW m \in MachineType
    PROVE  Retire(m) \in MachineType /\ Calmer(m, Retire(m))
<1> DEFINE next == Next1(m.queue_read_index)
<1>1. next \in Slots
  <2>1. m.queue_read_index + 1 \in Int
    BY IndexType
  <2> QED BY <2>1, SlotOf DEF Next1
<1> DEFINE moved == [m EXCEPT !.queue_read_index = next]
<1>2. Retire(m) = [moved EXCEPT !.playback_state = FALSE, !.transfer_callback = NULL]
  BY DEF Retire
<1>3. moved \in MachineType /\ Calmer(m, moved)
  BY <1>1, FieldUpdates, FieldsCalm
<1> HIDE DEF next, moved
<1>4. [moved EXCEPT !.playback_state = FALSE, !.transfer_callback = NULL] \in MachineType
  BY <1>3, ZenonT(30) DEF MachineType
<1>5. Calmer(moved, [moved EXCEPT !.playback_state = FALSE, !.transfer_callback = NULL])
  BY <1>3 DEF Calmer, MachineType
<1> QED BY <1>2, <1>3, <1>4, <1>5, CalmerTransitive

LEMMA DispatchSeekType ==
    ASSUME NEW m \in MachineType, NEW mode
    PROVE  DispatchSeek(m, mode) \in MachineType /\ Calmer(m, DispatchSeek(m, mode))
<1> DEFINE location == Extent[HeadItem(m).resource].loc
           ready == IF mode = "COMMAND_THEN_READ" THEN "none" ELSE m.ready_callback
           seeking == [m EXCEPT !.transfer_callback = NULL,
                                !.playback_state = FALSE,
                                !.current_location = location,
                                !.current_command = "SeekL",
                                !.ready_callback = ready]
<1>1. location \in Positions
  BY HeadItemType, ExtentType
<1>2. ready \in {"none", "handle_ready_intr", "verify_disc"}
  BY DEF MachineType
<1>3. DispatchSeek(m, mode) = CdControlF(seeking, "SeekL", location)
  BY DEF DispatchSeek
<1> HIDE DEF location, ready
<1>4. seeking \in MachineType
  BY <1>1, <1>2, CommandValues, ZenonT(30) DEF MachineType
<1>5. Calmer(m, seeking)
  BY DEF Calmer, MachineType
<1> HIDE DEF seeking
<1> QED BY <1>1, <1>3, <1>4, <1>5, CommandValues, CdControlFType, CalmerTransitive

LEMMA DispatchOtherType ==
    ASSUME NEW m \in MachineType, NEW command \in Commands, NEW mode
    PROVE  DispatchOther(m, command, mode) \in MachineType /\ Calmer(m, DispatchOther(m, command, mode))
<1> DEFINE ready == IF mode = "COMMAND_THEN_READ" THEN "none" ELSE m.ready_callback
           started == [m EXCEPT !.current_command = command, !.ready_callback = ready]
<1>1. ready \in {"none", "handle_ready_intr", "verify_disc"}
  BY DEF MachineType
<1>2. DispatchOther(m, command, mode) = CdControlF(started, command, 0)
  BY DEF DispatchOther
<1> HIDE DEF ready
<1>3. started \in MachineType
  BY <1>1, ZenonT(30) DEF MachineType
<1>4. Calmer(m, started)
  BY DEF Calmer, MachineType
<1> HIDE DEF started
<1> QED BY <1>2, <1>3, <1>4, NumberValues, CdControlFType, CalmerTransitive

LEMMA DispatchReadType ==
    ASSUME NEW m \in MachineType, NEW command \in Commands, NEW mode
    PROVE  DispatchRead(m, command, mode) \in MachineType /\ Calmer(m, DispatchRead(m, command, mode))
<1> DEFINE item == HeadItem(m)
           extent == Extent[item.resource]
           resume == m.playback_state /\ ~(item.callback = NULL
                        /\ m.write_ptr = [buffer |-> item.dst, offset |-> 0])
           size == IF m.playback_state THEN 0 ELSE extent.size
           location == IF m.playback_state THEN m.current_location ELSE extent.loc
           trapped == IF m.playback_state THEN {"null_entry"} ELSE {}
           located == [m EXCEPT !.current_location = location,
                                !.current_command = command,
                                !.playback_state = FALSE]
           loaded == IF resume THEN located
                     ELSE [located EXCEPT
                             !.total_data = size,
                             !.read_remaining = size,
                             !.write_ptr = [buffer |-> item.dst, offset |-> 0],
                             !.transfer_callback = item.callback,
                             !.trap = @ \cup trapped]
           armed == IF mode # "ASYNC" THEN loaded
                    ELSE [loaded EXCEPT !.data_ready_pending = FALSE,
                                        !.ready_callback = "handle_ready_intr"]
<1>1. DispatchRead(m, command, mode) = CdControlF(armed, command, armed.current_location)
  BY DEF DispatchRead
<1>2. size \in Nat /\ location \in Positions
  BY HeadItemType, ExtentType DEF MachineType
<1>3. trapped \in SUBSET {"null_destination", "null_entry", "null_callback"}
  OBVIOUS
<1>4. /\ item.callback \in Callbacks \cup {NULL}
      /\ [buffer |-> item.dst, offset |-> 0] \in [buffer : Buffers \cup {NULL}, offset : Nat]
  BY HeadItemType
<1> HIDE DEF item, size, location, trapped, resume
<1>5. located \in MachineType /\ Calmer(m, located)
  <2>1. located \in MachineType
    BY <1>2, ZenonT(30) DEF MachineType
  <2>2. Calmer(m, located)
    BY DEF Calmer, MachineType
  <2> QED BY <2>1, <2>2
<1> HIDE DEF located
<1>6. loaded \in MachineType /\ Calmer(located, loaded)
  <2>1. located.trap \cup trapped \in SUBSET {"null_destination", "null_entry", "null_callback"}
    BY <1>3, <1>5 DEF MachineType
  <2>2. [located EXCEPT !.total_data = size,
                        !.read_remaining = size,
                        !.write_ptr = [buffer |-> item.dst, offset |-> 0],
                        !.transfer_callback = item.callback,
                        !.trap = @ \cup trapped] \in MachineType
    BY <1>2, <1>4, <1>5, <2>1, ZenonT(30) DEF MachineType
  <2>3. Calmer(located, [located EXCEPT !.total_data = size,
                                        !.read_remaining = size,
                                        !.write_ptr = [buffer |-> item.dst, offset |-> 0],
                                        !.transfer_callback = item.callback,
                                        !.trap = @ \cup trapped])
    BY <1>5 DEF Calmer, MachineType
  <2> QED BY <1>5, <2>2, <2>3, CalmerReflexive
<1> HIDE DEF loaded
<1>7. armed \in MachineType /\ Calmer(loaded, armed)
  <2> DEFINE a == [loaded EXCEPT !.data_ready_pending = FALSE,
                                 !.ready_callback = "handle_ready_intr"]
  <2>1. a \in MachineType
    BY <1>6, ZenonT(30) DEF MachineType
  <2>2. Calmer(loaded, a)
    BY <1>6 DEF Calmer, MachineType
  <2> QED BY <1>6, <2>1, <2>2, CalmerReflexive
<1> HIDE DEF armed
<1>8. armed.current_location \in Positions
  BY <1>7 DEF MachineType
<1>9. Calmer(m, armed)
  BY <1>5, <1>6, <1>7, CalmerTransitive
<1> QED BY <1>1, <1>7, <1>8, <1>9, CdControlFType, CalmerTransitive

LEMMA RunCommandType ==
    ASSUME NEW m \in MachineType, NEW command \in Commands, NEW mode
    PROVE  RunCommand(m, command, mode) \in MachineType /\ Calmer(m, RunCommand(m, command, mode))
<1> DEFINE last == LastPending(m)
           Ahead(k) == (m.queue_read_index + k) % QueueSize
           CommandAt(k) == IF k = 0 THEN command ELSE m.items[Ahead(k)].command
           stops == {k \in 0..last : k = last \/ CommandAt(k) # "SeekL"}
           skip == Min(stops)
           skipped == [m EXCEPT !.queue_read_index = Ahead(skip)]
<1>1. last \in Nat
  BY QueueAssumption DEF LastPending, MachineType, Slots
<1>2. skip \in stops
  <2>1. stops \in SUBSET Nat /\ last \in stops
    BY <1>1
  <2> HIDE DEF stops
  <2> QED BY <2>1, MinOfNats
<1>3. skip \in Int
  <2>1. stops \subseteq Int
    BY <1>1
  <2> HIDE DEF stops, skip
  <2> QED BY <1>2, <2>1
<1>4. RunCommand(m, command, mode) =
        CASE CommandAt(skip) \in {"ReadN", "ReadS"} -> DispatchRead(skipped, CommandAt(skip), mode)
          [] CommandAt(skip) = "SeekL" -> DispatchSeek(skipped, mode)
          [] OTHER -> DispatchOther(skipped, CommandAt(skip), mode)
  BY DEF RunCommand
<1> HIDE DEF skip, stops, last
<1>5. Ahead(skip) \in Slots
  <2>1. m.queue_read_index + skip \in Int
    BY <1>3, IndexType
  <2> QED BY <2>1, SlotOf
<1>6. CommandAt(skip) \in Commands
  BY <1>5, ItemType
<1> HIDE DEF Ahead
<1>7. skipped \in MachineType /\ Calmer(m, skipped)
  BY <1>5, FieldUpdates, FieldsCalm
<1> HIDE DEF skipped, CommandAt
<1> QED BY <1>4, <1>6, <1>7, DispatchReadType, DispatchSeekType, DispatchOtherType,
           CalmerTransitive

-----------------------------------------------------------------------------
(* The sync callback of normal operation *)

LEMMA HandleSyncErrorType ==
    ASSUME NEW m \in MachineType
    PROVE  HandleSyncError(m) \in MachineType
<1> DEFINE off == Disarm(m)
<1>1. off \in MachineType
  BY DisarmType
<1>2. HandleSyncError(m) =
        [off EXCEPT !.init_state = IDLE,
                    !.status_flags = @ \cup {"SYNC_ERROR"},
                    !.current_command = "None",
                    !.init_command = 0,
                    !.init_retry = FALSE,
                    !.retry_count = 0,
                    !.retry_counter = 0]
  BY DEF HandleSyncError
<1> HIDE DEF off
<1>3. off.status_flags \cup {"SYNC_ERROR"} \in SUBSET Flags
  BY <1>1, FlagValues DEF MachineType
<1>4. [off EXCEPT !.init_state = IDLE,
                  !.status_flags = @ \cup {"SYNC_ERROR"},
                  !.current_command = "None",
                  !.init_command = 0,
                  !.init_retry = FALSE,
                  !.retry_count = 0,
                  !.retry_counter = 0] \in MachineType
  BY <1>1, <1>3, StateValues, CommandValues, StepValues, NumberValues, ZenonT(30) DEF MachineType
<1> QED BY <1>2, <1>4

LEMMA GoIdleType ==
    ASSUME NEW m \in MachineType
    PROVE  GoIdle(m) \in MachineType /\ Calmer(m, GoIdle(m))
<1>1. GoIdle(m) \in MachineType
  BY CommandValues, ZenonT(30) DEF GoIdle, MachineType
<1>2. Calmer(m, GoIdle(m))
  BY DEF Calmer, GoIdle, MachineType
<1> QED BY <1>1, <1>2

(* The entry at the read index is one of the ring's. *)
LEMMA HeadQueued ==
    ASSUME NEW m \in MachineType, HeadItem(m).command = "ReadS"
    PROVE  MovieQueued(m)
<1>1. m.queue_read_index \in Slots
  BY DEF MachineType
<1> QED BY <1>1 DEF HeadItem, MovieQueued

LEMMA AsMovieType ==
    ASSUME NEW m \in MachineType, NEW command, command = "ReadS" => MovieQueued(m)
    PROVE  AsMovie(m, command) \in MachineType /\ Calmer(m, AsMovie(m, command))
<1> DEFINE enabled == m.audio_enabled \/ command = "ReadS"
<1>1. enabled \in BOOLEAN
  OBVIOUS
<1>2. AsMovie(m, command) = [m EXCEPT !.audio_enabled = enabled]
  BY DEF AsMovie
<1>3. [m EXCEPT !.audio_enabled = enabled] \in MachineType
  BY <1>1, FieldUpdates
<1>4. Calmer(m, [m EXCEPT !.audio_enabled = enabled])
  BY <1>1 DEF Calmer, MachineType
<1> QED BY <1>2, <1>3, <1>4

LEMMA RunQueuedType ==
    ASSUME NEW m \in MachineType, NEW command \in Commands, command = "ReadS" => MovieQueued(m)
    PROVE  RunQueued(m, command) \in MachineType /\ Calmer(m, RunQueued(m, command))
<1> DEFINE movie == AsMovie(m, command)
           sent == IF command = "ReadS" THEN "ReadN" ELSE command
<1>1. sent \in Commands
  BY CommandValues
<1>2. movie \in MachineType /\ Calmer(m, movie)
  BY AsMovieType
<1>3. RunQueued(m, command) = RunCommand(movie, sent, "ASYNC")
  BY DEF RunQueued
<1> HIDE DEF movie, sent
<1> QED BY <1>1, <1>2, <1>3, RunCommandType, CalmerTransitive

LEMMA DispatchHeadType ==
    ASSUME NEW m \in MachineType
    PROVE  DispatchHead(m) \in MachineType /\ Calmer(m, DispatchHead(m))
<1> DEFINE EntryAt(k) == (m.queue_read_index + k) % QueueSize
           count == PendingCount(m)
           IsLast(k) == k = count
           stops == {k \in 0..count : IsLast(k) \/ m.items[EntryAt(k)].command # "Nop"}
           k0 == Min(stops)
           moved == [m EXCEPT !.queue_read_index = EntryAt(k0)]
<1>1. DispatchHead(m) =
        IF HeadItem(m).command # "Nop" THEN RunQueued(m, HeadItem(m).command)
        ELSE IF IsLast(k0) THEN GoIdle(moved)
        ELSE RunQueued(moved, HeadItem(moved).command)
  BY DEF DispatchHead
<1>2. count \in Nat
  BY QueueAssumption, IndexType DEF PendingCount
<1>3. k0 \in Int
  <2>1. stops \in SUBSET Nat /\ count \in stops
    BY <1>2
  <2> HIDE DEF stops, count
  <2>2. k0 \in stops
    BY <2>1, MinOfNats
  <2> HIDE DEF k0
  <2> QED BY <2>1, <2>2
<1> HIDE DEF k0, stops, count
<1>4. EntryAt(k0) \in Slots
  <2>1. m.queue_read_index + k0 \in Int
    BY <1>3, IndexType
  <2> QED BY <2>1, SlotOf
<1> HIDE DEF EntryAt
<1>5. moved \in MachineType /\ Calmer(m, moved)
  BY <1>4, FieldUpdates, FieldsCalm
<1> HIDE DEF moved, IsLast
<1>6. /\ GoIdle(moved) \in MachineType
      /\ Calmer(m, GoIdle(moved))
  BY <1>5, GoIdleType, CalmerTransitive
<1>7. ASSUME NEW n \in MachineType
      PROVE  /\ RunQueued(n, HeadItem(n).command) \in MachineType
             /\ Calmer(n, RunQueued(n, HeadItem(n).command))
  BY HeadItemType, HeadQueued, RunQueuedType
<1>8. /\ RunQueued(moved, HeadItem(moved).command) \in MachineType
      /\ Calmer(m, RunQueued(moved, HeadItem(moved).command))
  BY <1>5, <1>7, CalmerTransitive
<1> QED BY <1>1, <1>6, <1>7, <1>8

LEMMA RetireSeekType ==
    ASSUME NEW m \in MachineType
    PROVE  RetireSeek(m) \in MachineType /\ Calmer(m, RetireSeek(m))
<1> DEFINE retired == Retire(m)
           idle == GoIdle(retired)
<1>1. RetireSeek(m) =
        IF IsEmpty(retired) THEN [idle EXCEPT !.init_command = 0, !.init_retry = FALSE]
        ELSE RunQueued(retired, HeadItem(retired).command)
  BY DEF RetireSeek
<1>2. retired \in MachineType /\ Calmer(m, retired)
  BY RetireType
<1> HIDE DEF retired
<1>3. idle \in MachineType /\ Calmer(m, idle)
  BY <1>2, GoIdleType, CalmerTransitive
<1> HIDE DEF idle
<1>4. [idle EXCEPT !.init_command = 0, !.init_retry = FALSE] \in MachineType
  BY <1>3, StepValues, ZenonT(30) DEF MachineType
<1>5. Calmer(idle, [idle EXCEPT !.init_command = 0, !.init_retry = FALSE])
  BY <1>3 DEF Calmer, MachineType
<1>6. Calmer(m, [idle EXCEPT !.init_command = 0, !.init_retry = FALSE])
  BY <1>3, <1>5, CalmerTransitive
<1>7. /\ RunQueued(retired, HeadItem(retired).command) \in MachineType
      /\ Calmer(m, RunQueued(retired, HeadItem(retired).command))
  BY <1>2, HeadItemType, HeadQueued, RunQueuedType, CalmerTransitive
<1> QED BY <1>1, <1>4, <1>6, <1>7

LEMMA CompleteCommandType ==
    ASSUME NEW m \in MachineType, NEW complete \in BOOLEAN, NEW shellOpen \in BOOLEAN
    PROVE  LET n == CompleteCommand(m, complete, shellOpen)
           IN /\ n \in MachineType
              /\ \/ Calmer(m, n)
                 \/ n = HandleSyncError([m EXCEPT !.sync_complete = TRUE])
<1> DEFINE seen == [m EXCEPT !.sync_complete = TRUE]
           nop == [seen EXCEPT !.current_command = "Nop"]
<1>1. seen \in MachineType /\ Calmer(m, seen)
  BY FieldUpdates, FieldsCalm
<1>2. CompleteCommand(m, complete, shellOpen) \in
        {HandleSyncError(seen), RunCommand(seen, HeadItem(m).command, "ASYNC"),
         CdControlF(nop, "Nop", 0), seen, RetireSeek(seen), DispatchHead(seen)}
  BY DEF CompleteCommand
<1> HIDE DEF seen
<1>3. nop \in MachineType /\ Calmer(m, nop)
  BY <1>1, FieldUpdates, FieldsCalm, CommandValues, CalmerTransitive
<1> HIDE DEF nop
<1>4. CdControlF(nop, "Nop", 0) \in MachineType /\ Calmer(m, CdControlF(nop, "Nop", 0))
  BY <1>3, CdControlFType, CommandValues, NumberValues, CalmerTransitive
<1>5. HandleSyncError(seen) \in MachineType
  BY <1>1, HandleSyncErrorType
<1>6. RetireSeek(seen) \in MachineType /\ Calmer(m, RetireSeek(seen))
  BY <1>1, RetireSeekType, CalmerTransitive
<1>7. DispatchHead(seen) \in MachineType /\ Calmer(m, DispatchHead(seen))
  BY <1>1, DispatchHeadType, CalmerTransitive
<1>8. /\ RunCommand(seen, HeadItem(m).command, "ASYNC") \in MachineType
      /\ Calmer(m, RunCommand(seen, HeadItem(m).command, "ASYNC"))
  BY <1>1, HeadItemType, RunCommandType, CalmerTransitive
<1> QED BY <1>1, <1>2, <1>4, <1>5, <1>6, <1>7, <1>8 DEF seen

-----------------------------------------------------------------------------
(* The sync callback of pauses, reconfiguration and recovery *)

LEMMA EndStepType ==
    ASSUME NEW m \in MachineType
    PROVE  EndStep(m) \in MachineType /\ Calmer(m, EndStep(m))
<1>1. EndStep(m) \in MachineType
  BY StepValues, ZenonT(30) DEF EndStep, MachineType
<1>2. Calmer(m, EndStep(m))
  BY DEF Calmer, EndStep, MachineType
<1> QED BY <1>1, <1>2

LEMMA ClearErrorsType ==
    ASSUME NEW m \in MachineType
    PROVE  ClearErrors(m) \in MachineType /\ Calmer(m, ClearErrors(m))
<1>1. m.status_flags \ ErrorFlags \in SUBSET Flags
  BY DEF MachineType
<1>2. Calmer(m, ClearErrors(m))
  BY DEF Calmer, ClearErrors, MachineType
<1> QED BY <1>1, <1>2, FieldUpdates DEF ClearErrors

LEMMA AfterPauseType ==
    ASSUME NEW m \in MachineType
    PROVE  AfterPause(m) \in MachineType /\ Calmer(m, AfterPause(m))
<1> DEFINE movie == AsMovie(m, HeadItem(m).command)
           next == [movie EXCEPT !.init_command = 0,
                                 !.sync_callback = "complete_command",
                                 !.playback_state = FALSE,
                                 !.transfer_callback = NULL]
<1>1. AfterPause(m) = IF IsEmpty(m) THEN EndStep(m) ELSE RunCommand(next, HeadItem(m).command, "ASYNC")
  BY DEF AfterPause
<1>2. movie \in MachineType /\ Calmer(m, movie)
  BY AsMovieType, HeadQueued
<1> HIDE DEF movie
<1>3. next \in MachineType
  BY <1>2, StepValues, ZenonT(30) DEF MachineType
<1>4. Calmer(movie, next)
  BY <1>2 DEF Calmer, MachineType
<1> HIDE DEF next
<1>5. /\ RunCommand(next, HeadItem(m).command, "ASYNC") \in MachineType
      /\ Calmer(next, RunCommand(next, HeadItem(m).command, "ASYNC"))
  BY <1>3, HeadItemType, RunCommandType
<1>6. Calmer(m, RunCommand(next, HeadItem(m).command, "ASYNC"))
  BY <1>2, <1>4, <1>5, CalmerTransitive
<1> QED BY <1>1, <1>5, <1>6, EndStepType

LEMMA FinishRecoveryType ==
    ASSUME NEW m \in MachineType
    PROVE  FinishRecovery(m) \in MachineType /\ Calmer(m, FinishRecovery(m))
<1> DEFINE cleared == ClearErrors(m)
           clean == [cleared EXCEPT !.init_command = 0, !.init_state = IDLE, !.retry_counter = 0]
           next == [clean EXCEPT !.current_command = "Nop", !.sync_callback = "complete_command"]
<1>1. FinishRecovery(m) = IF IsEmpty(m) THEN [clean EXCEPT !.sync_callback = "none"]
                          ELSE CdControlF(next, "Nop", 0)
  BY DEF FinishRecovery
<1>2. cleared \in MachineType /\ Calmer(m, cleared)
  BY ClearErrorsType
<1> HIDE DEF cleared
<1>3. clean \in MachineType
  BY <1>2, StepValues, StateValues, ZenonT(30) DEF MachineType
<1>4. Calmer(cleared, clean)
  BY <1>2 DEF Calmer, MachineType
<1> HIDE DEF clean
<1>5. Calmer(m, clean)
  BY <1>2, <1>4, CalmerTransitive
<1>6. next \in MachineType
  BY <1>3, CommandValues, ZenonT(30) DEF MachineType
<1>7. Calmer(clean, next)
  BY <1>3 DEF Calmer, MachineType
<1> HIDE DEF next
<1>8. /\ [clean EXCEPT !.sync_callback = "none"] \in MachineType
      /\ Calmer(m, [clean EXCEPT !.sync_callback = "none"])
  BY <1>3, <1>5, FieldUpdates, FieldsCalm, CalmerTransitive
<1>9. CdControlF(next, "Nop", 0) \in MachineType /\ Calmer(next, CdControlF(next, "Nop", 0))
  BY <1>6, CdControlFType, CommandValues, NumberValues
<1>10. Calmer(m, CdControlF(next, "Nop", 0))
  BY <1>5, <1>7, <1>9, CalmerTransitive
<1> QED BY <1>1, <1>8, <1>9, <1>10

LEMMA NextStepType ==
    ASSUME NEW m \in MachineType, NEW command \in Commands, m.init_command + 1 \in InitCommands
    PROVE  NextStep(m, command) \in MachineType /\ Calmer(m, NextStep(m, command))
<1> DEFINE next == [m EXCEPT !.init_command = @ + 1]
<1>1. next \in MachineType /\ Calmer(m, next)
  BY FieldUpdates, FieldsCalm
<1>2. NextStep(m, command) = CdControlF(next, command, 0)
  BY DEF NextStep
<1> HIDE DEF next
<1> QED BY <1>1, <1>2, CdControlFType, NumberValues, CalmerTransitive

LEMMA EndStepAtType ==
    ASSUME NEW m \in MachineType, NEW state \in InitStates
    PROVE  EndStepAt(m, state) \in MachineType /\ Calmer(m, EndStepAt(m, state))
<1>1. EndStep(m) \in MachineType /\ Calmer(m, EndStep(m))
  BY EndStepType
<1>2. /\ EndStepAt(m, state) \in MachineType
      /\ Calmer(EndStep(m), EndStepAt(m, state))
  BY <1>1, FieldUpdates, FieldsCalm DEF EndStepAt
<1> QED BY <1>1, <1>2, CalmerTransitive

LEMMA FinishReconfigurationType ==
    ASSUME NEW m \in MachineType
    PROVE  FinishReconfiguration(m) \in MachineType /\ Calmer(m, FinishReconfiguration(m))
<1> DEFINE ended == EndStepAt(m, IDLE)
           clear == [ended EXCEPT !.status_flags = @ \ {"RECOVERY_PENDING"}]
<1>1. ended \in MachineType /\ Calmer(m, ended)
  BY EndStepAtType, StateValues
<1>2. FinishReconfiguration(m) = clear
  BY DEF FinishReconfiguration
<1> HIDE DEF ended
<1>3. ended.status_flags \ {"RECOVERY_PENDING"} \in SUBSET Flags
  BY <1>1 DEF MachineType
<1>4. clear \in MachineType
  BY <1>1, <1>3, FieldUpdates
<1>5. Calmer(ended, clear)
  BY <1>1 DEF Calmer, MachineType
<1> HIDE DEF clear
<1> QED BY <1>1, <1>2, <1>4, <1>5, CalmerTransitive

LEMMA StepDoneType ==
    ASSUME NEW m \in MachineType
    PROVE  StepDone(m) \in MachineType /\ Calmer(m, StepDone(m))
<1>1. CASE m.init_command \in {AUDIO_PAUSE, STEP_DEMUTE, STEP_PAUSE}
  <2>1. m.init_command + 1 \in InitCommands
    BY <1>1 DEF InitCommands, AUDIO_PAUSE, STEP_DEMUTE, STEP_PAUSE
  <2>2. /\ m.init_command = AUDIO_PAUSE => StepDone(m) = NextStep(m, "Setmode")
        /\ m.init_command = STEP_DEMUTE => StepDone(m) = NextStep(m, "Demute")
        /\ m.init_command = STEP_PAUSE => StepDone(m) = NextStep(m, "Pause")
    BY DEF StepDone, PAUSE, AUDIO_PAUSE, RESTORE_MODE,
           STEP_SET_FILTER, STEP_DEMUTE, STEP_PAUSE, STEP_COMPLETE,
           RECOVERY_SET_MODE, RECOVERY_READ_DISC_ID, RECOVERY_RETRY_READ, RECOVERY_COMPLETE
  <2> QED BY <1>1, <2>1, <2>2, NextStepType, CommandValues
<1>2. CASE m.init_command \notin {AUDIO_PAUSE, STEP_DEMUTE, STEP_PAUSE}
  <2>1. StepDone(m) \in {AfterPause(m), EndStepAt(m, RECONF_SET_FILTER), FinishReconfiguration(m),
                         EndStep(m), EndStepAt(m, READ_DISC_ID), FinishRecovery(m), m}
    BY <1>2 DEF StepDone
  <2> QED BY <2>1, AfterPauseType, EndStepAtType, FinishReconfigurationType, EndStepType,
             FinishRecoveryType, StateValues, CalmerReflexive
<1> QED BY <1>1, <1>2

LEMMA StepFailedTwiceType ==
    ASSUME NEW m \in MachineType
    PROVE  StepFailedTwice(m) \in MachineType /\ Calmer(m, StepFailedTwice(m))
<1>1. StepFailedTwice(m) \in
        {CdControlF(m, "Setmode", 0), CdControlF(m, "Setfilter", 0), CdControlF(m, "Demute", 0),
         CdControlF(m, "Pause", 0), CdControlF(m, "ReadN", ValidationLocation),
         EndStepAt(m, RECONF_SET_MODE), EndStepAt(m, READ_DISC_ID), EndStepAt(m, SET_MODE), m}
  BY DEF StepFailedTwice
<1> QED BY <1>1, EndStepAtType, StateValues, CdControlFType, CommandValues, NumberValues,
           CalmerReflexive

LEMMA HandleRecoverySyncType ==
    ASSUME NEW m \in MachineType,
           NEW complete \in BOOLEAN, NEW shellOpen \in BOOLEAN, NEW rejected \in BOOLEAN
    PROVE  LET n == HandleRecoverySync(m, complete, shellOpen, rejected)
           IN /\ n \in MachineType
              /\ \/ Calmer(m, n)
                 \/ n = HandleSyncError([m EXCEPT !.sync_complete = TRUE])
<1> DEFINE seen == [m EXCEPT !.sync_complete = TRUE]
           off == Disarm(seen)
           refused == [off EXCEPT !.init_state = ERROR_PAUSE,
                                  !.init_command = 0,
                                  !.init_retry = FALSE,
                                  !.status_flags = @ \ {"NO_DISC"}]
           checked == IF m.init_command = RECOVERY_READ_DISC_ID /\ rejected THEN refused ELSE seen
           first == [checked EXCEPT !.init_retry = FALSE]
           again == [checked EXCEPT !.init_retry = TRUE]
<1>1. HandleRecoverySync(m, complete, shellOpen, rejected) \in
        {HandleSyncError(seen), StepDone(first), StepFailedTwice(first), CdControlF(again, "Nop", 0)}
  BY DEF HandleRecoverySync
<1>2. seen \in MachineType /\ Calmer(m, seen)
  BY FieldUpdates, FieldsCalm
<1> HIDE DEF seen
<1>3. off \in MachineType /\ Calmer(m, off)
  BY <1>2, DisarmType, CalmerTransitive
<1> HIDE DEF off
<1>4. refused \in MachineType /\ Calmer(off, refused)
  <2>1. off.status_flags \ {"NO_DISC"} \in SUBSET Flags
    BY <1>3 DEF MachineType
  <2>2. refused \in MachineType
    BY <1>3, <2>1, StateValues, StepValues, ZenonT(30) DEF MachineType
  <2>3. Calmer(off, refused)
    BY <1>3 DEF Calmer, MachineType
  <2> QED BY <2>2, <2>3
<1> HIDE DEF refused
<1>5. checked \in MachineType /\ Calmer(m, checked)
  BY <1>2, <1>3, <1>4, CalmerTransitive
<1> HIDE DEF checked
<1>6. /\ first \in MachineType /\ Calmer(m, first)
      /\ again \in MachineType /\ Calmer(m, again)
  BY <1>5, FieldUpdates, FieldsCalm, CalmerTransitive
<1> HIDE DEF first, again
<1>7. HandleSyncError(seen) \in MachineType
  BY <1>2, HandleSyncErrorType
<1>8. StepDone(first) \in MachineType /\ Calmer(m, StepDone(first))
  BY <1>6, StepDoneType, CalmerTransitive
<1>9. StepFailedTwice(first) \in MachineType /\ Calmer(m, StepFailedTwice(first))
  BY <1>6, StepFailedTwiceType, CalmerTransitive
<1>10. CdControlF(again, "Nop", 0) \in MachineType /\ Calmer(m, CdControlF(again, "Nop", 0))
  BY <1>6, CdControlFType, CommandValues, NumberValues, CalmerTransitive
<1> QED BY <1>1, <1>7, <1>8, <1>9, <1>10 DEF seen

-----------------------------------------------------------------------------
(* Sector delivery *)

LEMMA PauseDriveType ==
    ASSUME NEW m \in MachineType, NEW step \in InitCommands
    PROVE  PauseDrive(m, step) \in MachineType /\ Calmer(m, PauseDrive(m, step))
<1> DEFINE pausing == [m EXCEPT !.init_command = step,
                                !.init_retry = FALSE,
                                !.sync_callback = "handle_recovery_sync",
                                !.ready_callback = "none",
                                !.current_command = "None",
                                !.retry_counter = 0]
<1>1. PauseDrive(m, step) = CdControlF(pausing, "Pause", 0)
  BY DEF PauseDrive
<1>2. pausing \in MachineType
  BY CommandValues, ZenonT(30) DEF MachineType
<1>3. Calmer(m, pausing)
  BY DEF Calmer, MachineType
<1> HIDE DEF pausing
<1> QED BY <1>1, <1>2, <1>3, CdControlFType, CommandValues, NumberValues, CalmerTransitive

LEMMA RetireReadType ==
    ASSUME NEW m \in MachineType, NEW deferred
    PROVE  RetireRead(m, deferred) \in MachineType /\ Calmer(m, RetireRead(m, deferred))
<1> DEFINE retired == Retire(m)
           mode == IF deferred THEN "READ_THEN_COMMAND" ELSE "COMMAND_THEN_READ"
<1>1. RetireRead(m, deferred) =
        IF IsEmpty(retired) THEN PauseDrive(retired, PAUSE)
        ELSE RunCommand(retired, HeadItem(retired).command, mode)
  BY DEF RetireRead
<1>2. retired \in MachineType /\ Calmer(m, retired)
  BY RetireType
<1> HIDE DEF retired, mode
<1>3. PauseDrive(retired, PAUSE) \in MachineType /\ Calmer(m, PauseDrive(retired, PAUSE))
  BY <1>2, PauseDriveType, StepValues, CalmerTransitive
<1>4. /\ RunCommand(retired, HeadItem(retired).command, mode) \in MachineType
      /\ Calmer(m, RunCommand(retired, HeadItem(retired).command, mode))
  BY <1>2, HeadItemType, RunCommandType, CalmerTransitive
<1> QED BY <1>1, <1>3, <1>4

LEMMA ProcessDataSectorType ==
    ASSUME NEW m \in MachineType, NEW deferred, NEW accept
    PROVE  /\ ProcessDataSector(m, deferred, accept) \in MachineType
           /\ Calmer(m, ProcessDataSector(m, deferred, accept))
<1> DEFINE direct == m.transfer_callback = NULL
           stored == IF direct THEN StoreSector(m, m.write_ptr.buffer, m.write_ptr.offset)
                     ELSE StoreSector(m, m.transfer_callback, m.total_data - m.read_remaining)
           again == CdControlF(m, m.current_command, m.current_location)
           offset == IF direct THEN stored.write_ptr.offset + 1 ELSE stored.write_ptr.offset
           more == [stored EXCEPT !.current_location = @ + 1,
                                  !.read_remaining = @ - 1,
                                  !.write_ptr.offset = offset]
<1>1. ProcessDataSector(m, deferred, accept) =
        IF ~direct /\ ~accept THEN again
        ELSE IF MoreToCome(m) THEN more ELSE RetireRead(stored, deferred)
  BY DEF ProcessDataSector
<1>2. again \in MachineType /\ Calmer(m, again)
  <2>1. m.current_command \in Commands /\ m.current_location \in Positions
    BY DEF MachineType
  <2> QED BY <2>1, CdControlFType
<1>3. stored \in MachineType /\ Calmer(m, stored)
  BY StoreSectorType
<1>4. stored.read_remaining = m.read_remaining
  BY DEF StoreSector
<1>5. RetireRead(stored, deferred) \in MachineType /\ Calmer(m, RetireRead(stored, deferred))
  BY <1>3, RetireReadType, CalmerTransitive
<1>6. offset \in Nat
  BY <1>3 DEF MachineType
<1> HIDE DEF stored, direct, again, offset
<1>7. ASSUME MoreToCome(m) PROVE more \in MachineType /\ Calmer(m, more)
  <2> DEFINE left == stored.read_remaining - 1
             next == stored.current_location + 1
             place == [stored.write_ptr EXCEPT !.offset = offset]
             moved == [stored EXCEPT !.current_location = next,
                                     !.read_remaining = left,
                                     !.write_ptr = place]
  <2>1. left \in Nat
    BY <1>3, <1>4, <1>7 DEF MoreToCome, MachineType
  <2>2. next \in Positions
    BY <1>3 DEF MachineType, Positions
  <2>3. place \in [buffer : Buffers \cup {NULL}, offset : Nat]
    BY <1>3, <1>6 DEF MachineType
  <2>4. more = moved
    BY <1>3 DEF MachineType
  <2> HIDE DEF left, next, place
  <2>5. moved \in MachineType
    BY <1>3, <2>1, <2>2, <2>3, ZenonT(30) DEF MachineType
  <2>6. Calmer(stored, moved)
    BY <1>3 DEF Calmer, MachineType
  <2> HIDE DEF moved, more
  <2> QED BY <1>3, <2>4, <2>5, <2>6, CalmerTransitive
<1> HIDE DEF more
<1> QED BY <1>1, <1>2, <1>5, <1>7

LEMMA EndXaType ==
    ASSUME NEW m \in MachineType
    PROVE  EndXa(m) \in MachineType /\ Calmer(m, EndXa(m))
<1> DEFINE retired == Retire(m)
           data == [retired EXCEPT !.audio_enabled = FALSE]
<1>1. retired \in MachineType /\ Calmer(m, retired)
  BY RetireType
<1>2. EndXa(m) = PauseDrive(data, AUDIO_PAUSE)
  BY DEF EndXa
<1> HIDE DEF retired
<1>3. data \in MachineType /\ Calmer(m, data)
  BY <1>1, FieldUpdates, FieldsCalm, CalmerTransitive
<1> HIDE DEF data
<1> QED BY <1>2, <1>3, PauseDriveType, StepValues, CalmerTransitive

LEMMA ProcessXaSectorType ==
    ASSUME NEW m \in MachineType, NEW accept
    PROVE  ProcessXaSector(m, accept) \in MachineType /\ Calmer(m, ProcessXaSector(m, accept))
<1> DEFINE again == CdControlF(m, m.current_command, m.current_location)
           trapped == [m EXCEPT !.trap = @ \cup {"null_callback"}]
           further == [m EXCEPT !.current_location = @ + 1]
<1>1. ProcessXaSector(m, accept) \in {again, trapped, further, EndXa(m)}
  BY DEF ProcessXaSector
<1>2. again \in MachineType /\ Calmer(m, again)
  <2>1. m.current_command \in Commands /\ m.current_location \in Positions
    BY DEF MachineType
  <2> QED BY <2>1, CdControlFType
<1>3. trapped \in MachineType /\ Calmer(m, trapped)
  BY FieldUpdates, FieldsCalm
<1>4. further \in MachineType /\ Calmer(m, further)
  <2>1. m.current_location + 1 \in Positions
    BY DEF MachineType, Positions
  <2> QED BY <2>1, FieldUpdates, FieldsCalm
<1> HIDE DEF again, trapped, further
<1> QED BY <1>1, <1>2, <1>3, <1>4, EndXaType

LEMMA ProcessSectorType ==
    ASSUME NEW m \in MachineType, NEW deferred, NEW accept
    PROVE  /\ ProcessSector(m, deferred, accept) \in MachineType
           /\ Calmer(m, ProcessSector(m, deferred, accept))
<1> DEFINE fresh == [m EXCEPT !.retry_count = 0,
                              !.retry_exhausted = FALSE,
                              !.data_ready_pending = FALSE]
<1>1. ProcessSector(m, deferred, accept) \in
        {ProcessXaSector(fresh, accept), ProcessDataSector(fresh, deferred, accept)}
  BY DEF ProcessSector
<1>2. fresh \in MachineType
  BY NumberValues, ZenonT(30) DEF MachineType
<1>3. Calmer(m, fresh)
  BY DEF Calmer, MachineType
<1> HIDE DEF fresh
<1> QED BY <1>1, <1>2, <1>3, ProcessXaSectorType, ProcessDataSectorType, CalmerTransitive

LEMMA GiveUpSectorType ==
    ASSUME NEW m \in MachineType, NEW resume \in BOOLEAN
    PROVE  GiveUpSector(m, resume) \in MachineType /\ Calmer(m, GiveUpSector(m, resume))
<1> DEFINE given == [m EXCEPT !.retry_exhausted = TRUE,
                              !.retry_count = 0,
                              !.playback_state = resume,
                              !.current_command = "Nop"]
<1>1. GiveUpSector(m, resume) = CdControlF(given, "Nop", 0)
  BY DEF GiveUpSector
<1>2. given \in MachineType
  BY NumberValues, CommandValues, ZenonT(30) DEF MachineType
<1>3. Calmer(m, given)
  BY DEF Calmer, MachineType
<1> HIDE DEF given
<1> QED BY <1>1, <1>2, <1>3, CdControlFType, CommandValues, NumberValues, CalmerTransitive

(* Below the limit one more retry is within it. *)
LEMMA RetryCountType ==
    ASSUME NEW m \in MachineType, ~GivesUp(m)
    PROVE  /\ [m EXCEPT !.retry_count = @ + 1] \in MachineType
           /\ Calmer(m, [m EXCEPT !.retry_count = @ + 1])
<1>1. m.retry_count \in 0..SectorRetryLimit
  BY DEF MachineType
<1>2. m.retry_count + 1 \in 0..SectorRetryLimit
  BY <1>1, LimitAssumption DEF GivesUp
<1> QED BY <1>2, FieldUpdates, FieldsCalm

LEMMA RetrySectorType ==
    ASSUME NEW m \in MachineType
    PROVE  RetrySector(m) \in MachineType /\ Calmer(m, RetrySector(m))
<1> DEFINE once == [m EXCEPT !.retry_count = @ + 1]
<1>1. CASE GivesUp(m)
  <2>1. Resumable(m) \in BOOLEAN
    BY DEF Resumable
  <2> QED BY <1>1, <2>1, GiveUpSectorType DEF RetrySector
<1>2. CASE ~GivesUp(m)
  <2>1. RetrySector(m) = CdControlF(once, m.current_command, m.current_location)
    BY <1>2 DEF RetrySector
  <2>2. once \in MachineType /\ Calmer(m, once)
    BY <1>2, RetryCountType
  <2>3. m.current_command \in Commands /\ m.current_location \in Positions
    BY DEF MachineType
  <2> HIDE DEF once
  <2> QED BY <2>1, <2>2, <2>3, CdControlFType, CalmerTransitive
<1> QED BY <1>1, <1>2

LEMMA HandleReadyDataType ==
    ASSUME NEW m \in MachineType, NEW dataReady, NEW accept
    PROVE  /\ HandleReadyData(m, dataReady, accept) \in MachineType
           /\ Calmer(m, HandleReadyData(m, dataReady, accept))
<1>1. HandleReadyData(m, dataReady, accept) \in
        {ProcessSector(m, FALSE, accept), [RetrySector(m) EXCEPT !.ready_callback = "none"],
         RetrySector(m)}
  BY DEF HandleReadyData
<1>2. RetrySector(m) \in MachineType /\ Calmer(m, RetrySector(m))
  BY RetrySectorType
<1>3. /\ [RetrySector(m) EXCEPT !.ready_callback = "none"] \in MachineType
      /\ Calmer(m, [RetrySector(m) EXCEPT !.ready_callback = "none"])
  BY <1>2, FieldUpdates, FieldsCalm, CalmerTransitive
<1> QED BY <1>1, <1>2, <1>3, ProcessSectorType

LEMMA HandleReadyXaType ==
    ASSUME NEW m \in MachineType, NEW dataReady, NEW accept, NEW decoding
    PROVE  /\ HandleReadyXa(m, dataReady, accept, decoding) \in MachineType
           /\ Calmer(m, HandleReadyXa(m, dataReady, accept, decoding))
<1> DEFINE given == GiveUpSector(m, TRUE)
           late == [m EXCEPT !.data_ready_pending = TRUE]
           stopped == [given EXCEPT !.ready_callback = "none"]
           once == [m EXCEPT !.retry_count = @ + 1]
<1>1. HandleReadyXa(m, dataReady, accept, decoding) =
        IF dataReady THEN IF decoding THEN late ELSE ProcessSector(m, FALSE, accept)
        ELSE IF GivesUp(m) THEN stopped ELSE once
  BY DEF HandleReadyXa
<1>2. late \in MachineType /\ Calmer(m, late)
  BY FieldUpdates, FieldsCalm
<1>3. stopped \in MachineType /\ Calmer(m, stopped)
  <2>1. given \in MachineType /\ Calmer(m, given)
    BY GiveUpSectorType
  <2> HIDE DEF given
  <2> QED BY <2>1, FieldUpdates, FieldsCalm, CalmerTransitive
<1>4. ~GivesUp(m) => once \in MachineType /\ Calmer(m, once)
  BY RetryCountType
<1> HIDE DEF late, stopped, once
<1> QED BY <1>1, <1>2, <1>3, <1>4, ProcessSectorType

LEMMA HandleReadyIntrType ==
    ASSUME NEW m \in MachineType, NEW dataReady, NEW accept, NEW decoding
    PROVE  /\ HandleReadyIntr(m, dataReady, accept, decoding) \in MachineType
           /\ Calmer(m, HandleReadyIntr(m, dataReady, accept, decoding))
<1> DEFINE seen == [m EXCEPT !.sync_complete = TRUE]
<1>1. HandleReadyIntr(m, dataReady, accept, decoding) \in
        {HandleReadyXa(seen, dataReady, accept, decoding), HandleReadyData(seen, dataReady, accept)}
  BY DEF HandleReadyIntr
<1>2. seen \in MachineType /\ Calmer(m, seen)
  BY FieldUpdates, FieldsCalm
<1> HIDE DEF seen
<1> QED BY <1>1, <1>2, HandleReadyXaType, HandleReadyDataType, CalmerTransitive

LEMMA VerifyRecoveryType ==
    ASSUME NEW m \in MachineType, NEW accept
    PROVE  VerifyRecovery(m, accept) \in MachineType /\ Calmer(m, VerifyRecovery(m, accept))
<1> DEFINE served == IF m.audio_enabled \/ m.sector = m.current_location
                     THEN ProcessSector(m, TRUE, accept)
                     ELSE RetrySector(m)
<1>1. VerifyRecovery(m, accept) \in {m, [served EXCEPT !.data_ready_pending = FALSE]}
  BY DEF VerifyRecovery
<1>2. served \in MachineType /\ Calmer(m, served)
  BY ProcessSectorType, RetrySectorType
<1> HIDE DEF served
<1>3. /\ [served EXCEPT !.data_ready_pending = FALSE] \in MachineType
      /\ Calmer(m, [served EXCEPT !.data_ready_pending = FALSE])
  BY <1>2, FieldUpdates, FieldsCalm, CalmerTransitive
<1> QED BY <1>1, <1>3, CalmerReflexive

LEMMA VerifyDiscType ==
    ASSUME NEW m \in MachineType, NEW dataReady, NEW genuine
    PROVE  VerifyDisc(m, dataReady, genuine) \in MachineType /\ Calmer(m, VerifyDisc(m, dataReady, genuine))
<1> DEFINE seen == [m EXCEPT !.sync_complete = TRUE, !.ready_callback = "none"]
           at(step) == [seen EXCEPT !.init_command = step,
                                    !.init_retry = FALSE,
                                    !.sync_callback = "handle_recovery_sync"]
           wrong == [seen EXCEPT !.init_state = ERROR_PAUSE, !.status_flags = @ \ {"NO_DISC"}]
<1>1. VerifyDisc(m, dataReady, genuine) \in
        {CdControlF(at(RECOVERY_RETRY_READ), "Pause", 0),
         CdControlF(at(RECOVERY_COMPLETE), "Setmode", 0), wrong}
  BY DEF VerifyDisc
<1>2. seen \in MachineType
  BY DEF MachineType
<1>3. Calmer(m, seen)
  BY DEF Calmer, MachineType
<1> HIDE DEF seen
<1>4. ASSUME NEW step \in InitCommands PROVE at(step) \in MachineType /\ Calmer(m, at(step))
  <2> DEFINE named == [seen EXCEPT !.init_command = step]
             settled == [named EXCEPT !.init_retry = FALSE]
  <2>a. named \in MachineType
    BY <1>2, FieldUpdates
  <2>b. settled \in MachineType
    BY <2>a, FieldUpdates
  <2>1. at(step) \in MachineType
    <3>1. at(step) = [settled EXCEPT !.sync_callback = "handle_recovery_sync"]
      OBVIOUS
    <3> HIDE DEF settled
    <3> QED BY <2>b, <3>1, FieldUpdates
  <2>2. Calmer(seen, at(step))
    BY <1>2 DEF Calmer, MachineType
  <2> QED BY <1>3, <2>1, <2>2, CalmerTransitive
<1>5. wrong \in MachineType /\ Calmer(m, wrong)
  <2>1. seen.status_flags \ {"NO_DISC"} \in SUBSET Flags
    BY <1>2 DEF MachineType
  <2>2. wrong \in MachineType
    BY <1>2, <2>1, StateValues, ZenonT(30) DEF MachineType
  <2>3. Calmer(seen, wrong)
    BY <1>2 DEF Calmer, MachineType
  <2> QED BY <1>3, <2>2, <2>3, CalmerTransitive
<1> HIDE DEF at, wrong
<1>6. ASSUME NEW step \in InitCommands, NEW command \in Commands
      PROVE  /\ CdControlF(at(step), command, 0) \in MachineType
             /\ Calmer(m, CdControlF(at(step), command, 0))
  BY <1>4, CdControlFType, NumberValues, CalmerTransitive
<1> QED BY <1>1, <1>5, <1>6, StepValues, CommandValues
-----------------------------------------------------------------------------
(* The system. *)

Places == [at : Points, open : BOOLEAN]

-----------------------------------------------------------------------------
(* The operators of CdSystem map machines to machines. *)

LEMMA SyncCallbackType ==
    ASSUME NEW m \in MachineType, NEW complete \in BOOLEAN
    PROVE  SyncCallback(m, complete) \in MachineType
<1>1. ShellOpen \in BOOLEAN /\ Rejected \in BOOLEAN
  BY DEF ShellOpen, Rejected
<1>2. CompleteCommand(m, complete, ShellOpen) \in MachineType
  BY <1>1, CompleteCommandType
<1>3. HandleRecoverySync(m, complete, ShellOpen, Rejected) \in MachineType
  BY <1>1, HandleRecoverySyncType
<1> QED BY <1>2, <1>3 DEF SyncCallback

LEMMA ReadyCallbackType ==
    ASSUME NEW m \in MachineType, NEW dataReady, NEW accept, NEW decoding
    PROVE  ReadyCallback(m, dataReady, accept, decoding) \in MachineType
BY HandleReadyIntrType, VerifyDiscType DEF ReadyCallback

LEMMA EnqueueType ==
    ASSUME NEW m \in MachineType, NEW req \in Request
    PROVE  Enqueue(m, req) \in MachineType
<1> DEFINE ring == [m.items EXCEPT ![m.queue_write_index] = req]
           next == Next1(m.queue_write_index)
<1>1. next \in Slots
  <2>1. m.queue_write_index + 1 \in Int
    BY IndexType
  <2> QED BY <2>1, SlotOf DEF Next1
<1>2. ring \in [Slots -> Request]
  BY DEF MachineType
<1>3. Enqueue(m, req) = [m EXCEPT !.items = ring, !.last_request = req, !.queue_write_index = next]
  BY DEF Enqueue
<1> HIDE DEF ring, next
<1>4. [m EXCEPT !.items = ring, !.last_request = req, !.queue_write_index = next] \in MachineType
  BY <1>1, <1>2 DEF MachineType
<1> QED BY <1>3, <1>4

LEMMA CollectType ==
    ASSUME NEW m \in MachineType
    PROVE  Collect(m) \in MachineType
BY FieldUpdates DEF Collect

LEMMA BlockingNopType ==
    ASSUME NEW m \in MachineType
    PROVE  BlockingNop(m) \in MachineType
BY SyncCallbackType DEF BlockingNop

LEMMA RestType ==
    ASSUME NEW m \in MachineType
    PROVE  Rest(m) \in MachineType
BY ZenonT(30) DEF Rest, MachineType

LEMMA ResumableType ==
    ASSUME NEW m
    PROVE  Resumable(m) \in BOOLEAN
BY DEF Resumable

LEMMA EnterRecoveryType ==
    ASSUME NEW m \in MachineType
    PROVE  EnterRecovery(m) \in MachineType
<1> DEFINE resume == Resumable(m)
<1>1. resume \in BOOLEAN
  BY ResumableType
<1> HIDE DEF resume
<1>2. [m EXCEPT !.init_state = POLL_STATUS, !.playback_state = resume,
                !.data_ready_pending = FALSE] \in MachineType
  BY <1>1, StateValues, ZenonT(30) DEF MachineType
<1> QED BY <1>2 DEF EnterRecovery, resume

LEMMA AbandonType ==
    ASSUME NEW m \in MachineType
    PROVE  Abandon(m) \in MachineType
<1> DEFINE paused == Disarm(BlockingPause(m))
           quiet == IF m.init_state < SET_MODE THEN m
                    ELSE [paused EXCEPT !.init_command = 0, !.init_retry = FALSE]
           flags == (quiet.status_flags \cup {"SYNC_ERROR"}) \ {"INVALID_DISC", "NO_DISC"}
<1>1. Abandon(m) = [quiet EXCEPT !.init_state = POLL_STATUS, !.status_flags = flags]
  BY DEF Abandon
<1>2. paused \in MachineType
  BY DisarmType, BlockingPauseType
<1> HIDE DEF paused
<1>3. [paused EXCEPT !.init_command = 0, !.init_retry = FALSE] \in MachineType
  BY <1>2, StepValues, ZenonT(30) DEF MachineType
<1>4. quiet \in MachineType
  BY <1>3
<1> HIDE DEF quiet
<1>5. flags \in SUBSET Flags
  BY <1>4, FlagValues DEF MachineType
<1> HIDE DEF flags
<1>6. [quiet EXCEPT !.init_state = POLL_STATUS, !.status_flags = flags] \in MachineType
  BY <1>4, <1>5, StateValues, ZenonT(30) DEF MachineType
<1> QED BY <1>1, <1>6

LEMMA PolledType ==
    ASSUME cd \in MachineType
    PROVE  Polled \in MachineType
BY EnterRecoveryType, BlockingNopType DEF Polled

LEMMA FoundClosedType ==
    ASSUME cd \in MachineType
    PROVE  FoundClosed \in MachineType
<1> DEFINE flags == (Polled.status_flags \ {"SYNC_ERROR"}) \cup {"INVALID_DISC", "NO_DISC"}
<1>1. FoundClosed \in {Polled, [Polled EXCEPT !.status_flags = flags]}
  BY DEF FoundClosed
<1>2. Polled \in MachineType
  BY PolledType
<1>3. flags \in SUBSET Flags
  BY <1>2, FlagValues DEF MachineType
<1> HIDE DEF flags
<1>4. [Polled EXCEPT !.status_flags = flags] \in MachineType
  BY <1>2, <1>3, FieldUpdates
<1> QED BY <1>1, <1>2, <1>4

LEMMA IssueType ==
    ASSUME NEW m \in MachineType,
           NEW ready \in {"none", "handle_ready_intr", "verify_disc"}, NEW step \in InitCommands,
           NEW command \in Commands, NEW location \in Positions
    PROVE  Issue(m, ready, step, command, location) \in MachineType
<1> DEFINE armed == [m EXCEPT !.sync_callback = "handle_recovery_sync",
                              !.ready_callback = ready,
                              !.init_command = step,
                              !.init_retry = FALSE]
<1>1. Issue(m, ready, step, command, location) = CdControlF(armed, command, location)
  BY DEF Issue
<1>2. armed \in MachineType
  BY ZenonT(30) DEF MachineType
<1> HIDE DEF armed
<1> QED BY <1>1, <1>2, CdControlFType

LEMMA DropQueueType ==
    ASSUME NEW m \in MachineType
    PROVE  DropQueue(m) \in MachineType
<1> DEFINE paused == Disarm(BlockingPause(m))
<1>1. paused \in MachineType
  BY DisarmType, BlockingPauseType
<1> DEFINE stopped == [paused EXCEPT !.current_command = "None",
                                     !.init_command = 0,
                                     !.init_retry = FALSE,
                                     !.playback_state = FALSE]
<1>2. DropQueue(m) = [stopped EXCEPT !.transfer_callback = NULL,
                                     !.retry_counter = 0,
                                     !.queue_read_index = 0,
                                     !.queue_write_index = 0]
  BY DEF DropQueue
<1> HIDE DEF paused
<1>3. stopped \in MachineType
  BY <1>1, CommandValues, StepValues, ZenonT(30) DEF MachineType
<1> HIDE DEF stopped
<1>4. [stopped EXCEPT !.transfer_callback = NULL,
                      !.retry_counter = 0,
                      !.queue_read_index = 0,
                      !.queue_write_index = 0] \in MachineType
  BY <1>3, NumberValues, ZenonT(30) DEF MachineType
<1> QED BY <1>2, <1>4

LEMMA NextSectorType ==
    ASSUME cd \in MachineType
    PROVE  NextSector \in MachineType
<1> DEFINE passed == [cd EXCEPT !.sector = cd.head]
<1>1. cd.head \in Positions /\ cd.head + 1 \in Positions
  BY DEF MachineType, Positions
<1>2. NextSector = [passed EXCEPT !.head = cd.head + 1]
  BY DEF NextSector
<1>3. passed \in MachineType
  BY <1>1 DEF MachineType
<1> HIDE DEF passed
<1>4. \A head \in Positions : [passed EXCEPT !.head = head] \in MachineType
  BY <1>3, ZenonT(30) DEF MachineType
<1> QED BY <1>1, <1>2, <1>4

LEMMA InitialMachineType == InitialMachine \in MachineType
<1>1. BlankItem \in Request
  <2>1. (CHOOSE r \in Resources : TRUE) \in Resources
    BY DiscAssumption
  <2> QED BY <2>1, CommandValues DEF BlankItem, Request
<1>2. [i \in Slots |-> BlankItem] \in [Slots -> Request]
  BY <1>1
<1>3. [s \in Sinks |-> [o \in Offsets |-> NoPosition]] \in [Sinks -> [Offsets -> Positions]]
  BY NumberValues
<1> DEFINE ring == [i \in Slots |-> BlankItem]
           blank == [s \in Sinks |-> [o \in Offsets |-> NoPosition]]
           none == [buffer |-> NULL, offset |-> 0]
<1>4. none \in [buffer : Buffers \cup {NULL}, offset : Nat]
  OBVIOUS
<1> HIDE DEF ring, blank, none
<1> QED BY <1>2, <1>3, <1>4, CommandValues, StepValues, StateValues, NumberValues
        DEF InitialMachine, MachineType, ring, blank, none

-----------------------------------------------------------------------------
(* The foreground's point, the calls and the environment. *)

LEMMA FaultsType ==
    ASSUME faults \in Nat, NEW kinds, IsFiniteSet(kinds), Faults(kinds)
    PROVE  faults' \in Nat
BY FS_CardinalityType DEF Faults

LEMMA FaultType ==
    ASSUME faults \in Nat, NEW kind, Fault(kind)
    PROVE  faults' \in Nat
BY FaultsType, FS_Singleton DEF Fault

LEMMA TimedOutType ==
    ASSUME faults \in Nat, TimedOut
    PROVE  faults' \in Nat
BY FaultsType, FS_Singleton, FS_EmptySet DEF TimedOut

LEMMA StatusReadType ==
    ASSUME lid \in {"open", "latched", "closed"}, StatusRead
    PROVE  lid' \in {"open", "latched", "closed"}
BY DEF StatusRead

LEMMA FaultSets ==
    ASSUME NEW accept
    PROVE  /\ IsFiniteSet(Overlap \cup Refusal(accept))
           /\ IsFiniteSet({"sector"} \cup Overlap)
           /\ IsFiniteSet(Refusal(accept))
<1>1. IsFiniteSet(Overlap) /\ IsFiniteSet(Refusal(accept)) /\ IsFiniteSet({"sector"})
  BY FS_Singleton, FS_EmptySet DEF Overlap, Refusal
<1> QED BY <1>1, FS_Union

(* No step of the foreground or of the drive leaves the foreground in the open. *)
LEMMA PlaceStep ==
    ASSUME TypeOK, [Next]_vars
    PROVE  fg' \in Places
<1> USE DEF TypeOK, Places, environment
<1>1. \A point \in Points : At(point) \in Places
  BY DEF At
<1>2. Interrupt => fg' \in Places
  BY DEF Interrupt
<1> HIDE DEF Places
<1>3. CASE Game
  <2>1. CASE \E req \in Offered : QueueCommand(req)
    BY <1>1, <2>1 DEF QueueCommand, Points, AllWindows, Places
  <2>2. CASE Reset \/ Stop \/ LockQueue \/ UnlockQueue \/ EnterRecoveryMode
    BY <2>2 DEF Reset, Stop, LockQueue, UnlockQueue, EnterRecoveryMode, Places
  <2> QED BY <1>3, <2>1, <2>2 DEF Game
<1>4. CASE Queueing
  BY <1>1, <1>4 DEF Queueing, QueueCheckCommand, QueueCheckStep, StartNop, Points, AllWindows
<1>5. CASE ProcessState
  <2>1. CASE RecoveryWait \/ RecoveryPoll
    BY <2>1 DEF RecoveryWait, RecoveryPoll, RecoveryAbandon, RecoveryCheckDisc, RecoveryWaitForDisc,
         RecoveryWaitForDrive, RecoveryDiscType, RecoverySetMode, RecoveryReadDiscId,
         RecoveryWaitForRead, RecoveryReadTimeout, RecoveryStopDrive, RecoveryRests, Places
  <2>2. CASE ServiceCheckCommand \/ Supervise \/ WatchdogDue \/ WatchdogCommand \/ WatchdogStep
             \/ Restart \/ IdleQuiet \/ IdlePoll \/ IdlePollFails
    BY <1>1, <2>2 DEF ServiceCheckCommand, Supervise, WatchdogDue, WatchdogCommand, WatchdogStep,
         Restart, IdleQuiet, IdlePoll, IdlePollFails, Points, AllWindows
  <2>3. CASE WatchdogNop
    <3>1. fg' = At("idle") \/ fg' = At("blocking")
      BY <2>3 DEF WatchdogNop
    <3> QED BY <1>1, <3>1 DEF Points, AllWindows
  <2> QED BY <1>5, <2>1, <2>2, <2>3 DEF ProcessState
<1>6. CASE Recover
  BY <1>6 DEF Recover, RecoverFlush, RecoverSetMode, RecoverSetFilter, RecoverActivity,
       RecoverTimeout, Places
<1>7. CASE Drive
  BY <1>2, <1>7 DEF Drive, CommandDone, CommandFailed, SendWaiting, CommandLost, SectorReady,
       SectorFailed, SectorLost, MdecOut, OpenLid, CloseLid, Places
<1>8. CASE UNCHANGED vars
  BY <1>8 DEF vars, Places
<1> QED BY <1>3, <1>4, <1>5, <1>6, <1>7, <1>8 DEF Next

LEMMA EnvironmentStep ==
    ASSUME TypeOK, [Next]_vars
    PROVE  /\ lid' \in {"open", "latched", "closed"}
           /\ disc' \in Discs
           /\ calls' \in Nat
           /\ faults' \in Nat
<1> USE DEF environment
<1>1. /\ lid \in {"open", "latched", "closed"} /\ disc \in Discs
      /\ calls \in Nat /\ faults \in Nat
  BY DEF TypeOK
<1>2. calls + 1 \in Nat
  BY <1>1
<1>3. CASE Game
  <2>1. CASE \E req \in Offered : QueueCommand(req)
    BY <1>1, <1>2, <2>1 DEF QueueCommand
  <2>2. CASE Reset \/ Stop \/ LockQueue \/ UnlockQueue \/ EnterRecoveryMode
    BY <1>1, <1>2, <2>2 DEF Reset, Stop, LockQueue, UnlockQueue, EnterRecoveryMode
  <2> QED BY <1>3, <2>1, <2>2 DEF Game
<1>4. CASE Queueing
  BY <1>1, <1>4 DEF Queueing, QueueCheckCommand, QueueCheckStep, StartNop
<1>5. CASE ProcessState
  <2>1. CASE RecoveryAbandon \/ RecoveryWaitForDrive \/ RecoveryDiscType \/ RecoveryReadTimeout
    BY <1>1, <2>1, FaultType, TimedOutType, StatusReadType
       DEF RecoveryAbandon, RecoveryWaitForDrive, RecoveryDiscType, RecoveryReadTimeout
  <2>2. CASE \/ RecoveryWait \/ (\E spinning \in BOOLEAN : RecoveryCheckDisc(spinning))
             \/ RecoveryWaitForDisc \/ RecoverySetMode \/ RecoveryReadDiscId
             \/ RecoveryWaitForRead \/ RecoveryStopDrive \/ RecoveryRests
    BY <1>1, <2>2 DEF RecoveryWait, RecoveryCheckDisc, RecoveryWaitForDisc, RecoverySetMode,
         RecoveryReadDiscId, RecoveryWaitForRead, RecoveryStopDrive, RecoveryRests
  <2>3. CASE WatchdogDue \/ WatchdogNop \/ IdlePoll \/ IdlePollFails
    BY <1>1, <2>3, FaultType, TimedOutType, StatusReadType
       DEF WatchdogDue, WatchdogNop, IdlePoll, IdlePollFails
  <2>4. CASE ServiceCheckCommand \/ Supervise \/ WatchdogCommand \/ WatchdogStep \/ Restart
             \/ IdleQuiet
    BY <1>1, <2>4 DEF ServiceCheckCommand, Supervise, WatchdogCommand, WatchdogStep, Restart,
         IdleQuiet
  <2> QED BY <1>5, <2>1, <2>2, <2>3, <2>4 DEF ProcessState, RecoveryPoll
<1>6. CASE Recover
  BY <1>1, <1>6, TimedOutType
     DEF Recover, RecoverFlush, RecoverSetMode, RecoverSetFilter, RecoverActivity, RecoverTimeout
<1>7. CASE Drive
  <2>1. CASE CommandDone \/ CommandFailed \/ SendWaiting \/ CommandLost
    BY <1>1, <2>1, FaultType, StatusReadType
       DEF CommandDone, CommandFailed, SendWaiting, CommandLost
  <2>2. CASE \E accept, decoding \in BOOLEAN : SectorReady(accept, decoding)
    BY <1>1, <2>2, FaultsType, FaultSets DEF SectorReady
  <2>3. CASE SectorFailed \/ SectorLost
    BY <1>1, <2>3, FaultType, FaultsType, FaultSets DEF SectorFailed, SectorLost
  <2>4. CASE \E accept \in BOOLEAN : MdecOut(accept)
    BY <1>1, <2>4, FaultsType, FaultSets DEF MdecOut
  <2>5. CASE OpenLid
    BY <1>1, <2>5, FaultType DEF OpenLid
  <2>6. CASE \E inserted \in Inserted : CloseLid(inserted)
    BY <1>1, <2>6, InsertedAssumption DEF CloseLid, Discs
  <2> QED BY <1>7, <2>1, <2>2, <2>3, <2>4, <2>5, <2>6 DEF Drive
<1>8. CASE UNCHANGED vars
  BY <1>1, <1>8 DEF vars
<1> QED BY <1>3, <1>4, <1>5, <1>6, <1>7, <1>8 DEF Next

-----------------------------------------------------------------------------
(* The machine, action by action. *)

LEMMA GameType ==
    ASSUME cd \in MachineType, Game
    PROVE  cd' \in MachineType
<1>1. CASE \E req \in Offered : QueueCommand(req)
  <2>1. PICK req \in Offered : QueueCommand(req)
    BY <1>1
  <2>2. cd' \in {cd, Enqueue(cd, req)}
    BY <2>1 DEF QueueCommand
  <2>3. req \in Request
    BY OfferedAssumption
  <2> QED BY <2>2, <2>3, EnqueueType
<1>2. CASE Reset
  BY <1>2, DropQueueType, FieldUpdates DEF Reset
<1>3. CASE Stop
  <2> DEFINE dropped == DropQueue(cd)
             flags == dropped.status_flags \ {"QUEUE_LOCK"}
  <2>1. cd' = [dropped EXCEPT !.audio_enabled = FALSE,
                              !.status_flags = flags,
                              !.last_request = NULL,
                              !.retry_count = 0,
                              !.data_ready_pending = FALSE]
    BY <1>3 DEF Stop
  <2>2. dropped \in MachineType
    BY DropQueueType
  <2> HIDE DEF dropped
  <2>3. flags \in SUBSET Flags
    BY <2>2 DEF MachineType
  <2> HIDE DEF flags
  <2>4. [dropped EXCEPT !.audio_enabled = FALSE,
                        !.status_flags = flags,
                        !.last_request = NULL,
                        !.retry_count = 0,
                        !.data_ready_pending = FALSE] \in MachineType
    BY <2>2, <2>3, NumberValues, ZenonT(30) DEF MachineType
  <2> QED BY <2>1, <2>4
<1>4. CASE LockQueue \/ UnlockQueue \/ EnterRecoveryMode
  <2>1. /\ cd.status_flags \cup {"QUEUE_LOCK"} \in SUBSET Flags
        /\ cd.status_flags \ {"QUEUE_LOCK"} \in SUBSET Flags
        /\ cd.status_flags \cup {"RECOVERY_PENDING"} \in SUBSET Flags
    BY FlagValues DEF MachineType
  <2>2. [cd EXCEPT !.status_flags = @ \cup {"RECOVERY_PENDING"}, !.init_state = IDLE]
          \in MachineType
    BY <2>1, StateValues DEF MachineType
  <2>3. /\ [cd EXCEPT !.status_flags = @ \cup {"QUEUE_LOCK"}] \in MachineType
        /\ [cd EXCEPT !.status_flags = @ \ {"QUEUE_LOCK"}] \in MachineType
    BY <2>1, FieldUpdates
  <2> QED BY <1>4, <2>2, <2>3 DEF LockQueue, UnlockQueue, EnterRecoveryMode
<1> QED BY <1>1, <1>2, <1>3, <1>4 DEF Game

LEMMA QueueingType ==
    ASSUME cd \in MachineType, Queueing
    PROVE  cd' \in MachineType
<1>1. CASE QueueCheckCommand
  BY <1>1 DEF QueueCheckCommand
<1>2. CASE QueueCheckStep
  <2>1. [cd EXCEPT !.current_command = "Nop",
                   !.playback_state = FALSE,
                   !.transfer_callback = NULL,
                   !.sync_callback = "complete_command"] \in MachineType
    BY CommandValues, ZenonT(30) DEF MachineType
  <2> QED BY <1>2, <2>1 DEF QueueCheckStep
<1>3. CASE StartNop
  BY <1>3, CdControlFType, CommandValues, NumberValues DEF StartNop
<1> QED BY <1>1, <1>2, <1>3 DEF Queueing

LEMMA ServiceType ==
    ASSUME cd \in MachineType,
           \/ ServiceCheckCommand \/ Supervise \/ WatchdogDue
           \/ WatchdogCommand \/ WatchdogStep \/ WatchdogNop
           \/ Restart \/ IdleQuiet \/ IdlePoll \/ IdlePollFails
    PROVE  cd' \in MachineType
<1> DEFINE resume == Resumable(cd)
           restarted == [cd EXCEPT !.current_command = "Nop",
                                   !.playback_state = resume,
                                   !.sync_callback = "complete_command",
                                   !.ready_callback = "none"]
<1>1. restarted \in MachineType
  <2>1. resume \in BOOLEAN
    BY ResumableType
  <2> HIDE DEF resume
  <2> QED BY <2>1, CommandValues, ZenonT(30) DEF MachineType
<1>2. CASE ServiceCheckCommand \/ WatchdogDue
  BY <1>2 DEF ServiceCheckCommand, WatchdogDue
<1>3. CASE Supervise
  BY <1>3, CollectType DEF Supervise
<1>4. CASE WatchdogCommand \/ Restart
  BY <1>1, <1>4 DEF WatchdogCommand, Restart
<1>5. CASE WatchdogStep
  <2>1. [cd EXCEPT !.sync_callback = "handle_recovery_sync", !.ready_callback = "none"]
          \in MachineType
    BY DEF MachineType
  <2> QED BY <1>5, <2>1 DEF WatchdogStep
<1>6. CASE WatchdogNop
  BY <1>6, BlockingNopType, SyncCallbackType DEF WatchdogNop
<1>7. CASE IdleQuiet
  BY <1>7, RestType DEF IdleQuiet
<1>8. CASE IdlePoll
  <2> DEFINE polled == BlockingNop(Rest(cd))
             answered == IF ShellOpen THEN HandleSyncError(polled) ELSE polled
  <2>1. cd' = [answered EXCEPT !.sync_complete = FALSE, !.retry_counter = 0]
    BY <1>8 DEF IdlePoll
  <2>2. polled \in MachineType
    BY RestType, BlockingNopType
  <2> HIDE DEF polled
  <2>3. answered \in MachineType
    BY <2>2, HandleSyncErrorType
  <2> HIDE DEF answered
  <2>4. [answered EXCEPT !.sync_complete = FALSE, !.retry_counter = 0] \in MachineType
    BY <2>3, ZenonT(30) DEF MachineType
  <2> QED BY <2>1, <2>4
<1>9. CASE IdlePollFails
  <2> DEFINE rested == Rest(cd)
  <2>1. cd' = IF cd.retry_counter >= IdleStatusRetryLimit THEN HandleSyncError(rested)
              ELSE [rested EXCEPT !.retry_counter = @ + 1]
    BY <1>9 DEF IdlePollFails
  <2>2. rested \in MachineType
    BY RestType
  <2> HIDE DEF rested
  <2>3. rested.retry_counter + 1 \in Nat
    BY <2>2 DEF MachineType
  <2>4. [rested EXCEPT !.retry_counter = @ + 1] \in MachineType
    BY <2>2, <2>3, FieldUpdates
  <2> QED BY <2>1, <2>2, <2>4, HandleSyncErrorType
<1> QED BY <1>2, <1>3, <1>4, <1>5, <1>6, <1>7, <1>8, <1>9

LEMMA RecoveryType ==
    ASSUME cd \in MachineType, RecoveryWait \/ RecoveryPoll
    PROVE  cd' \in MachineType
<1>1. Polled \in MachineType
  BY PolledType
<1>2. \A s \in InitStates : [Polled EXCEPT !.init_state = s] \in MachineType
  BY <1>1, FieldUpdates
<1>3. CASE RecoveryWait
  BY <1>3, EnterRecoveryType DEF RecoveryWait
<1>4. CASE RecoveryAbandon
  <2> DEFINE entered == EnterRecovery(cd)
             answered == IF ShellOpen THEN BlockingNop(entered) ELSE entered
  <2>1. cd' = Abandon(answered)
    BY <1>4 DEF RecoveryAbandon
  <2>2. answered \in MachineType
    BY EnterRecoveryType, BlockingNopType
  <2> HIDE DEF answered
  <2> QED BY <2>1, <2>2, AbandonType
<1>5. CASE \E spinning \in BOOLEAN : RecoveryCheckDisc(spinning)
  <2> DEFINE spun == [FoundClosed EXCEPT !.init_state = WAIT_FOR_DISC, !.retry_counter = 0]
             still == [FoundClosed EXCEPT !.init_state = CHECK_DISC]
  <2>1. cd' \in {spun, still}
    BY <1>5 DEF RecoveryCheckDisc
  <2>2. FoundClosed \in MachineType
    BY FoundClosedType
  <2>3. spun \in MachineType /\ still \in MachineType
    BY <2>2, StateValues, ZenonT(30) DEF MachineType
  <2> QED BY <2>1, <2>3
<1>6. CASE RecoveryWaitForDisc
  <2> DEFINE count == Polled.retry_counter + 2
             state == IF Polled.retry_counter + 1 >= DiscReadyRetryLimit
                      THEN WAIT_FOR_DRIVE ELSE Polled.init_state
             on == [Polled EXCEPT !.init_state = WAIT_FOR_DRIVE]
             counted == [Polled EXCEPT !.retry_counter = count, !.init_state = state]
  <2>1. cd' \in {on, counted}
    BY <1>6 DEF RecoveryWaitForDisc
  <2>2. count \in Nat /\ state \in InitStates
    BY <1>1, StateValues DEF MachineType
  <2> HIDE DEF count, state
  <2>3. counted \in MachineType
    BY <1>1, <2>2, ZenonT(30) DEF MachineType
  <2>4. on \in MachineType
    BY <1>2, StateValues
  <2> QED BY <2>1, <2>3, <2>4
<1>7. CASE RecoveryWaitForDrive
  BY <1>2, <1>7, StateValues DEF RecoveryWaitForDrive
<1>8. CASE RecoveryDiscType
  <2> DEFINE flags == Polled.status_flags \ {"INVALID_DISC"}
             absent == [Polled EXCEPT !.init_state = ERROR_PAUSE, !.status_flags = flags]
             present == [Polled EXCEPT !.init_state = SET_MODE]
  <2>1. cd' \in {absent, present, Polled}
    BY <1>8 DEF RecoveryDiscType
  <2>2. flags \in SUBSET Flags
    BY <1>1 DEF MachineType
  <2> HIDE DEF flags
  <2>3. absent \in MachineType
    BY <1>1, <2>2, StateValues, ZenonT(30) DEF MachineType
  <2>4. present \in MachineType
    BY <1>2, StateValues
  <2> QED BY <1>1, <2>1, <2>3, <2>4
<1>9. CASE RecoverySetMode
  BY <1>1, <1>9, IssueType, StepValues, CommandValues, NumberValues DEF RecoverySetMode
<1>10. CASE RecoveryReadDiscId
  BY <1>2, <1>10, StateValues, IssueType, StepValues, CommandValues, NumberValues
     DEF RecoveryReadDiscId
<1>11. CASE RecoveryWaitForRead
  BY <1>1, <1>11, CollectType DEF RecoveryWaitForRead
<1>12. CASE RecoveryReadTimeout
  <2> DEFINE armed == [Polled EXCEPT !.sync_callback = "handle_recovery_sync"]
  <2>1. cd' \in {CdControlF(armed, "Pause", 0), CdControlF(armed, "Setmode", 0),
                 Issue(armed, "verify_disc", RECOVERY_READ_DISC_ID, "ReadN", ValidationLocation)}
    BY <1>12 DEF RecoveryReadTimeout
  <2>2. armed \in MachineType
    BY <1>1, FieldUpdates
  <2> HIDE DEF armed
  <2>3. CdControlF(armed, "Pause", 0) \in MachineType /\ CdControlF(armed, "Setmode", 0) \in MachineType
    BY <2>2, CdControlFType, CommandValues, NumberValues
  <2>4. Issue(armed, "verify_disc", RECOVERY_READ_DISC_ID, "ReadN", ValidationLocation) \in MachineType
    BY <2>2, IssueType, StepValues, CommandValues, NumberValues
  <2> QED BY <2>1, <2>3, <2>4
<1>13. CASE RecoveryStopDrive
  BY <1>1, <1>13, BlockingPauseType, StateValues, FieldUpdates DEF RecoveryStopDrive
<1>14. CASE RecoveryRests
  BY <1>1, <1>14 DEF RecoveryRests
<1> QED BY <1>3, <1>4, <1>5, <1>6, <1>7, <1>8, <1>9, <1>10, <1>11, <1>12, <1>13, <1>14
        DEF RecoveryPoll

LEMMA ReconfigurationType ==
    ASSUME cd \in MachineType, Recover
    PROVE  cd' \in MachineType
<1>1. cd.ready_callback \in {"none", "handle_ready_intr", "verify_disc"}
  BY DEF MachineType
<1>2. CASE RecoverFlush
  <2>1. [cd EXCEPT !.init_state = RECONF_SET_MODE, !.issued = "None", !.filtered = FALSE]
          \in MachineType
    BY StateValues, CommandValues, ZenonT(30) DEF MachineType
  <2> QED BY <1>2, <2>1 DEF RecoverFlush
<1>3. CASE RecoverSetMode
  BY <1>3, IssueType, StepValues, CommandValues, NumberValues DEF RecoverSetMode
<1>4. CASE RecoverSetFilter
  <2>1. [cd EXCEPT !.init_state = RECONF_WAIT] \in MachineType
    BY StateValues, FieldUpdates
  <2> QED BY <1>1, <1>4, <2>1, IssueType, StepValues, CommandValues, NumberValues
          DEF RecoverSetFilter
<1>5. CASE RecoverActivity
  BY <1>5, CollectType DEF RecoverActivity
<1>6. CASE RecoverTimeout
  <2> DEFINE armed == [cd EXCEPT !.sync_callback = "handle_recovery_sync"]
  <2>1. cd' \in {CdControlF(armed, "Demute", 0), CdControlF(armed, "Pause", 0),
                 Issue(armed, armed.ready_callback, STEP_SET_FILTER, "Setfilter", 0)}
    BY <1>6 DEF RecoverTimeout
  <2>2. armed \in MachineType
    BY FieldUpdates
  <2> HIDE DEF armed
  <2>3. armed.ready_callback \in {"none", "handle_ready_intr", "verify_disc"}
    BY <2>2 DEF MachineType
  <2>4. CdControlF(armed, "Demute", 0) \in MachineType /\ CdControlF(armed, "Pause", 0) \in MachineType
    BY <2>2, CdControlFType, CommandValues, NumberValues
  <2>5. Issue(armed, armed.ready_callback, STEP_SET_FILTER, "Setfilter", 0) \in MachineType
    BY <2>2, <2>3, IssueType, StepValues, CommandValues, NumberValues
  <2> QED BY <2>1, <2>4, <2>5
<1> QED BY <1>2, <1>3, <1>4, <1>5, <1>6 DEF Recover

LEMMA DriveType ==
    ASSUME cd \in MachineType, Drive
    PROVE  cd' \in MachineType
<1>1. NextSector \in MachineType /\ Executed(cd) \in MachineType
  BY NextSectorType, ExecutedType
<1>2. [cd EXCEPT !.issued = "None"] \in MachineType
  BY CommandValues DEF MachineType
<1> DEFINE stopped == [cd EXCEPT !.reading = FALSE]
<1>3. stopped \in MachineType
  BY DEF MachineType
<1>4. CASE CommandDone
  BY <1>1, <1>4, SyncCallbackType DEF CommandDone
<1>5. CASE CommandFailed
  BY <1>2, <1>5, SyncCallbackType DEF CommandFailed
<1>6. CASE SendWaiting
  <2>1. cd.waiting \in Commands /\ cd.waiting_location \in Positions
    BY DEF MachineType
  <2>2. [cd EXCEPT !.issued = cd.waiting, !.issued_location = cd.waiting_location,
                   !.waiting = "None"] \in MachineType
    BY <2>1, CommandValues DEF MachineType
  <2> QED BY <1>6, <2>2 DEF SendWaiting
<1>7. CASE CommandLost
  BY <1>1, <1>2, <1>7 DEF CommandLost
<1>8. CASE \E accept, decoding \in BOOLEAN : SectorReady(accept, decoding)
  BY <1>1, <1>8, ReadyCallbackType DEF SectorReady
<1>9. CASE SectorFailed
  BY <1>9, ReadyCallbackType DEF SectorFailed
<1>10. CASE SectorLost
  BY <1>1, <1>10 DEF SectorLost
<1>11. CASE \E accept \in BOOLEAN : MdecOut(accept)
  BY <1>11, VerifyRecoveryType DEF MdecOut
<1>12. CASE OpenLid
  <2>1. cd' \in {stopped, ReadyCallback(stopped, FALSE, TRUE, FALSE)}
    BY <1>12 DEF OpenLid
  <2> HIDE DEF stopped
  <2> QED BY <1>3, <2>1, ReadyCallbackType
<1>13. CASE \E inserted \in Inserted : CloseLid(inserted)
  BY <1>13 DEF CloseLid
<1> QED BY <1>4, <1>5, <1>6, <1>7, <1>8, <1>9, <1>10, <1>11, <1>12, <1>13 DEF Drive

-----------------------------------------------------------------------------

LEMMA TypeInit == Init => TypeOK
<1> SUFFICES ASSUME Init PROVE TypeOK
  OBVIOUS
<1>1. cd \in MachineType
  BY InitialMachineType DEF Init
<1>2. fg \in Places
  BY DEF Init, At, Places, Points, AllWindows
<1> QED BY <1>1, <1>2 DEF Init, TypeOK, Places, Discs

LEMMA TypeStep == TypeOK /\ [Next]_vars => TypeOK'
<1> SUFFICES ASSUME TypeOK, [Next]_vars PROVE TypeOK'
  OBVIOUS
<1>1. cd \in MachineType
  BY DEF TypeOK
<1>2. cd' \in MachineType
  <2>1. CASE ProcessState
    BY <1>1, <2>1, ServiceType, RecoveryType DEF ProcessState
  <2>2. CASE UNCHANGED vars
    BY <1>1, <2>2 DEF vars
  <2> QED BY <1>1, <2>1, <2>2, GameType, QueueingType, ReconfigurationType, DriveType DEF Next
<1> QED BY <1>2, PlaceStep, EnvironmentStep DEF TypeOK, Places

(***************************************************************************)
(* The fields of CdSystem hold values of their types in every state.  In   *)
(* particular the two indices stay within the ring of any size, the sector *)
(* retries within their limit (cdrom_process_sector), read_remaining never *)
(* drops below zero (cdrom_handle_ready_intr), and init_state and          *)
(* init_command only hold values their two enumerations name.              *)
(***************************************************************************)
THEOREM TypeCorrect == Spec => []TypeOK
BY TypeInit, TypeStep, PTL DEF Spec

-----------------------------------------------------------------------------
(* What keeps a machine sound. *)

Sound(m) == Plain(m) /\ Guarded(m) /\ Owed(m)

(* A handler without errors to report leaves a machine without errors sound. *)
LEMMA CalmKeepsPlain ==
    ASSUME NEW m \in MachineType, NEW n \in MachineType, Plain(m), Calmer(m, n)
    PROVE  Plain(n)
<1>1. ~MovieQueued(m)
  BY DEF Plain, MovieQueued
<1>2. n.audio_enabled \in BOOLEAN
  BY DEF MachineType
<1> QED BY <1>1, <1>2 DEF Plain, Calmer

LEMMA CalmKeepsSound ==
    ASSUME NEW m \in MachineType, NEW n \in MachineType, Plain(m), ~Failing(m), Calmer(m, n)
    PROVE  Sound(n) /\ ~Failing(n)
<1>1. ~Failing(n)
  BY DEF Failing, HasFlag, Calmer
<1> QED BY <1>1, CalmKeepsPlain DEF Sound, Guarded, Owed

(* With both slots empty there is little left to say. *)
LEMMA SilentIsSound ==
    ASSUME NEW m, Plain(m), Silent(m),
           "SYNC_ERROR" \in m.status_flags => m.init_state \in {IDLE, POLL_STATUS}
    PROVE  Sound(m)
BY DEF Sound, Guarded, Owed, Silent

(* Once recovery has given its command only the slots matter. *)
LEMMA StartedIsSound ==
    ASSUME NEW m, Plain(m), "SYNC_ERROR" \notin m.status_flags, m.init_state \notin Asking,
           m.ready_callback # "handle_ready_intr",
           m.sync_callback = "none"
           \/ /\ m.sync_callback = "handle_recovery_sync"
              /\ m.init_command \in RecoverySteps
              /\ m.issued # "None" \/ m.waiting # "None"
    PROVE  Sound(m)
BY DEF Sound, Guarded, Owed

LEMMA StartedStates ==
    /\ SET_MODE \notin Asking /\ READ_DISC_ID \notin Asking /\ WAIT_FOR_READ \notin Asking
    /\ ERROR_PAUSE \notin Asking /\ RETRY_READ \notin Asking
BY DEF Asking, IDLE, POLL_STATUS, CHECK_DISC, WAIT_FOR_DISC, WAIT_FOR_DRIVE, CHECK_DISC_TYPE,
       SET_MODE, READ_DISC_ID, WAIT_FOR_READ, ERROR_PAUSE, RETRY_READ

LEMMA HandleSyncErrorSound ==
    ASSUME NEW m \in MachineType, Plain(m)
    PROVE  Sound(HandleSyncError(m))
<1> DEFINE n == HandleSyncError(m)
<1>1. /\ n.items = m.items /\ n.audio_enabled = m.audio_enabled
      /\ n.status_flags = m.status_flags \cup {"SYNC_ERROR"}
      /\ n.sync_callback = "none" /\ n.ready_callback = "none" /\ n.init_state = IDLE
  BY DEF HandleSyncError, Disarm, MachineType
<1> HIDE DEF n
<1>2. Plain(n) /\ Silent(n)
  BY <1>1 DEF Plain, Silent
<1> QED BY <1>1, <1>2, SilentIsSound DEF n

LEMMA CdControlFFields ==
    ASSUME NEW m \in MachineType, NEW command \in Commands, NEW location
    PROVE  LET n == CdControlF(m, command, location)
           IN /\ n.items = m.items
              /\ n.audio_enabled = m.audio_enabled
              /\ n.status_flags = m.status_flags
              /\ n.sync_callback = m.sync_callback
              /\ n.ready_callback = m.ready_callback
              /\ n.init_state = m.init_state
              /\ n.init_command = m.init_command
              /\ command # "None" => n.issued # "None" \/ n.waiting # "None"
<1>1. CASE m.issued = "None"
  BY <1>1 DEF CdControlF, MachineType
<1>2. CASE m.issued # "None"
  BY <1>2 DEF CdControlF, MachineType
<1> QED BY <1>1, <1>2

LEMMA EndStepFields ==
    ASSUME NEW m \in MachineType
    PROVE  LET n == EndStep(m)
           IN /\ n.items = m.items
              /\ n.audio_enabled = m.audio_enabled
              /\ n.status_flags = m.status_flags
              /\ n.sync_callback = "none"
              /\ n.ready_callback = m.ready_callback
              /\ n.init_state = m.init_state
BY DEF EndStep, MachineType

LEMMA EndStepAtFields ==
    ASSUME NEW m \in MachineType, NEW state
    PROVE  LET n == EndStepAt(m, state)
           IN /\ n.items = m.items
              /\ n.audio_enabled = m.audio_enabled
              /\ n.status_flags = m.status_flags
              /\ n.sync_callback = "none"
              /\ n.ready_callback = m.ready_callback
              /\ n.init_state = state
<1> DEFINE ended == EndStep(m)
<1>1. ended \in MachineType
  BY EndStepType
<1>2. EndStepAt(m, state) = [ended EXCEPT !.init_state = state]
  BY DEF EndStepAt
<1>3. /\ ended.items = m.items
      /\ ended.audio_enabled = m.audio_enabled
      /\ ended.status_flags = m.status_flags
      /\ ended.sync_callback = "none"
      /\ ended.ready_callback = m.ready_callback
  BY EndStepFields
<1> HIDE DEF ended
<1> QED BY <1>1, <1>2, <1>3 DEF MachineType

-----------------------------------------------------------------------------
(* The sync callback while recovery is under way. *)

(* Recovery waits for the answer to one of its commands. *)
Recovers(m) ==
    /\ Plain(m)
    /\ "SYNC_ERROR" \notin m.status_flags
    /\ m.init_state \notin Asking
    /\ m.ready_callback # "handle_ready_intr"
    /\ m.sync_callback = "handle_recovery_sync"
    /\ m.init_command \in RecoverySteps

LEMMA GuardedRecovers ==
    ASSUME NEW m, Plain(m), Guarded(m), Failing(m), m.sync_callback = "handle_recovery_sync"
    PROVE  Recovers(m)
BY DEF Guarded, Recovers, Silent, Asking

LEMMA FurtherIsSound ==
    ASSUME NEW m \in MachineType, Recovers(m), NEW command \in Commands, command # "None",
           NEW location
    PROVE  Sound(CdControlF(m, command, location))
<1> DEFINE n == CdControlF(m, command, location)
<1>1. /\ n.items = m.items
      /\ n.audio_enabled = m.audio_enabled
      /\ n.status_flags = m.status_flags
      /\ n.sync_callback = m.sync_callback
      /\ n.ready_callback = m.ready_callback
      /\ n.init_state = m.init_state
      /\ n.init_command = m.init_command
      /\ n.issued # "None" \/ n.waiting # "None"
  BY CdControlFFields
<1> HIDE DEF n
<1> QED BY <1>1, StartedIsSound DEF Recovers, Plain, n

LEMMA EndStepIsSound ==
    ASSUME NEW m \in MachineType, Recovers(m), NEW state, state \notin Asking
    PROVE  Sound(EndStep(m)) /\ Sound(EndStepAt(m, state))
<1>1. Sound(EndStep(m))
  BY EndStepFields, StartedIsSound DEF Recovers, Plain
<1>2. Sound(EndStepAt(m, state))
  <2> DEFINE n == EndStepAt(m, state)
  <2>1. /\ n.items = m.items
        /\ n.audio_enabled = m.audio_enabled
        /\ n.status_flags = m.status_flags
        /\ n.sync_callback = "none"
        /\ n.ready_callback = m.ready_callback
        /\ n.init_state = state
    BY EndStepAtFields
  <2> HIDE DEF n
  <2> QED BY <2>1, StartedIsSound DEF Recovers, Plain, n
<1> QED BY <1>1, <1>2

LEMMA FinishRecoverySound ==
    ASSUME NEW m \in MachineType, Plain(m)
    PROVE  Sound(FinishRecovery(m))
<1> DEFINE cleared == ClearErrors(m)
           clean == [cleared EXCEPT !.init_command = 0, !.init_state = IDLE, !.retry_counter = 0]
           next == [clean EXCEPT !.current_command = "Nop", !.sync_callback = "complete_command"]
<1>1. FinishRecovery(m) = IF IsEmpty(m) THEN [clean EXCEPT !.sync_callback = "none"]
                          ELSE CdControlF(next, "Nop", 0)
  BY DEF FinishRecovery
<1>2. cleared \in MachineType
  BY ClearErrorsType
<1>3. ~Failing(cleared)
  BY DEF Failing, HasFlag, ClearErrors, MachineType
<1> HIDE DEF cleared
<1>4. clean \in MachineType /\ clean.status_flags = cleared.status_flags
  <2>1. clean \in MachineType
    BY <1>2, StepValues, StateValues, ZenonT(30) DEF MachineType
  <2>2. clean.status_flags = cleared.status_flags
    BY <1>2 DEF MachineType
  <2> QED BY <2>1, <2>2
<1> HIDE DEF clean
<1>5. next \in MachineType /\ next.status_flags = clean.status_flags
  <2>1. next \in MachineType
    BY <1>4, CommandValues, ZenonT(30) DEF MachineType
  <2>2. next.status_flags = clean.status_flags
    BY <1>4 DEF MachineType
  <2> QED BY <2>1, <2>2
<1>6. [clean EXCEPT !.sync_callback = "none"].status_flags = clean.status_flags
  BY <1>4 DEF MachineType
<1> HIDE DEF next
<1>7. CdControlF(next, "Nop", 0).status_flags = next.status_flags
  BY <1>5, CdControlFFields, CommandValues
<1>8. ~Failing(FinishRecovery(m))
  BY <1>1, <1>3, <1>4, <1>5, <1>6, <1>7 DEF Failing, HasFlag
<1>9. FinishRecovery(m) \in MachineType /\ Calmer(m, FinishRecovery(m))
  BY FinishRecoveryType
<1> QED BY <1>8, <1>9, CalmKeepsPlain DEF Sound, Guarded, Owed

LEMMA StepDoneSound ==
    ASSUME NEW m \in MachineType, Recovers(m)
    PROVE  Sound(StepDone(m))
<1>1. StepDone(m) \in {EndStep(m), EndStepAt(m, READ_DISC_ID), FinishRecovery(m)}
  BY DEF StepDone, Recovers, RecoverySteps, PAUSE, AUDIO_PAUSE, RESTORE_MODE,
         STEP_SET_FILTER, STEP_DEMUTE, STEP_PAUSE, STEP_COMPLETE,
         RECOVERY_SET_MODE, RECOVERY_READ_DISC_ID, RECOVERY_RETRY_READ, RECOVERY_COMPLETE
<1>2. Plain(m)
  BY DEF Recovers
<1> QED BY <1>1, <1>2, StartedStates, EndStepIsSound, FinishRecoverySound

LEMMA StepFailedTwiceSound ==
    ASSUME NEW m \in MachineType, Recovers(m)
    PROVE  Sound(StepFailedTwice(m))
<1>1. StepFailedTwice(m) \in {CdControlF(m, "ReadN", ValidationLocation),
                              EndStepAt(m, READ_DISC_ID), EndStepAt(m, SET_MODE)}
  BY DEF StepFailedTwice, Recovers, RecoverySteps, PAUSE, AUDIO_PAUSE, RESTORE_MODE,
         STEP_SET_FILTER, STEP_DEMUTE, STEP_PAUSE, STEP_COMPLETE,
         RECOVERY_SET_MODE, RECOVERY_READ_DISC_ID, RECOVERY_RETRY_READ, RECOVERY_COMPLETE
<1> QED BY <1>1, StartedStates, EndStepIsSound, FurtherIsSound, CommandValues

LEMMA HandleRecoverySyncSound ==
    ASSUME NEW m \in MachineType, Recovers(m),
           NEW complete \in BOOLEAN, NEW shellOpen \in BOOLEAN, NEW rejected \in BOOLEAN
    PROVE  Sound(HandleRecoverySync(m, complete, shellOpen, rejected))
<1> DEFINE seen == [m EXCEPT !.sync_complete = TRUE]
           off == Disarm(seen)
           refused == [off EXCEPT !.init_state = ERROR_PAUSE,
                                  !.init_command = 0,
                                  !.init_retry = FALSE,
                                  !.status_flags = @ \ {"NO_DISC"}]
           ended == [refused EXCEPT !.init_retry = FALSE]
           asked == [refused EXCEPT !.init_retry = TRUE]
           heard(retry) == [seen EXCEPT !.init_retry = retry]
<1>1. seen \in MachineType /\ Recovers(seen)
  <2>1. Recovers(seen)
    BY DEF Recovers, Plain, MachineType
  <2> QED BY <2>1, FieldUpdates
<1>2. HandleRecoverySync(m, complete, shellOpen, rejected) \in
        {HandleSyncError(seen),
         StepDone(ended), CdControlF(asked, "Nop", 0),
         StepDone(heard(FALSE)), StepFailedTwice(heard(FALSE)), CdControlF(heard(TRUE), "Nop", 0)}
  <2> DEFINE checked == IF m.init_command = RECOVERY_READ_DISC_ID /\ rejected THEN refused ELSE seen
             first == [checked EXCEPT !.init_retry = FALSE]
             again == [checked EXCEPT !.init_retry = TRUE]
             lidOpened == m.init_retry /\ "RECOVERY_PENDING" \notin m.status_flags /\ shellOpen
  <2>1. HandleRecoverySync(m, complete, shellOpen, rejected) =
          IF lidOpened THEN HandleSyncError(seen)
          ELSE IF complete THEN StepDone(first)
          ELSE IF checked.init_retry THEN StepFailedTwice(first)
          ELSE CdControlF(again, "Nop", 0)
    BY DEF HandleRecoverySync
  <2>2. refused.init_retry = FALSE
    <3>1. off \in MachineType
      BY <1>1, DisarmType
    <3> HIDE DEF off
    <3> QED BY <3>1 DEF MachineType
  <2>3. CASE m.init_command = RECOVERY_READ_DISC_ID /\ rejected
    BY <2>1, <2>2, <2>3
  <2>4. CASE ~(m.init_command = RECOVERY_READ_DISC_ID /\ rejected)
    BY <2>1, <2>4
  <2> QED BY <2>3, <2>4
<1>3. off \in MachineType /\ Plain(off) /\ Silent(off) /\ "SYNC_ERROR" \notin off.status_flags
  <2>1. off \in MachineType
    BY <1>1, DisarmType
  <2>2. /\ off.items = seen.items /\ off.audio_enabled = seen.audio_enabled
        /\ off.status_flags = seen.status_flags
        /\ off.sync_callback = "none" /\ off.ready_callback = "none"
    <3> HIDE DEF seen
    <3> QED BY <1>1 DEF Disarm, MachineType
  <2> HIDE DEF off, seen
  <2> QED BY <1>1, <2>1, <2>2 DEF Plain, Silent, Recovers
<1> HIDE DEF seen, off
<1>4. /\ refused \in MachineType /\ Plain(refused) /\ Silent(refused)
      /\ "SYNC_ERROR" \notin refused.status_flags /\ refused.init_command = 0
  <2>1. off.status_flags \ {"NO_DISC"} \in SUBSET Flags
    BY <1>3 DEF MachineType
  <2>2. refused \in MachineType
    BY <1>3, <2>1, StateValues, StepValues, ZenonT(30) DEF MachineType
  <2>3. /\ refused.items = off.items /\ refused.audio_enabled = off.audio_enabled
        /\ refused.status_flags = off.status_flags \ {"NO_DISC"}
        /\ refused.sync_callback = off.sync_callback /\ refused.ready_callback = off.ready_callback
        /\ refused.init_command = 0
    BY <1>3 DEF MachineType
  <2> HIDE DEF refused
  <2> QED BY <1>3, <2>2, <2>3 DEF Plain, Silent
<1> HIDE DEF refused
<1>5. /\ ended \in MachineType /\ Plain(ended) /\ Silent(ended)
      /\ "SYNC_ERROR" \notin ended.status_flags /\ ended.init_command = 0
  <2>1. ended \in MachineType
    BY <1>4, FieldUpdates
  <2>2. /\ Plain(ended) /\ Silent(ended)
        /\ "SYNC_ERROR" \notin ended.status_flags /\ ended.init_command = 0
    BY <1>4 DEF Plain, Silent, MachineType
  <2> QED BY <2>1, <2>2
<1>6. /\ asked \in MachineType /\ Plain(asked) /\ Silent(asked)
       /\ "SYNC_ERROR" \notin asked.status_flags
  <2>1. asked \in MachineType
    BY <1>4, FieldUpdates
  <2>2. /\ Plain(asked) /\ Silent(asked)
        /\ "SYNC_ERROR" \notin asked.status_flags
    BY <1>4 DEF Plain, Silent, MachineType
  <2> QED BY <2>1, <2>2
<1>7. ASSUME NEW retry \in BOOLEAN
      PROVE  heard(retry) \in MachineType /\ Recovers(heard(retry))
  <2>1. heard(retry) \in MachineType
    BY <1>1, FieldUpdates
  <2>2. Recovers(heard(retry))
    BY <1>1 DEF Recovers, Plain, MachineType
  <2> QED BY <2>1, <2>2
<1> HIDE DEF ended, asked, heard
<1>8. Sound(HandleSyncError(seen))
  BY <1>1, HandleSyncErrorSound DEF Recovers
<1>9. Sound(StepDone(ended))
  <2>1. StepDone(ended) = ended
    BY <1>5 DEF StepDone, PAUSE, AUDIO_PAUSE, RESTORE_MODE,
       STEP_SET_FILTER, STEP_DEMUTE, STEP_PAUSE, STEP_COMPLETE,
       RECOVERY_SET_MODE, RECOVERY_READ_DISC_ID, RECOVERY_RETRY_READ, RECOVERY_COMPLETE
  <2> QED BY <1>5, <2>1, SilentIsSound
<1>10. Sound(CdControlF(asked, "Nop", 0))
  <2> DEFINE n == CdControlF(asked, "Nop", 0)
  <2>1. /\ n.items = asked.items
        /\ n.audio_enabled = asked.audio_enabled
        /\ n.status_flags = asked.status_flags
        /\ n.sync_callback = asked.sync_callback
        /\ n.ready_callback = asked.ready_callback
    BY <1>6, CdControlFFields, CommandValues
  <2> HIDE DEF n
  <2>2. Plain(n) /\ Silent(n) /\ "SYNC_ERROR" \notin n.status_flags
    BY <1>6, <2>1 DEF Plain, Silent
  <2> QED BY <2>2, SilentIsSound DEF n
<1>11. Sound(StepDone(heard(FALSE))) /\ Sound(StepFailedTwice(heard(FALSE)))
  BY <1>7, StepDoneSound, StepFailedTwiceSound
<1>12. Sound(CdControlF(heard(TRUE), "Nop", 0))
  BY <1>7, FurtherIsSound, CommandValues
<1> QED BY <1>2, <1>8, <1>9, <1>10, <1>11, <1>12

LEMMA VerifyDiscSound ==
    ASSUME NEW m \in MachineType, Sound(m), m.ready_callback = "verify_disc",
           NEW dataReady \in BOOLEAN, NEW genuine \in BOOLEAN
    PROVE  Sound(VerifyDisc(m, dataReady, genuine))
<1> DEFINE seen == [m EXCEPT !.sync_complete = TRUE, !.ready_callback = "none"]
           at(step) == [seen EXCEPT !.init_command = step,
                                    !.init_retry = FALSE,
                                    !.sync_callback = "handle_recovery_sync"]
           wrong == [seen EXCEPT !.init_state = ERROR_PAUSE, !.status_flags = @ \ {"NO_DISC"}]
<1>1. CASE ~Failing(m)
  <2>1. VerifyDisc(m, dataReady, genuine) \in MachineType /\ Calmer(m, VerifyDisc(m, dataReady, genuine))
    BY VerifyDiscType
  <2> QED BY <1>1, <2>1, CalmKeepsSound DEF Sound
<1>2. CASE Failing(m)
  <2>1. VerifyDisc(m, dataReady, genuine) \in
          {CdControlF(at(RECOVERY_RETRY_READ), "Pause", 0),
           CdControlF(at(RECOVERY_COMPLETE), "Setmode", 0), wrong}
    BY DEF VerifyDisc
  <2>2. m.init_state \notin Asking /\ "SYNC_ERROR" \notin m.status_flags /\ Plain(m)
    BY <1>2 DEF Sound, Guarded, Silent, Asking
  <2>3. seen \in MachineType
    BY ZenonT(30) DEF MachineType
  <2>4. /\ seen.items = m.items /\ seen.audio_enabled = m.audio_enabled
        /\ seen.status_flags = m.status_flags /\ seen.init_state = m.init_state
        /\ seen.sync_callback = m.sync_callback /\ seen.ready_callback = "none"
        /\ seen.init_command = m.init_command
        /\ seen.issued = m.issued /\ seen.waiting = m.waiting
    BY DEF MachineType
  <2> HIDE DEF seen
  <2>5. ASSUME NEW step \in RecoverySteps
        PROVE  at(step) \in MachineType /\ Recovers(at(step))
    <3>1. step \in InitCommands
      BY StepValues DEF RecoverySteps
    <3>2. at(step) \in MachineType
      BY <2>3, <3>1, ZenonT(30) DEF MachineType
    <3>3. /\ at(step).items = seen.items /\ at(step).audio_enabled = seen.audio_enabled
          /\ at(step).status_flags = seen.status_flags /\ at(step).init_state = seen.init_state
          /\ at(step).sync_callback = "handle_recovery_sync"
          /\ at(step).ready_callback = seen.ready_callback
          /\ at(step).init_command = step
      BY <2>3 DEF MachineType
    <3> HIDE DEF at
    <3> QED BY <2>2, <2>4, <3>2, <3>3 DEF Recovers, Plain
  <2>6. Sound(wrong)
    <3>1. /\ wrong.items = seen.items /\ wrong.audio_enabled = seen.audio_enabled
          /\ wrong.status_flags = seen.status_flags \ {"NO_DISC"}
          /\ wrong.init_state = ERROR_PAUSE
          /\ wrong.sync_callback = seen.sync_callback
          /\ wrong.ready_callback = seen.ready_callback
          /\ wrong.init_command = seen.init_command
          /\ wrong.issued = seen.issued /\ wrong.waiting = seen.waiting
      BY <2>3 DEF MachineType
    <3> HIDE DEF wrong
    <3>2. Plain(wrong) /\ "SYNC_ERROR" \notin wrong.status_flags
      BY <2>2, <2>4, <3>1 DEF Plain
    <3>3. m.sync_callback \in {"none", "complete_command", "handle_recovery_sync"}
      BY DEF MachineType
    <3>4. \/ wrong.sync_callback = "none"
          \/ /\ wrong.sync_callback = "handle_recovery_sync"
             /\ wrong.init_command \in RecoverySteps
             /\ wrong.issued # "None" \/ wrong.waiting # "None"
      BY <1>2, <2>4, <3>1, <3>3 DEF Sound, Guarded, Owed
    <3> QED BY <2>4, <3>1, <3>2, <3>4, StartedStates, StartedIsSound
  <2> HIDE DEF at, wrong
  <2>7. RECOVERY_RETRY_READ \in RecoverySteps /\ RECOVERY_COMPLETE \in RecoverySteps
    BY DEF RecoverySteps
  <2> QED BY <2>1, <2>5, <2>6, <2>7, FurtherIsSound, CommandValues
<1> QED BY <1>1, <1>2

-----------------------------------------------------------------------------
(* The interrupts. *)

LEMMA SyncCallbackSound ==
    ASSUME NEW m \in MachineType, Plain(m), Guarded(m), NEW complete \in BOOLEAN
    PROVE  Sound(SyncCallback(m, complete))
<1> DEFINE seen == [m EXCEPT !.sync_complete = TRUE]
<1>1. ShellOpen \in BOOLEAN /\ Rejected \in BOOLEAN
  BY DEF ShellOpen, Rejected
<1>2. m.sync_callback \in {"none", "complete_command", "handle_recovery_sync"}
  BY DEF MachineType
<1>3. Sound(HandleSyncError(seen))
  <2>1. seen \in MachineType /\ Calmer(m, seen)
    BY FieldUpdates, FieldsCalm
  <2> HIDE DEF seen
  <2> QED BY <2>1, CalmKeepsPlain, HandleSyncErrorSound
<1>4. CASE m.sync_callback = "none"
  BY <1>4 DEF SyncCallback, Sound, Owed
<1>5. CASE m.sync_callback = "complete_command"
  <2> DEFINE n == CompleteCommand(m, complete, ShellOpen)
  <2>1. SyncCallback(m, complete) = n
    BY <1>5 DEF SyncCallback
  <2>2. n \in MachineType /\ (Calmer(m, n) \/ n = HandleSyncError(seen))
    BY <1>1, CompleteCommandType
  <2>3. ~Failing(m)
    BY <1>5 DEF Guarded
  <2> HIDE DEF n, seen
  <2> QED BY <1>3, <2>1, <2>2, <2>3, CalmKeepsSound
<1>6. CASE m.sync_callback = "handle_recovery_sync"
  <2> DEFINE n == HandleRecoverySync(m, complete, ShellOpen, Rejected)
  <2>1. SyncCallback(m, complete) = n
    BY <1>6 DEF SyncCallback
  <2>2. CASE ~Failing(m)
    <3>1. n \in MachineType /\ (Calmer(m, n) \/ n = HandleSyncError(seen))
      BY <1>1, HandleRecoverySyncType
    <3> HIDE DEF n, seen
    <3> QED BY <1>3, <2>1, <2>2, <3>1, CalmKeepsSound
  <2>3. CASE Failing(m)
    <3>1. Recovers(m)
      BY <1>6, <2>3, GuardedRecovers
    <3> QED BY <1>1, <2>1, <3>1, HandleRecoverySyncSound
  <2> QED BY <2>2, <2>3
<1> QED BY <1>2, <1>4, <1>5, <1>6

LEMMA ReadyCallbackSound ==
    ASSUME NEW m \in MachineType, Sound(m),
           NEW dataReady \in BOOLEAN, NEW accept \in BOOLEAN, NEW decoding \in BOOLEAN
    PROVE  Sound(ReadyCallback(m, dataReady, accept, decoding))
<1>1. m.ready_callback \in {"none", "handle_ready_intr", "verify_disc"}
  BY DEF MachineType
<1>2. CASE m.ready_callback = "none"
  BY <1>2 DEF ReadyCallback
<1>3. CASE m.ready_callback = "handle_ready_intr"
  <2> DEFINE n == HandleReadyIntr(m, dataReady, accept, decoding)
  <2>1. ReadyCallback(m, dataReady, accept, decoding) = n
    BY <1>3 DEF ReadyCallback
  <2>2. n \in MachineType /\ Calmer(m, n)
    BY HandleReadyIntrType
  <2>3. ~Failing(m) /\ Plain(m)
    BY <1>3 DEF Sound, Guarded
  <2> HIDE DEF n
  <2> QED BY <2>1, <2>2, <2>3, CalmKeepsSound
<1>4. CASE m.ready_callback = "verify_disc"
  <2>1. ReadyCallback(m, dataReady, accept, decoding) = VerifyDisc(m, dataReady, Genuine)
    BY <1>4 DEF ReadyCallback
  <2> QED BY <1>4, <2>1, VerifyDiscSound DEF Genuine
<1> QED BY <1>1, <1>2, <1>3, <1>4

-----------------------------------------------------------------------------
(* Steps that leave what counts as it is. *)

(* Of m, all that Plain and Guarded look at is kept. *)
Keeps(m, n) ==
    /\ n.audio_enabled = m.audio_enabled
    /\ \A i \in Slots : n.items[i].command # "ReadS"
    /\ \A f \in RecoveryFlags : f \in n.status_flags <=> f \in m.status_flags
    /\ n.sync_callback = m.sync_callback /\ n.ready_callback = m.ready_callback
    /\ n.init_state = m.init_state /\ n.init_command = m.init_command

LEMMA KeptFailing ==
    ASSUME NEW m, NEW n, Keeps(m, n)
    PROVE  Failing(n) <=> Failing(m)
BY DEF Keeps, Failing, HasFlag, RecoveryFlags

LEMMA KeptGuarded ==
    ASSUME NEW m, NEW n, Keeps(m, n), Plain(m), Guarded(m)
    PROVE  Plain(n) /\ Guarded(n)
<1>1. /\ "RECOVERY_PENDING" \in n.status_flags <=> "RECOVERY_PENDING" \in m.status_flags
      /\ "SYNC_ERROR" \in n.status_flags <=> "SYNC_ERROR" \in m.status_flags
  BY DEF Keeps, RecoveryFlags, ErrorFlags
<1>2. Plain(n)
  BY <1>1 DEF Keeps, Plain
<1>3. Guarded(n)
  BY <1>1, KeptFailing DEF Keeps, Guarded, Silent
<1> QED BY <1>2, <1>3

LEMMA KeptSound ==
    ASSUME NEW m, NEW n, Keeps(m, n), Sound(m),
           n.issued = m.issued \/ n.issued # "None",
           n.waiting = m.waiting \/ n.issued # "None"
    PROVE  Sound(n)
<1>1. Plain(n) /\ Guarded(n)
  BY KeptGuarded DEF Sound
<1>2. Owed(n)
  BY KeptFailing DEF Keeps, Sound, Owed
<1> QED BY <1>1, <1>2 DEF Sound

LEMMA UnfailingIsSound ==
    ASSUME NEW m, Plain(m), ~Failing(m)
    PROVE  Sound(m)
BY DEF Sound, Guarded, Owed

(* The poll that finds both slots empty, and no error left but the disc. *)
LEMMA StillSilent ==
    ASSUME NEW m, NEW n, Plain(m), Silent(m), "SYNC_ERROR" \notin m.status_flags,
           n.items = m.items, n.audio_enabled = m.audio_enabled,
           n.status_flags \subseteq m.status_flags,
           n.sync_callback = m.sync_callback, n.ready_callback = m.ready_callback
    PROVE  Sound(n)
<1>1. Plain(n) /\ Silent(n) /\ "SYNC_ERROR" \notin n.status_flags
  BY DEF Plain, Silent
<1> QED BY <1>1, SilentIsSound

-----------------------------------------------------------------------------
(* The game and its queue. *)

LEMMA GameSound ==
    ASSUME DataFilesOnly, cd \in MachineType, Sound(cd), Game
    PROVE  Sound(cd')
<1>1. CASE \E req \in Offered : QueueCommand(req)
  <2>1. PICK req \in Offered : QueueCommand(req)
    BY <1>1
  <2>2. req.command # "ReadS"
    BY DEF DataFilesOnly
  <2>3. cd' = cd \/ cd' = Enqueue(cd, req)
    BY <2>1 DEF QueueCommand
  <2> DEFINE n == Enqueue(cd, req)
  <2>4. Sound(n)
    <3>1. /\ n.items = [cd.items EXCEPT ![cd.queue_write_index] = req]
          /\ n.audio_enabled = cd.audio_enabled /\ n.status_flags = cd.status_flags
          /\ n.sync_callback = cd.sync_callback /\ n.ready_callback = cd.ready_callback
          /\ n.init_state = cd.init_state /\ n.init_command = cd.init_command
          /\ n.issued = cd.issued /\ n.waiting = cd.waiting
      BY DEF Enqueue, MachineType
    <3>2. cd.items \in [Slots -> Request]
      BY DEF MachineType
    <3> HIDE DEF n
    <3>3. \A i \in Slots : n.items[i] = req \/ n.items[i] = cd.items[i]
      BY <3>1, <3>2
    <3>4. \A i \in Slots : n.items[i].command # "ReadS"
      BY <2>2, <3>3 DEF Sound, Plain
    <3>5. Keeps(cd, n)
      BY <3>1, <3>4 DEF Keeps
    <3> QED BY <3>1, <3>5, KeptSound
  <2> QED BY <2>3, <2>4
<1> DEFINE dropped == DropQueue(cd)
<1>2. /\ dropped \in MachineType
      /\ dropped.items = cd.items /\ dropped.status_flags = cd.status_flags
      /\ dropped.audio_enabled = cd.audio_enabled /\ dropped.init_state = cd.init_state
      /\ Silent(dropped)
  <2> DEFINE paused == BlockingPause(cd)
             off == Disarm(paused)
  <2>1. /\ paused \in MachineType
        /\ paused.items = cd.items /\ paused.status_flags = cd.status_flags
        /\ paused.audio_enabled = cd.audio_enabled /\ paused.init_state = cd.init_state
    <3>1. paused \in MachineType
      BY BlockingPauseType
    <3>2. /\ paused.items = cd.items /\ paused.status_flags = cd.status_flags
          /\ paused.audio_enabled = cd.audio_enabled /\ paused.init_state = cd.init_state
      BY DEF BlockingPause, MachineType
    <3> QED BY <3>1, <3>2
  <2> HIDE DEF paused
  <2>2. /\ off \in MachineType
        /\ off.items = cd.items /\ off.status_flags = cd.status_flags
        /\ off.audio_enabled = cd.audio_enabled /\ off.init_state = cd.init_state
        /\ off.sync_callback = "none" /\ off.ready_callback = "none"
    <3>1. off \in MachineType
      BY <2>1, DisarmType
    <3>2. /\ off.items = paused.items /\ off.status_flags = paused.status_flags
          /\ off.audio_enabled = paused.audio_enabled /\ off.init_state = paused.init_state
          /\ off.sync_callback = "none" /\ off.ready_callback = "none"
      BY <2>1 DEF Disarm, MachineType
    <3> QED BY <2>1, <3>1, <3>2
  <2>3. dropped = [off EXCEPT !.current_command = "None",
                              !.init_command = 0,
                              !.init_retry = FALSE,
                              !.playback_state = FALSE,
                              !.transfer_callback = NULL,
                              !.retry_counter = 0,
                              !.queue_read_index = 0,
                              !.queue_write_index = 0]
    BY DEF DropQueue, paused
  <2> HIDE DEF off
  <2>4. /\ dropped.items = off.items /\ dropped.status_flags = off.status_flags
        /\ dropped.audio_enabled = off.audio_enabled /\ dropped.init_state = off.init_state
        /\ dropped.sync_callback = off.sync_callback /\ dropped.ready_callback = off.ready_callback
    BY <2>2, <2>3 DEF MachineType
  <2> QED BY <2>2, <2>4, DropQueueType DEF Silent
<1>3. Plain(cd) /\ ("SYNC_ERROR" \in cd.status_flags => cd.init_state \in {IDLE, POLL_STATUS})
  BY DEF Sound, Guarded, Failing, HasFlag, ErrorFlags
<1>4. CASE Reset \/ Stop
  <2>1. \/ cd' = [dropped EXCEPT !.audio_enabled = FALSE]
        \/ cd' = [dropped EXCEPT !.audio_enabled = FALSE,
                                 !.status_flags = @ \ {"QUEUE_LOCK"},
                                 !.last_request = NULL,
                                 !.retry_count = 0,
                                 !.data_ready_pending = FALSE]
    BY <1>4 DEF Reset, Stop
  <2> HIDE DEF dropped
  <2>2. /\ cd'.items = dropped.items /\ cd'.audio_enabled = FALSE
        /\ cd'.status_flags \subseteq dropped.status_flags
        /\ cd'.init_state = dropped.init_state
        /\ cd'.sync_callback = dropped.sync_callback
        /\ cd'.ready_callback = dropped.ready_callback
    <3>1. CASE cd' = [dropped EXCEPT !.audio_enabled = FALSE]
      BY <1>2, <3>1 DEF MachineType
    <3>2. CASE cd' = [dropped EXCEPT !.audio_enabled = FALSE,
                                     !.status_flags = @ \ {"QUEUE_LOCK"},
                                     !.last_request = NULL,
                                     !.retry_count = 0,
                                     !.data_ready_pending = FALSE]
      BY <1>2, <3>2 DEF MachineType
    <3> QED BY <2>1, <3>1, <3>2
  <2>3. Plain(cd') /\ Silent(cd')
    BY <1>2, <1>3, <2>2 DEF Plain, Silent
  <2>4. "SYNC_ERROR" \in cd'.status_flags => cd'.init_state \in {IDLE, POLL_STATUS}
    BY <1>2, <1>3, <2>2
  <2> QED BY <2>3, <2>4, SilentIsSound
<1>5. CASE LockQueue \/ UnlockQueue
  <2>1. \/ cd' = [cd EXCEPT !.status_flags = @ \cup {"QUEUE_LOCK"}]
        \/ cd' = [cd EXCEPT !.status_flags = @ \ {"QUEUE_LOCK"}]
    BY <1>5 DEF LockQueue, UnlockQueue
  <2>2. /\ cd'.items = cd.items /\ cd'.audio_enabled = cd.audio_enabled
        /\ \/ cd'.status_flags = cd.status_flags \cup {"QUEUE_LOCK"}
           \/ cd'.status_flags = cd.status_flags \ {"QUEUE_LOCK"}
        /\ cd'.sync_callback = cd.sync_callback /\ cd'.ready_callback = cd.ready_callback
        /\ cd'.init_state = cd.init_state /\ cd'.init_command = cd.init_command
        /\ cd'.issued = cd.issued /\ cd'.waiting = cd.waiting
    BY <2>1 DEF MachineType
  <2>3. \A f \in RecoveryFlags : f \in cd'.status_flags <=> f \in cd.status_flags
    BY <2>2 DEF RecoveryFlags, ErrorFlags
  <2>4. Keeps(cd, cd')
    BY <1>3, <2>2, <2>3 DEF Keeps, Plain
  <2> QED BY <2>2, <2>4, KeptSound
<1>6. CASE EnterRecoveryMode
  BY <1>6 DEF EnterRecoveryMode, DataFilesOnly
<1> QED BY <1>1, <1>4, <1>5, <1>6 DEF Game

LEMMA QueueingSound ==
    ASSUME cd \in MachineType, Sound(cd), Queueing
    PROVE  Sound(cd')
<1>1. CASE QueueCheckCommand
  BY <1>1 DEF QueueCheckCommand
<1>2. CASE QueueCheckStep
  <2> DEFINE n == [cd EXCEPT !.current_command = "Nop",
                             !.playback_state = FALSE,
                             !.transfer_callback = NULL,
                             !.sync_callback = "complete_command"]
  <2>1. cd' = IF NothingPending(cd) THEN n ELSE cd
    BY <1>2 DEF QueueCheckStep
  <2>2. /\ n.items = cd.items /\ n.audio_enabled = cd.audio_enabled
        /\ n.status_flags = cd.status_flags
    BY DEF MachineType
  <2> HIDE DEF n
  <2>3. CASE NothingPending(cd)
    <3>1. ~Failing(n)
      BY <2>2, <2>3 DEF NothingPending, Failing, HasFlag, RecoveryFlags
    <3>2. Plain(n)
      BY <2>2 DEF Sound, Plain
    <3> QED BY <2>1, <2>3, <3>1, <3>2, UnfailingIsSound
  <2> QED BY <2>1, <2>3
<1>3. CASE StartNop
  <2> DEFINE n == CdControlF(cd, "Nop", 0)
  <2>1. cd' = n
    BY <1>3 DEF StartNop
  <2>2. /\ n.items = cd.items
        /\ n.audio_enabled = cd.audio_enabled
        /\ n.status_flags = cd.status_flags
        /\ n.sync_callback = cd.sync_callback
        /\ n.ready_callback = cd.ready_callback
        /\ n.init_state = cd.init_state
        /\ n.init_command = cd.init_command
    BY CdControlFFields, CommandValues
  <2>3. n.issued = "Nop"
    BY <1>3 DEF StartNop, CdControlF, MachineType
  <2> HIDE DEF n
  <2>4. Keeps(cd, n)
    BY <2>2 DEF Keeps, Sound, Plain
  <2> QED BY <2>1, <2>3, <2>4, KeptSound
<1> QED BY <1>1, <1>2, <1>3 DEF Queueing

-----------------------------------------------------------------------------
(* The service of the drive. *)

LEMMA RestKeeps ==
    ASSUME NEW m \in MachineType, Plain(m)
    PROVE  /\ Keeps(m, Rest(m))
           /\ Rest(m).issued = m.issued /\ Rest(m).waiting = m.waiting
<1> DEFINE n == Rest(m)
<1>1. /\ n.items = m.items /\ n.audio_enabled = m.audio_enabled
      /\ n.status_flags = m.status_flags
      /\ n.sync_callback = m.sync_callback /\ n.ready_callback = m.ready_callback
      /\ n.init_state = m.init_state /\ n.init_command = m.init_command
      /\ n.issued = m.issued /\ n.waiting = m.waiting
  BY DEF Rest, MachineType
<1> HIDE DEF n
<1> QED BY <1>1 DEF Keeps, Plain, n

LEMMA CollectSound ==
    ASSUME NEW m \in MachineType, Sound(m)
    PROVE  Sound(Collect(m))
<1> DEFINE n == Collect(m)
<1>1. /\ n.items = m.items /\ n.audio_enabled = m.audio_enabled
      /\ n.status_flags = m.status_flags
      /\ n.sync_callback = m.sync_callback /\ n.ready_callback = m.ready_callback
      /\ n.init_state = m.init_state /\ n.init_command = m.init_command
      /\ n.issued = m.issued /\ n.waiting = m.waiting
  BY DEF Collect, MachineType
<1> HIDE DEF n
<1>2. Keeps(m, n)
  BY <1>1 DEF Keeps, Sound, Plain
<1> QED BY <1>1, <1>2, KeptSound DEF n

(* Only a look that Undisturbed speaks of leads to a handler put in place. *)
LEMMA ServiceSound ==
    ASSUME cd \in MachineType, Sound(cd), Undisturbed,
           \/ ServiceCheckCommand \/ Supervise \/ WatchdogDue
           \/ WatchdogCommand \/ WatchdogStep \/ WatchdogNop
           \/ Restart \/ IdleQuiet \/ IdlePoll \/ IdlePollFails
    PROVE  Sound(cd')
<1> DEFINE rested == Rest(cd)
<1>1. Plain(cd) /\ Guarded(cd)
  BY DEF Sound
<1>2. rested \in MachineType /\ Sound(rested)
  BY <1>1, RestType, RestKeeps, KeptSound
<1> HIDE DEF rested
<1>3. CASE ServiceCheckCommand \/ WatchdogDue
  BY <1>3 DEF ServiceCheckCommand, WatchdogDue
<1>4. CASE Supervise
  BY <1>4, CollectSound DEF Supervise
<1>5. CASE WatchdogCommand \/ WatchdogStep \/ Restart
  <2>1. ~Failing(cd)
    BY <1>5 DEF Undisturbed, WatchdogCommand, WatchdogStep, Restart, Unoccupied, Running
  <2>2. /\ cd'.items = cd.items /\ cd'.audio_enabled = cd.audio_enabled
        /\ cd'.status_flags = cd.status_flags
    <3>1. CASE WatchdogCommand \/ Restart
      <4> DEFINE resume == Resumable(cd)
      <4>1. cd' = [cd EXCEPT !.current_command = "Nop",
                             !.playback_state = resume,
                             !.sync_callback = "complete_command",
                             !.ready_callback = "none"]
        BY <3>1 DEF WatchdogCommand, Restart
      <4> HIDE DEF resume
      <4> QED BY <4>1 DEF MachineType
    <3>2. CASE WatchdogStep
      BY <3>2 DEF WatchdogStep, MachineType
    <3> QED BY <1>5, <3>1, <3>2
  <2>3. Plain(cd') /\ ~Failing(cd')
    BY <1>1, <2>1, <2>2 DEF Plain, Failing, HasFlag
  <2> QED BY <2>3, UnfailingIsSound
<1>6. CASE WatchdogNop
  BY <1>1, <1>6, SyncCallbackSound DEF WatchdogNop, BlockingNop
<1>7. CASE IdleQuiet
  BY <1>2, <1>7 DEF IdleQuiet, rested
<1>8. CASE IdlePoll
  <2> DEFINE polled == BlockingNop(rested)
             answered == IF ShellOpen THEN HandleSyncError(polled) ELSE polled
  <2>1. cd' = [answered EXCEPT !.sync_complete = FALSE, !.retry_counter = 0]
    BY <1>8 DEF IdlePoll, rested
  <2>2. polled \in MachineType /\ Sound(polled)
    BY <1>2, BlockingNopType, SyncCallbackSound DEF BlockingNop, Sound
  <2> HIDE DEF polled
  <2>3. answered \in MachineType /\ Sound(answered)
    BY <2>2, HandleSyncErrorType, HandleSyncErrorSound DEF Sound
  <2> HIDE DEF answered
  <2>4. /\ cd'.items = answered.items /\ cd'.audio_enabled = answered.audio_enabled
        /\ cd'.status_flags = answered.status_flags
        /\ cd'.sync_callback = answered.sync_callback
        /\ cd'.ready_callback = answered.ready_callback
        /\ cd'.init_state = answered.init_state /\ cd'.init_command = answered.init_command
        /\ cd'.issued = answered.issued /\ cd'.waiting = answered.waiting
    BY <2>1, <2>3 DEF MachineType
  <2>5. Keeps(answered, cd')
    BY <2>3, <2>4 DEF Keeps, Sound, Plain
  <2> QED BY <2>3, <2>4, <2>5, KeptSound
<1>9. CASE IdlePollFails
  <2> DEFINE counted == [rested EXCEPT !.retry_counter = @ + 1]
  <2>1. cd' = HandleSyncError(rested) \/ cd' = counted
    BY <1>9 DEF IdlePollFails, rested
  <2>2. Sound(HandleSyncError(rested))
    BY <1>2, HandleSyncErrorSound DEF Sound
  <2>3. /\ counted.items = rested.items /\ counted.audio_enabled = rested.audio_enabled
        /\ counted.status_flags = rested.status_flags
        /\ counted.sync_callback = rested.sync_callback
        /\ counted.ready_callback = rested.ready_callback
        /\ counted.init_state = rested.init_state /\ counted.init_command = rested.init_command
        /\ counted.issued = rested.issued /\ counted.waiting = rested.waiting
    BY <1>2 DEF MachineType
  <2> HIDE DEF counted
  <2>4. Keeps(rested, counted)
    BY <1>2, <2>3 DEF Keeps, Sound, Plain
  <2>5. Sound(counted)
    BY <1>2, <2>3, <2>4, KeptSound
  <2> QED BY <2>1, <2>2, <2>5
<1> QED BY <1>3, <1>4, <1>5, <1>6, <1>7, <1>8, <1>9

-----------------------------------------------------------------------------
(* Recovery. *)

LEMMA EnterRecoveryFields ==
    ASSUME NEW m \in MachineType
    PROVE  LET n == EnterRecovery(m)
           IN /\ n.items = m.items /\ n.audio_enabled = m.audio_enabled
              /\ n.status_flags = m.status_flags
              /\ n.sync_callback = m.sync_callback /\ n.ready_callback = m.ready_callback
              /\ n.init_state = (IF m.init_state = IDLE THEN POLL_STATUS ELSE m.init_state)
              /\ n.init_command = m.init_command
              /\ n.issued = m.issued /\ n.waiting = m.waiting
<1>1. CASE m.init_state # IDLE
  BY <1>1 DEF EnterRecovery
<1>2. CASE m.init_state = IDLE
  <2> DEFINE resume == Resumable(m)
             n == [m EXCEPT !.init_state = POLL_STATUS,
                            !.playback_state = resume,
                            !.data_ready_pending = FALSE]
  <2>1. EnterRecovery(m) = n
    BY <1>2 DEF EnterRecovery
  <2> HIDE DEF resume
  <2>2. /\ n.items = m.items /\ n.audio_enabled = m.audio_enabled
        /\ n.status_flags = m.status_flags
        /\ n.sync_callback = m.sync_callback /\ n.ready_callback = m.ready_callback
        /\ n.init_state = POLL_STATUS
        /\ n.init_command = m.init_command
        /\ n.issued = m.issued /\ n.waiting = m.waiting
    BY DEF MachineType
  <2> HIDE DEF n
  <2> QED BY <1>2, <2>1, <2>2
<1> QED BY <1>1, <1>2

LEMMA EnterRecoverySound ==
    ASSUME NEW m \in MachineType, Sound(m)
    PROVE  Sound(EnterRecovery(m))
<1> DEFINE n == EnterRecovery(m)
<1>1. /\ n.items = m.items /\ n.audio_enabled = m.audio_enabled
      /\ n.status_flags = m.status_flags
      /\ n.sync_callback = m.sync_callback /\ n.ready_callback = m.ready_callback
      /\ n.init_state = (IF m.init_state = IDLE THEN POLL_STATUS ELSE m.init_state)
      /\ n.init_command = m.init_command
      /\ n.issued = m.issued /\ n.waiting = m.waiting
  BY EnterRecoveryFields
<1> HIDE DEF n
<1>2. IDLE \in Asking /\ POLL_STATUS \in Asking
  BY DEF Asking
<1>3. Plain(n) /\ Owed(n) /\ (Failing(n) <=> Failing(m))
  BY <1>1 DEF Sound, Plain, Owed, Failing, HasFlag
<1>4. Guarded(n)
  BY <1>1, <1>2, <1>3 DEF Sound, Guarded, Silent
<1> QED BY <1>3, <1>4 DEF Sound, n

(* The status request of a poll finds no sync callback. *)
LEMMA PolledIs ==
    ASSUME cd \in MachineType, Sound(cd), Recovering, cd.issued = "None"
    PROVE  /\ BlockingNop(EnterRecovery(cd)) = EnterRecovery(cd)
           /\ Polled \in MachineType /\ Sound(Polled) /\ Failing(Polled)
           /\ Polled.sync_callback = "none"
<1> DEFINE n == EnterRecovery(cd)
<1>1. Failing(cd) /\ cd.waiting = "None"
  BY DEF Recovering, Running, Failing
<1>2. cd.sync_callback \in {"none", "complete_command", "handle_recovery_sync"}
  BY DEF MachineType
<1>3. cd.sync_callback = "none"
  BY <1>1, <1>2 DEF Sound, Guarded, Owed
<1>4. n.sync_callback = "none" /\ n.status_flags = cd.status_flags
  BY <1>3, EnterRecoveryFields
<1>5. n \in MachineType /\ Sound(n)
  BY EnterRecoveryType, EnterRecoverySound
<1> HIDE DEF n
<1>6. BlockingNop(n) = n
  BY <1>4 DEF BlockingNop, SyncCallback
<1> QED BY <1>1, <1>4, <1>5, <1>6 DEF Polled, Failing, HasFlag, n

LEMMA AbandonSound ==
    ASSUME NEW m \in MachineType, Sound(m), Failing(m)
    PROVE  Sound(Abandon(m))
<1> DEFINE off == Disarm(BlockingPause(m))
           stopped == [off EXCEPT !.init_command = 0, !.init_retry = FALSE]
           quiet == IF m.init_state < SET_MODE THEN m ELSE stopped
           n == [quiet EXCEPT !.init_state = POLL_STATUS,
                              !.status_flags = (@ \cup {"SYNC_ERROR"}) \ {"INVALID_DISC", "NO_DISC"}]
<1>1. Abandon(m) = n
  BY DEF Abandon
<1>2. Plain(quiet) /\ Silent(quiet) /\ quiet \in MachineType
  <2>1. CASE m.init_state < SET_MODE
    <3>1. m.init_state \in InitStates
      BY DEF MachineType
    <3>2. m.init_state \in Asking
      BY <2>1, <3>1 DEF Asking, InitStates, SET_MODE,
         IDLE, POLL_STATUS, CHECK_DISC, WAIT_FOR_DISC, WAIT_FOR_DRIVE, CHECK_DISC_TYPE
    <3> QED BY <2>1, <3>2 DEF Sound, Guarded
  <2>2. CASE ~(m.init_state < SET_MODE)
    <3> DEFINE paused == BlockingPause(m)
    <3>1. /\ paused.items = m.items /\ paused.status_flags = m.status_flags
          /\ paused.audio_enabled = m.audio_enabled
      BY DEF BlockingPause, MachineType
    <3>2. paused \in MachineType /\ off \in MachineType
      BY BlockingPauseType, DisarmType
    <3> HIDE DEF paused
    <3>3. /\ off.items = paused.items /\ off.status_flags = paused.status_flags
          /\ off.audio_enabled = paused.audio_enabled
          /\ off.sync_callback = "none" /\ off.ready_callback = "none"
      BY <3>2 DEF Disarm, MachineType, paused
    <3> HIDE DEF off
    <3>4. stopped \in MachineType
      BY <3>2, StepValues, ZenonT(30) DEF MachineType
    <3>5. /\ stopped.items = off.items /\ stopped.status_flags = off.status_flags
          /\ stopped.audio_enabled = off.audio_enabled
          /\ stopped.sync_callback = off.sync_callback
          /\ stopped.ready_callback = off.ready_callback
      BY <3>2 DEF MachineType
    <3> HIDE DEF stopped
    <3> QED BY <2>2, <3>1, <3>3, <3>4, <3>5 DEF Sound, Plain, Silent
  <2> QED BY <2>1, <2>2
<1> HIDE DEF quiet
<1>3. /\ n.items = quiet.items /\ n.audio_enabled = quiet.audio_enabled
      /\ n.status_flags = (quiet.status_flags \cup {"SYNC_ERROR"}) \ {"INVALID_DISC", "NO_DISC"}
      /\ n.sync_callback = quiet.sync_callback /\ n.ready_callback = quiet.ready_callback
      /\ n.init_state = POLL_STATUS
  BY <1>2 DEF MachineType
<1> HIDE DEF n
<1>4. Plain(n) /\ Silent(n)
  BY <1>2, <1>3 DEF Plain, Silent
<1> QED BY <1>1, <1>3, <1>4, SilentIsSound

(* A step of recovery goes out with its handlers. *)
LEMMA IssueSound ==
    ASSUME NEW m \in MachineType, Plain(m), "SYNC_ERROR" \notin m.status_flags,
           m.init_state \notin Asking,
           NEW ready \in {"none", "verify_disc"}, NEW step \in RecoverySteps,
           NEW command \in Commands, command # "None", NEW location
    PROVE  Sound(Issue(m, ready, step, command, location))
<1> DEFINE armed == [m EXCEPT !.sync_callback = "handle_recovery_sync",
                              !.ready_callback = ready,
                              !.init_command = step,
                              !.init_retry = FALSE]
<1>1. Issue(m, ready, step, command, location) = CdControlF(armed, command, location)
  BY DEF Issue
<1>2. step \in InitCommands
  BY StepValues DEF RecoverySteps
<1>3. armed \in MachineType
  BY <1>2, ZenonT(30) DEF MachineType
<1>4. /\ armed.items = m.items /\ armed.audio_enabled = m.audio_enabled
      /\ armed.status_flags = m.status_flags /\ armed.init_state = m.init_state
      /\ armed.sync_callback = "handle_recovery_sync" /\ armed.ready_callback = ready
      /\ armed.init_command = step
  BY DEF MachineType
<1> HIDE DEF armed
<1>5. Recovers(armed)
  BY <1>4 DEF Recovers, Plain
<1> QED BY <1>1, <1>3, <1>5, FurtherIsSound

(* What a poll that has found the state of recovery knows. *)
LEMMA PollAtKnows ==
    ASSUME cd \in MachineType, Sound(cd), NEW state, PollAt(state)
    PROVE  /\ Polled \in MachineType /\ Sound(Polled) /\ Plain(Polled)
           /\ Polled.init_state = state /\ Polled.sync_callback = "none"
           /\ Polled.ready_callback \in {"none", "verify_disc"}
           /\ state \in Asking => Silent(Polled)
           /\ state \notin {IDLE, POLL_STATUS} => "SYNC_ERROR" \notin Polled.status_flags
<1>1. /\ Polled \in MachineType /\ Sound(Polled) /\ Failing(Polled)
      /\ Polled.sync_callback = "none" /\ Polled.init_state = state
  BY PolledIs DEF PollAt
<1>2. Polled.ready_callback \in {"none", "handle_ready_intr", "verify_disc"}
  BY <1>1 DEF MachineType
<1> QED BY <1>1, <1>2 DEF Sound, Guarded

LEMMA RecoverySound ==
    ASSUME cd \in MachineType, Sound(cd), RecoveryWait \/ RecoveryPoll
    PROVE  Sound(cd')
<1>1. /\ CHECK_DISC \in Asking /\ WAIT_FOR_DISC \in Asking /\ WAIT_FOR_DRIVE \in Asking
      /\ CHECK_DISC_TYPE \in Asking /\ POLL_STATUS \in Asking
      /\ {CHECK_DISC, WAIT_FOR_DISC, WAIT_FOR_DRIVE, CHECK_DISC_TYPE, SET_MODE, READ_DISC_ID,
          WAIT_FOR_READ, ERROR_PAUSE, RETRY_READ} \cap {IDLE, POLL_STATUS} = {}
  BY DEF Asking, IDLE, POLL_STATUS, CHECK_DISC, WAIT_FOR_DISC, WAIT_FOR_DRIVE, CHECK_DISC_TYPE,
         SET_MODE, READ_DISC_ID, WAIT_FOR_READ, ERROR_PAUSE, RETRY_READ
<1>2. CASE RecoveryWait
  BY <1>2, EnterRecoverySound DEF RecoveryWait
<1>3. CASE RecoveryAbandon
  <2>1. Polled \in MachineType /\ Sound(Polled) /\ Failing(Polled)
        /\ BlockingNop(EnterRecovery(cd)) = EnterRecovery(cd)
    BY <1>3, PolledIs DEF RecoveryAbandon
  <2>2. cd' = Abandon(Polled)
    BY <1>3, <2>1 DEF RecoveryAbandon, Polled
  <2> QED BY <2>1, <2>2, AbandonSound
<1>4. CASE \E spinning \in BOOLEAN : RecoveryCheckDisc(spinning)
  <2> DEFINE found == FoundClosed
  <2>1. PICK state \in {POLL_STATUS, CHECK_DISC} : PollAt(state)
    BY <1>4 DEF RecoveryCheckDisc
  <2>2. /\ Polled \in MachineType /\ Plain(Polled) /\ Silent(Polled)
        /\ Polled.init_state = state
        /\ state # POLL_STATUS => "SYNC_ERROR" \notin Polled.status_flags
    BY <1>1, <2>1, PollAtKnows
  <2>3. found \in MachineType /\ Plain(found) /\ Silent(found) /\ "SYNC_ERROR" \notin found.status_flags
    <3>1. CASE state # POLL_STATUS
      BY <2>2, <3>1 DEF FoundClosed
    <3>2. CASE state = POLL_STATUS
      <4>1. found = [Polled EXCEPT !.status_flags = (@ \ {"SYNC_ERROR"})
                                                      \cup {"INVALID_DISC", "NO_DISC"}]
        BY <2>2, <3>2 DEF FoundClosed
      <4>2. /\ found.items = Polled.items /\ found.audio_enabled = Polled.audio_enabled
            /\ found.status_flags = (Polled.status_flags \ {"SYNC_ERROR"})
                                      \cup {"INVALID_DISC", "NO_DISC"}
            /\ found.sync_callback = Polled.sync_callback
            /\ found.ready_callback = Polled.ready_callback
        BY <2>2, <4>1 DEF MachineType
      <4>3. found \in MachineType
        BY FoundClosedType
      <4> HIDE DEF found
      <4> QED BY <2>2, <4>2, <4>3 DEF Plain, Silent
    <3> QED BY <3>1, <3>2
  <2>4. \/ cd' = [found EXCEPT !.init_state = WAIT_FOR_DISC, !.retry_counter = 0]
        \/ cd' = [found EXCEPT !.init_state = CHECK_DISC]
    BY <1>4 DEF RecoveryCheckDisc
  <2> HIDE DEF found
  <2>5. /\ cd'.items = found.items /\ cd'.audio_enabled = found.audio_enabled
        /\ cd'.status_flags = found.status_flags
        /\ cd'.sync_callback = found.sync_callback /\ cd'.ready_callback = found.ready_callback
    <3>1. CASE cd' = [found EXCEPT !.init_state = WAIT_FOR_DISC, !.retry_counter = 0]
      BY <2>3, <3>1 DEF MachineType
    <3>2. CASE cd' = [found EXCEPT !.init_state = CHECK_DISC]
      BY <2>3, <3>2 DEF MachineType
    <3> QED BY <2>4, <3>1, <3>2
  <2> QED BY <2>3, <2>5, StillSilent
<1>5. CASE RecoveryWaitForDisc \/ RecoveryWaitForDrive \/ RecoveryDiscType
  <2>1. PICK state \in {WAIT_FOR_DISC, WAIT_FOR_DRIVE, CHECK_DISC_TYPE} : PollAt(state)
    BY <1>5 DEF RecoveryWaitForDisc, RecoveryWaitForDrive, RecoveryDiscType
  <2>2. /\ Polled \in MachineType /\ Plain(Polled) /\ Silent(Polled)
        /\ "SYNC_ERROR" \notin Polled.status_flags
    BY <1>1, <2>1, PollAtKnows
  <2>3. \/ \E s \in InitStates : cd' = [Polled EXCEPT !.init_state = s]
        \/ \E s \in InitStates, c \in Nat :
             cd' = [Polled EXCEPT !.retry_counter = c, !.init_state = s]
        \/ cd' = [Polled EXCEPT !.init_state = ERROR_PAUSE, !.status_flags = @ \ {"INVALID_DISC"}]
        \/ cd' = Polled
    <3>1. CASE RecoveryWaitForDisc
      <4> DEFINE count == Polled.retry_counter + 2
                 s == IF Polled.retry_counter + 1 >= DiscReadyRetryLimit
                      THEN WAIT_FOR_DRIVE ELSE Polled.init_state
      <4>1. \/ cd' = [Polled EXCEPT !.init_state = WAIT_FOR_DRIVE]
            \/ cd' = [Polled EXCEPT !.retry_counter = count, !.init_state = s]
        BY <3>1 DEF RecoveryWaitForDisc
      <4>2. count \in Nat /\ s \in InitStates
        BY <2>2, StateValues DEF MachineType
      <4> HIDE DEF count, s
      <4> QED BY <4>1, <4>2, StateValues
    <3>2. CASE RecoveryWaitForDrive
      BY <3>2, StateValues DEF RecoveryWaitForDrive
    <3>3. CASE RecoveryDiscType
      BY <3>3, StateValues DEF RecoveryDiscType
    <3> QED BY <1>5, <3>1, <3>2, <3>3
  <2> DEFINE polled == Polled
             Kept == /\ cd'.items = polled.items /\ cd'.audio_enabled = polled.audio_enabled
                     /\ cd'.status_flags \subseteq polled.status_flags
                     /\ cd'.sync_callback = polled.sync_callback
                     /\ cd'.ready_callback = polled.ready_callback
  <2> HIDE DEF polled
  <2>4. polled = Polled
    BY DEF polled
  <2>5. Kept
    <3>1. polled \in MachineType
      BY <2>2, <2>4
    <3>2. ASSUME NEW s \in InitStates, cd' = [polled EXCEPT !.init_state = s]
          PROVE  Kept
      BY <3>1, <3>2 DEF MachineType
    <3>3. ASSUME NEW s \in InitStates, NEW c \in Nat,
                 cd' = [polled EXCEPT !.retry_counter = c, !.init_state = s]
          PROVE  Kept
      BY <3>1, <3>3 DEF MachineType
    <3>4. CASE cd' = [polled EXCEPT !.init_state = ERROR_PAUSE,
                                    !.status_flags = @ \ {"INVALID_DISC"}]
      BY <3>1, <3>4 DEF MachineType
    <3> QED BY <2>3, <2>4, <3>2, <3>3, <3>4
  <2> QED BY <2>2, <2>4, <2>5, StillSilent
<1>6. CASE RecoverySetMode
  <2>1. PollAt(SET_MODE) /\ cd' = Issue(Polled, "none", RECOVERY_SET_MODE, "Setmode", 0)
    BY <1>6 DEF RecoverySetMode
  <2>2. /\ Polled \in MachineType /\ Plain(Polled) /\ "SYNC_ERROR" \notin Polled.status_flags
        /\ Polled.init_state \notin Asking
    BY <1>1, <2>1, PollAtKnows, StartedStates
  <2>3. RECOVERY_SET_MODE \in RecoverySteps
    BY DEF RecoverySteps
  <2> QED BY <2>1, <2>2, <2>3, IssueSound, CommandValues
<1>7. CASE RecoveryReadDiscId
  <2> DEFINE waits == [Polled EXCEPT !.init_state = WAIT_FOR_READ]
  <2>1. /\ PollAt(READ_DISC_ID)
        /\ cd' = Issue(waits, "verify_disc", RECOVERY_READ_DISC_ID, "ReadN", ValidationLocation)
    BY <1>7 DEF RecoveryReadDiscId
  <2>2. Polled \in MachineType /\ Plain(Polled) /\ "SYNC_ERROR" \notin Polled.status_flags
    BY <1>1, <2>1, PollAtKnows
  <2>3. waits \in MachineType
    BY <2>2, FieldUpdates, StateValues
  <2>4. /\ waits.items = Polled.items /\ waits.audio_enabled = Polled.audio_enabled
        /\ waits.status_flags = Polled.status_flags /\ waits.init_state = WAIT_FOR_READ
    BY <2>2 DEF MachineType
  <2> HIDE DEF waits
  <2>5. Plain(waits) /\ "SYNC_ERROR" \notin waits.status_flags /\ waits.init_state \notin Asking
    BY <2>2, <2>4, StartedStates DEF Plain
  <2>6. RECOVERY_READ_DISC_ID \in RecoverySteps
    BY DEF RecoverySteps
  <2> QED BY <2>1, <2>3, <2>5, <2>6, IssueSound, CommandValues
<1>8. CASE RecoveryWaitForRead \/ RecoveryRests
  <2>1. PICK state : PollAt(state)
    BY <1>8 DEF RecoveryWaitForRead, RecoveryRests
  <2>2. Polled \in MachineType /\ Sound(Polled)
    BY <2>1, PollAtKnows
  <2> QED BY <1>8, <2>2, CollectSound DEF RecoveryWaitForRead, RecoveryRests
<1>9. CASE RecoveryReadTimeout
  <2> DEFINE armed == [Polled EXCEPT !.sync_callback = "handle_recovery_sync"]
  <2>1. PollAt(WAIT_FOR_READ)
    BY <1>9 DEF RecoveryReadTimeout
  <2>2. /\ Polled \in MachineType /\ Plain(Polled) /\ "SYNC_ERROR" \notin Polled.status_flags
        /\ Polled.init_state \notin Asking /\ Polled.ready_callback # "handle_ready_intr"
    BY <1>1, <2>1, PollAtKnows, StartedStates
  <2>3. \/ /\ armed.init_command \in {RECOVERY_RETRY_READ, RECOVERY_COMPLETE}
           /\ \/ cd' = CdControlF(armed, "Pause", 0)
              \/ cd' = CdControlF(armed, "Setmode", 0)
        \/ cd' = Issue(armed, "verify_disc", RECOVERY_READ_DISC_ID, "ReadN", ValidationLocation)
    <3>1. armed.init_command = Polled.init_command
      BY <2>2 DEF MachineType
    <3>2. \/ /\ Polled.init_command \in {RECOVERY_RETRY_READ, RECOVERY_COMPLETE}
             /\ \/ cd' = CdControlF(armed, "Pause", 0)
                \/ cd' = CdControlF(armed, "Setmode", 0)
          \/ cd' = Issue(armed, "verify_disc", RECOVERY_READ_DISC_ID, "ReadN", ValidationLocation)
      BY <1>9 DEF RecoveryReadTimeout, RECOVERY_RETRY_READ, RECOVERY_COMPLETE
    <3> QED BY <3>1, <3>2
  <2>4. armed \in MachineType
    BY <2>2, FieldUpdates
  <2>5. /\ armed.items = Polled.items /\ armed.audio_enabled = Polled.audio_enabled
        /\ armed.status_flags = Polled.status_flags /\ armed.init_state = Polled.init_state
        /\ armed.ready_callback = Polled.ready_callback
        /\ armed.sync_callback = "handle_recovery_sync"
    BY <2>2 DEF MachineType
  <2> HIDE DEF armed
  <2>6. Plain(armed)
    BY <2>2, <2>5 DEF Plain
  <2>7. CASE /\ armed.init_command \in {RECOVERY_RETRY_READ, RECOVERY_COMPLETE}
             /\ \/ cd' = CdControlF(armed, "Pause", 0)
                \/ cd' = CdControlF(armed, "Setmode", 0)
    <3>1. Recovers(armed)
      BY <2>2, <2>5, <2>6, <2>7 DEF Recovers, RecoverySteps
    <3> QED BY <2>4, <2>7, <3>1, FurtherIsSound, CommandValues
  <2>8. CASE cd' = Issue(armed, "verify_disc", RECOVERY_READ_DISC_ID, "ReadN", ValidationLocation)
    <3>1. RECOVERY_READ_DISC_ID \in RecoverySteps
      BY DEF RecoverySteps
    <3> QED BY <2>2, <2>4, <2>5, <2>6, <2>8, <3>1, IssueSound, CommandValues
  <2> QED BY <2>3, <2>7, <2>8
<1>10. CASE RecoveryStopDrive
  <2> DEFINE paused == BlockingPause(Polled)
  <2>1. PollAt(ERROR_PAUSE) /\ cd' = [paused EXCEPT !.init_state = RETRY_READ]
    BY <1>10 DEF RecoveryStopDrive
  <2>2. /\ Polled \in MachineType /\ Plain(Polled) /\ "SYNC_ERROR" \notin Polled.status_flags
        /\ Polled.sync_callback = "none" /\ Polled.ready_callback # "handle_ready_intr"
    BY <1>1, <2>1, PollAtKnows
  <2>3. /\ paused.items = Polled.items /\ paused.audio_enabled = Polled.audio_enabled
        /\ paused.status_flags = Polled.status_flags
        /\ paused.sync_callback = Polled.sync_callback
        /\ paused.ready_callback = Polled.ready_callback
    BY <2>2 DEF BlockingPause, MachineType
  <2>4. paused \in MachineType
    BY <2>2, BlockingPauseType
  <2> HIDE DEF paused
  <2>5. /\ cd'.items = paused.items /\ cd'.audio_enabled = paused.audio_enabled
        /\ cd'.status_flags = paused.status_flags
        /\ cd'.sync_callback = paused.sync_callback
        /\ cd'.ready_callback = paused.ready_callback
        /\ cd'.init_state = RETRY_READ
    BY <2>1, <2>4 DEF MachineType
  <2>6. Plain(cd')
    BY <2>2, <2>3, <2>5 DEF Plain
  <2> QED BY <2>2, <2>3, <2>5, <2>6, StartedIsSound, StartedStates
<1> QED BY <1>2, <1>3, <1>4, <1>5, <1>6, <1>7, <1>8, <1>9, <1>10 DEF RecoveryPoll

-----------------------------------------------------------------------------
(* The drive. *)

LEMMA NextSectorKeeps ==
    ASSUME cd \in MachineType, Plain(cd)
    PROVE  /\ Keeps(cd, NextSector)
           /\ NextSector.issued = cd.issued /\ NextSector.waiting = cd.waiting
<1> DEFINE passed == [cd EXCEPT !.sector = cd.head]
           n == [passed EXCEPT !.head = cd.head + 1]
<1>1. NextSector = n
  BY DEF NextSector
<1>2. /\ passed \in MachineType
      /\ passed.items = cd.items /\ passed.audio_enabled = cd.audio_enabled
      /\ passed.status_flags = cd.status_flags
      /\ passed.sync_callback = cd.sync_callback /\ passed.ready_callback = cd.ready_callback
      /\ passed.init_state = cd.init_state /\ passed.init_command = cd.init_command
      /\ passed.issued = cd.issued /\ passed.waiting = cd.waiting
  <2>1. cd.head \in Positions
    BY DEF MachineType
  <2>2. passed \in MachineType
    BY <2>1 DEF MachineType
  <2>3. /\ passed.items = cd.items /\ passed.audio_enabled = cd.audio_enabled
        /\ passed.status_flags = cd.status_flags
        /\ passed.sync_callback = cd.sync_callback /\ passed.ready_callback = cd.ready_callback
        /\ passed.init_state = cd.init_state /\ passed.init_command = cd.init_command
        /\ passed.issued = cd.issued /\ passed.waiting = cd.waiting
    BY DEF MachineType
  <2> QED BY <2>2, <2>3
<1> HIDE DEF passed
<1>3. /\ n.items = passed.items /\ n.audio_enabled = passed.audio_enabled
      /\ n.status_flags = passed.status_flags
      /\ n.sync_callback = passed.sync_callback /\ n.ready_callback = passed.ready_callback
      /\ n.init_state = passed.init_state /\ n.init_command = passed.init_command
      /\ n.issued = passed.issued /\ n.waiting = passed.waiting
  BY <1>2 DEF MachineType
<1> HIDE DEF n
<1> QED BY <1>1, <1>2, <1>3 DEF Keeps, Plain

(* The machine as the sync callback finds it. *)
LEMMA AnsweredKeeps ==
    ASSUME NEW m \in MachineType, Plain(m)
    PROVE  /\ Keeps(m, Executed(m))
           /\ Keeps(m, [m EXCEPT !.issued = "None"])
<1> DEFINE reads == IF m.issued \in {"ReadN", "ReadS"} THEN TRUE
                    ELSE m.issued \notin {"Pause", "SeekL"} /\ m.reading
           next == IF m.issued \in {"ReadN", "ReadS"} THEN m.issued_location ELSE m.head
           filter == m.filtered \/ m.issued = "Setfilter"
           n == [m EXCEPT !.issued = "None", !.reading = reads, !.head = next, !.filtered = filter]
           refused == [m EXCEPT !.issued = "None"]
<1>1. Executed(m) = n
  BY DEF Executed
<1> HIDE DEF reads, next, filter
<1>2. /\ n.items = m.items /\ n.audio_enabled = m.audio_enabled
      /\ n.status_flags = m.status_flags
      /\ n.sync_callback = m.sync_callback /\ n.ready_callback = m.ready_callback
      /\ n.init_state = m.init_state /\ n.init_command = m.init_command
  BY DEF MachineType
<1>3. /\ refused.items = m.items /\ refused.audio_enabled = m.audio_enabled
      /\ refused.status_flags = m.status_flags
      /\ refused.sync_callback = m.sync_callback /\ refused.ready_callback = m.ready_callback
      /\ refused.init_state = m.init_state /\ refused.init_command = m.init_command
  BY DEF MachineType
<1> HIDE DEF n, refused
<1> QED BY <1>1, <1>2, <1>3 DEF Keeps, Plain, refused

LEMMA DriveSound ==
    ASSUME DataFilesOnly, cd \in MachineType, Sound(cd), Drive
    PROVE  Sound(cd')
<1>1. Plain(cd) /\ Guarded(cd)
  BY DEF Sound
<1>2. CASE CommandDone
  <2> DEFINE n == Executed(cd)
  <2>1. n \in MachineType /\ Plain(n) /\ Guarded(n)
    BY <1>1, ExecutedType, AnsweredKeeps, KeptGuarded
  <2>2. cd' = SyncCallback(n, TRUE)
    BY <1>2 DEF CommandDone
  <2> HIDE DEF n
  <2> QED BY <2>1, <2>2, SyncCallbackSound
<1>3. CASE CommandFailed
  <2> DEFINE n == [cd EXCEPT !.issued = "None"]
  <2>1. Plain(n) /\ Guarded(n)
    BY <1>1, AnsweredKeeps, KeptGuarded
  <2>2. n \in MachineType
    BY CommandValues DEF MachineType
  <2>3. cd' = SyncCallback(n, FALSE)
    BY <1>3 DEF CommandFailed
  <2> HIDE DEF n
  <2> QED BY <2>1, <2>2, <2>3, SyncCallbackSound
<1>4. CASE SendWaiting
  <2>1. /\ cd.waiting # "None"
        /\ cd' = [cd EXCEPT !.issued = cd.waiting, !.issued_location = cd.waiting_location,
                            !.waiting = "None"]
    BY <1>4 DEF SendWaiting
  <2>2. /\ cd'.items = cd.items /\ cd'.audio_enabled = cd.audio_enabled
        /\ cd'.status_flags = cd.status_flags
        /\ cd'.sync_callback = cd.sync_callback /\ cd'.ready_callback = cd.ready_callback
        /\ cd'.init_state = cd.init_state /\ cd'.init_command = cd.init_command
        /\ cd'.issued = cd.waiting
    BY <2>1 DEF MachineType
  <2>3. Keeps(cd, cd')
    BY <1>1, <2>2 DEF Keeps, Plain
  <2> QED BY <2>1, <2>2, <2>3, KeptSound
<1>5. CASE CommandLost \/ SectorLost
  BY <1>5 DEF CommandLost, SectorLost, Fault, Faults, DataFilesOnly
<1>6. CASE \E accept, decoding \in BOOLEAN : SectorReady(accept, decoding)
  <2>1. PICK accept \in BOOLEAN, decoding \in BOOLEAN :
               cd' = ReadyCallback(NextSector, TRUE, accept, decoding)
    BY <1>6 DEF SectorReady
  <2>2. NextSector \in MachineType /\ Sound(NextSector)
    BY <1>1, NextSectorType, NextSectorKeeps, KeptSound
  <2> QED BY <2>1, <2>2, ReadyCallbackSound
<1>7. CASE SectorFailed
  BY <1>7, ReadyCallbackSound DEF SectorFailed
<1>8. CASE \E accept \in BOOLEAN : MdecOut(accept)
  BY <1>1, <1>8 DEF MdecOut, Plain
<1>9. CASE OpenLid
  <2> DEFINE n == [cd EXCEPT !.reading = FALSE]
  <2>1. cd' = n \/ cd' = ReadyCallback(n, FALSE, TRUE, FALSE)
    BY <1>9 DEF OpenLid
  <2>2. n \in MachineType
    BY DEF MachineType
  <2>3. /\ n.items = cd.items /\ n.audio_enabled = cd.audio_enabled
        /\ n.status_flags = cd.status_flags
        /\ n.sync_callback = cd.sync_callback /\ n.ready_callback = cd.ready_callback
        /\ n.init_state = cd.init_state /\ n.init_command = cd.init_command
        /\ n.issued = cd.issued /\ n.waiting = cd.waiting
    BY DEF MachineType
  <2> HIDE DEF n
  <2>4. Keeps(cd, n)
    BY <1>1, <2>3 DEF Keeps, Plain
  <2>5. Sound(n)
    BY <2>3, <2>4, KeptSound
  <2> QED BY <2>1, <2>2, <2>5, ReadyCallbackSound
<1>10. CASE \E inserted \in Inserted : CloseLid(inserted)
  BY <1>10 DEF CloseLid
<1> QED BY <1>2, <1>3, <1>4, <1>5, <1>6, <1>7, <1>8, <1>9, <1>10 DEF Drive

-----------------------------------------------------------------------------
(* Between the looks of a service. *)

Looking == {"observed", "watch_command", "watch_step"}

LEMMA LookingAlone ==
    ASSUME DataFilesOnly, NEW point \in Looking
    PROVE  At(point) = [at |-> point, open |-> FALSE]
<1>1. point \notin Windows
  BY DEF DataFilesOnly, Looking
<1>2. (point \in Windows) = FALSE
  BY <1>1
<1> QED BY <1>2 DEF At

LEMMA NotLooking ==
    ASSUME NEW point \in {"idle", "published", "checking", "starting", "blocking"}
    PROVE  At(point).at \notin Looking
BY DEF At, Looking

(* No interrupt lands there. *)
LEMMA NoInterrupt ==
    ASSUME Undisturbed, fg.at \in Looking
    PROVE  ~Interrupt /\ cd.waiting = "None" /\ ~Failing(cd)
BY DEF Undisturbed, Looking, Interrupt

LEMMA UndisturbedStep ==
    ASSUME DataFilesOnly, TypeOK, Undisturbed, [Next]_vars
    PROVE  Undisturbed'
<1> SUFFICES ASSUME fg'.at \in Looking
             PROVE  ~Failing(cd') /\ fg'.open = FALSE /\ cd'.waiting = "None"
  BY DEF Undisturbed, Looking
<1> USE DEF environment
<1>1. CASE Game
  <2>1. CASE \E req \in Offered : QueueCommand(req)
    BY <2>1, NotLooking DEF QueueCommand, Running, Looking
  <2>2. CASE Reset \/ Stop \/ LockQueue \/ UnlockQueue \/ EnterRecoveryMode
    BY <2>2 DEF Reset, Stop, LockQueue, UnlockQueue, EnterRecoveryMode, Running, Looking
  <2> QED BY <1>1, <2>1, <2>2 DEF Game
<1>2. CASE Queueing
  BY <1>2, NotLooking DEF Queueing, QueueCheckCommand, QueueCheckStep, StartNop
<1>3. CASE ProcessState
  <2>1. CASE ServiceCheckCommand
    BY <2>1, LookingAlone
       DEF ServiceCheckCommand, Serviceable, Running, Failing, HasFlag, RecoveryFlags, Looking
  <2>2. CASE WatchdogDue
    <3>1. ~Failing(cd) /\ cd.waiting = "None"
      BY <2>2 DEF WatchdogDue, Supervising, Serviceable, Running, Failing, HasFlag, RecoveryFlags,
           Undisturbed
    <3>2. fg' = At("watch_command") \/ fg' = At("watch_step")
      BY <2>2 DEF WatchdogDue
    <3>3. fg'.open = FALSE
      BY <3>2, LookingAlone DEF Looking
    <3> QED BY <2>2, <3>1, <3>3 DEF WatchdogDue
  <2>3. CASE \/ Supervise \/ WatchdogCommand \/ WatchdogStep \/ WatchdogNop
             \/ Restart \/ IdleQuiet \/ IdlePoll \/ IdlePollFails
    BY <2>3, NotLooking
       DEF Supervise, WatchdogCommand, WatchdogStep, WatchdogNop, Restart, IdleQuiet, IdlePoll,
           IdlePollFails
  <2>4. CASE RecoveryWait \/ RecoveryPoll
    <3>1. fg' = fg /\ Recovering
      BY <2>4 DEF RecoveryWait, RecoveryPoll, RecoveryAbandon, RecoveryCheckDisc, PollAt,
           RecoveryWaitForDisc, RecoveryWaitForDrive, RecoveryDiscType, RecoverySetMode,
           RecoveryReadDiscId, RecoveryWaitForRead, RecoveryReadTimeout, RecoveryStopDrive,
           RecoveryRests
    <3> QED BY <3>1 DEF Recovering, Running, Looking
  <2> QED BY <1>3, <2>1, <2>2, <2>3, <2>4 DEF ProcessState
<1>4. CASE Recover
  BY <1>4 DEF Recover, RecoverFlush, RecoverSetMode, RecoverSetFilter, RecoverActivity,
       RecoverTimeout, Reconfiguring, Running, Looking
<1>5. CASE Drive
  <2>1. CASE CommandDone \/ CommandFailed \/ SectorFailed \/ OpenLid
             \/ (\E accept, decoding \in BOOLEAN : SectorReady(accept, decoding))
             \/ (\E accept \in BOOLEAN : MdecOut(accept))
    <3>1. Interrupt
      BY <2>1 DEF CommandDone, CommandFailed, SectorFailed, OpenLid, SectorReady, MdecOut
    <3>2. fg'.at = fg.at
      BY <3>1 DEF Interrupt, TypeOK
    <3> QED BY <3>1, <3>2, NoInterrupt
  <2>2. CASE SendWaiting
    BY <2>2, NoInterrupt DEF SendWaiting
  <2>3. CASE CommandLost \/ SectorLost
    BY <2>3 DEF CommandLost, SectorLost, Fault, Faults, DataFilesOnly
  <2>4. CASE \E inserted \in Inserted : CloseLid(inserted)
    BY <2>4 DEF CloseLid, Running, Looking
  <2> QED BY <1>5, <2>1, <2>2, <2>3, <2>4 DEF Drive
<1>6. CASE UNCHANGED vars
  BY <1>6, NoInterrupt DEF vars, Undisturbed, Looking
<1> QED BY <1>1, <1>2, <1>3, <1>4, <1>5, <1>6 DEF Next

-----------------------------------------------------------------------------

LEMMA InductiveInit == Init => ErrorInv
<1> SUFFICES ASSUME Init PROVE ErrorInv
  OBVIOUS
<1>1. cd = InitialMachine
  BY DEF Init
<1>2. /\ cd.audio_enabled = FALSE /\ cd.status_flags = {}
      /\ cd.items = [i \in Slots |-> BlankItem]
  BY <1>1 DEF InitialMachine
<1>3. BlankItem.command = "None"
  BY DEF BlankItem
<1>4. Plain(cd) /\ ~Failing(cd)
  BY <1>2, <1>3 DEF Plain, Failing, HasFlag
<1>5. Undisturbed
  BY DEF Init, At, Undisturbed
<1> QED BY <1>4, <1>5, TypeInit DEF ErrorInv, Guarded, Owed

LEMMA InductiveStep ==
    ASSUME DataFilesOnly
    PROVE  ErrorInv /\ [Next]_vars => ErrorInv'
<1> SUFFICES ASSUME ErrorInv, [Next]_vars PROVE ErrorInv'
  OBVIOUS
<1>1. TypeOK /\ cd \in MachineType /\ Sound(cd) /\ Undisturbed
  BY DEF ErrorInv, TypeOK, Sound
<1>2. Sound(cd')
  <2>1. CASE ProcessState
    BY <1>1, <2>1, ServiceSound, RecoverySound DEF ProcessState
  <2>2. CASE Recover
    BY <1>1, <2>2 DEF Sound, Plain, Recover, RecoverFlush, RecoverSetMode, RecoverSetFilter,
         RecoverActivity, RecoverTimeout, Reconfiguring
  <2>3. CASE UNCHANGED vars
    BY <1>1, <2>3 DEF vars
  <2> QED BY <1>1, <2>1, <2>2, <2>3, GameSound, QueueingSound, DriveSound DEF Next
<1>3. Plain(cd)' /\ Guarded(cd)' /\ Owed(cd)'
  BY <1>2 DEF Sound, Plain, Guarded, Owed, Failing, HasFlag, Silent
<1> QED BY <1>1, <1>3, TypeStep, UndisturbedStep DEF ErrorInv

LEMMA InductiveEnough == ErrorInv => ErrorDisarms
<1> SUFFICES ASSUME ErrorInv, "SYNC_ERROR" \in cd.status_flags PROVE Silent(cd)
  BY DEF ErrorDisarms, Silent
<1>1. Failing(cd)
  BY DEF Failing, HasFlag, ErrorFlags
<1>2. cd.init_state \in Asking
  BY <1>1 DEF ErrorInv, Guarded, Asking
<1> QED BY <1>1, <1>2 DEF ErrorInv, Guarded

(***************************************************************************)
(* From an error until it is cleared only the handlers of recovery are     *)
(* installed, none before recovery has given the drive a command, and the  *)
(* one that waits has an answer to come (cdrom_handle_sync_error,          *)
(* cdrom_process_state, cdrom_handle_recovery_sync).                       *)
(***************************************************************************)
THEOREM OnlyRecoveryAnswers ==
    ASSUME DataFilesOnly
    PROVE  Spec => []ErrorInv
<1>1. ErrorInv /\ [Next]_vars => ErrorInv'
  BY InductiveStep
<1> QED BY <1>1, InductiveInit, PTL DEF Spec

(***************************************************************************)
(* "Sync error reset: Cleared, Cleared" (cdrom.md): from the moment        *)
(* cdrom_handle_sync_error runs until the game has serviced the error,     *)
(* neither callback slot holds a handler, whatever command was under way   *)
(* and whatever the drive still had to say.                                *)
(***************************************************************************)
THEOREM ErrorsDisarm ==
    ASSUME DataFilesOnly
    PROVE  Spec => []ErrorDisarms
BY OnlyRecoveryAnswers, InductiveEnough, PTL
=============================================================================
