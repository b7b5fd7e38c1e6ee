-------------------------- MODULE CdRoles_proofs --------------------------
(***************************************************************************)
(* The table of callback roles of cdrom.md, and that a controller at rest  *)
(* has no handler installed: CallbackRoles and QuietWhenIdle, for every    *)
(* queue size, every disc and any number of faults, lost answers among     *)
(* them, as long as the program reads data files (DataInTurn).             *)
(***************************************************************************)
EXTENDS CdRoles, CdSystem_proofs

-----------------------------------------------------------------------------
(* The ring. *)

(* A sum or a difference of two slots, taken modulo the ring's size. *)
LEMMA ModCases ==
    ASSUME NEW x \in Int
    PROVE  /\ 0 <= x /\ x < QueueSize => x % QueueSize = x
           /\ 0 - QueueSize <= x /\ x < 0 => x % QueueSize = x + QueueSize
           /\ QueueSize <= x /\ x < 2 * QueueSize => x % QueueSize = x - QueueSize
BY QueueAssumption

(* How far slot i is behind slot r. *)
LEMMA Behind ==
    ASSUME NEW r \in Slots, NEW i \in Slots
    PROVE  /\ (i - r) % QueueSize \in 0..QueueSize - 1
           /\ i >= r => (i - r) % QueueSize = i - r
           /\ i < r => (i - r) % QueueSize = i - r + QueueSize
<1>1. QueueSize \in Nat /\ r \in Int /\ i \in Int /\ 0 <= r /\ r < QueueSize /\ 0 <= i /\ i < QueueSize
  BY QueueAssumption DEF Slots
<1> QED BY <1>1, ModCases, QueueAssumption

LEMMA Further ==
    ASSUME NEW r \in Slots, NEW k \in 0..QueueSize - 1
    PROVE  /\ (r + k) % QueueSize \in Slots
           /\ r + k < QueueSize => (r + k) % QueueSize = r + k
           /\ r + k >= QueueSize => (r + k) % QueueSize = r + k - QueueSize
<1>1. QueueSize \in Nat /\ r \in Int /\ k \in Int /\ 0 <= r /\ r < QueueSize /\ 0 <= k /\ k < QueueSize
  BY QueueAssumption DEF Slots
<1>2. r + k \in Int
  BY <1>1
<1> QED BY <1>1, <1>2, ModCases, SlotOf

(* In a ring that is not empty the entry at the read index is pending. *)
LEMMA HeadIsPending ==
    ASSUME NEW r \in Slots, NEW w \in Slots, r # w
    PROVE  (r - r) % QueueSize < (w - r) % QueueSize
<1>1. QueueSize \in Nat /\ r \in Int /\ w \in Int
  BY QueueAssumption DEF Slots
<1> QED BY <1>1, Behind

(* Moving the read index over pending entries leaves a part of them. *)
LEMMA MovedPending ==
    ASSUME NEW r \in Slots, NEW w \in Slots, r # w, NEW k \in 0..((w - r) % QueueSize),
           NEW i \in Slots,
           (i - ((r + k) % QueueSize)) % QueueSize < (w - ((r + k) % QueueSize)) % QueueSize
    PROVE  (i - r) % QueueSize < (w - r) % QueueSize
<1> DEFINE s == (r + k) % QueueSize
<1>1. QueueSize \in Nat /\ r \in Int /\ w \in Int /\ i \in Int
      /\ 0 <= r /\ r < QueueSize /\ 0 <= w /\ w < QueueSize /\ 0 <= i /\ i < QueueSize
  BY QueueAssumption DEF Slots
<1>2. (w - r) % QueueSize \in 0..QueueSize - 1
  BY Behind
<1>3. k \in Int /\ 0 <= k /\ k <= (w - r) % QueueSize /\ k \in 0..QueueSize - 1
  BY <1>1, <1>2
<1>4. /\ s \in Slots
      /\ r + k < QueueSize => s = r + k
      /\ r + k >= QueueSize => s = r + k - QueueSize
  BY <1>3, Further
<1> HIDE DEF s
<1>5. s \in Int /\ 0 <= s /\ s < QueueSize
  BY <1>1, <1>4 DEF Slots
<1>6. (i - s) % QueueSize < (w - s) % QueueSize
  BY DEF s
<1>7. /\ i >= s => (i - s) % QueueSize = i - s
      /\ i < s => (i - s) % QueueSize = i - s + QueueSize
      /\ w >= s => (w - s) % QueueSize = w - s
      /\ w < s => (w - s) % QueueSize = w - s + QueueSize
  BY <1>4, Behind
<1>8. /\ i >= r => (i - r) % QueueSize = i - r
      /\ i < r => (i - r) % QueueSize = i - r + QueueSize
      /\ w >= r => (w - r) % QueueSize = w - r
      /\ w < r => (w - r) % QueueSize = w - r + QueueSize
  BY Behind
<1>9. CASE w >= r
  BY <1>1, <1>3, <1>4, <1>5, <1>6, <1>7, <1>8, <1>9
<1>10. CASE w < r
  <2>1. CASE r + k < QueueSize
    BY <1>1, <1>3, <1>4, <1>5, <1>6, <1>7, <1>8, <1>10, <2>1
  <2>2. CASE r + k >= QueueSize
    BY <1>1, <1>3, <1>4, <1>5, <1>6, <1>7, <1>8, <1>10, <2>2
  <2> QED BY <1>1, <1>3, <2>1, <2>2
<1> QED BY <1>1, <1>9, <1>10

(* Short of the last of them, the ring does not become empty. *)
LEMMA MovedNonempty ==
    ASSUME NEW r \in Slots, NEW w \in Slots, r # w, NEW k \in 0..((w - r - 1) % QueueSize)
    PROVE  (r + k) % QueueSize # w /\ k \in 0..((w - r) % QueueSize)
<1>1. QueueSize \in Nat /\ r \in Int /\ w \in Int
      /\ 0 <= r /\ r < QueueSize /\ 0 <= w /\ w < QueueSize /\ QueueSize >= 2
  BY QueueAssumption DEF Slots
<1>2. w - r - 1 \in Int
  BY <1>1
<1>3. /\ w > r => (w - r - 1) % QueueSize = w - r - 1
      /\ w < r => (w - r - 1) % QueueSize = w - r - 1 + QueueSize
  BY <1>1, <1>2, ModCases
<1>4. k \in Int /\ 0 <= k /\ k <= (w - r - 1) % QueueSize
  BY <1>1, <1>3
<1>5. k \in 0..QueueSize - 1
  BY <1>1, <1>3, <1>4
<1>6. /\ r + k < QueueSize => (r + k) % QueueSize = r + k
      /\ r + k >= QueueSize => (r + k) % QueueSize = r + k - QueueSize
  BY <1>5, Further
<1>7. /\ w >= r => (w - r) % QueueSize = w - r
      /\ w < r => (w - r) % QueueSize = w - r + QueueSize
  BY Behind
<1>8. (r + k) % QueueSize # w
  <2>1. CASE r + k < QueueSize
    BY <1>1, <1>3, <1>4, <1>6, <2>1
  <2>2. CASE r + k >= QueueSize
    BY <1>1, <1>3, <1>4, <1>6, <2>2
  <2> QED BY <1>1, <1>4, <2>1, <2>2
<1>9. k \in 0..((w - r) % QueueSize)
  BY <1>1, <1>3, <1>4, <1>7
<1> QED BY <1>8, <1>9

(* Publishing an entry makes it pending and no other. *)
LEMMA PublishedPending ==
    ASSUME NEW r \in Slots, NEW w \in Slots, r # Next1(w)
    PROVE  /\ Next1(w) \in Slots
           /\ \A i \in Slots : (i - r) % QueueSize < (Next1(w) - r) % QueueSize
                                 => i = w \/ (i - r) % QueueSize < (w - r) % QueueSize
<1>1. QueueSize \in Nat /\ r \in Int /\ w \in Int
      /\ 0 <= r /\ r < QueueSize /\ 0 <= w /\ w < QueueSize /\ QueueSize >= 2
  BY QueueAssumption DEF Slots
<1> DEFINE v == Next1(w)
<1>2. 1 \in 0..QueueSize - 1
  BY <1>1
<1>3. /\ v \in Slots
      /\ w + 1 < QueueSize => v = w + 1
      /\ w + 1 >= QueueSize => v = w + 1 - QueueSize
  BY <1>2, Further DEF Next1
<1> HIDE DEF v
<1>4. ASSUME NEW i \in Slots, (i - r) % QueueSize < (v - r) % QueueSize
      PROVE  i = w \/ (i - r) % QueueSize < (w - r) % QueueSize
  <2>1. i \in Int /\ 0 <= i /\ i < QueueSize /\ v \in Int /\ 0 <= v /\ v < QueueSize
    BY <1>1, <1>3 DEF Slots
  <2>2. /\ i >= r => (i - r) % QueueSize = i - r
        /\ i < r => (i - r) % QueueSize = i - r + QueueSize
        /\ w >= r => (w - r) % QueueSize = w - r
        /\ w < r => (w - r) % QueueSize = w - r + QueueSize
        /\ v >= r => (v - r) % QueueSize = v - r
        /\ v < r => (v - r) % QueueSize = v - r + QueueSize
    BY <1>3, Behind
  <2>3. v # r
    BY DEF v
  <2> QED BY <1>1, <1>3, <1>4, <2>1, <2>2, <2>3
<1> QED BY <1>3, <1>4 DEF v

-----------------------------------------------------------------------------
(* What Roles looks at. *)

SameQueue(m, n) ==
    /\ n.items = m.items
    /\ n.queue_read_index = m.queue_read_index /\ n.queue_write_index = m.queue_write_index

SameMode(m, n) ==
    /\ n.audio_enabled = m.audio_enabled /\ n.data_ready_pending = m.data_ready_pending
    /\ n.status_flags = m.status_flags /\ n.init_state = m.init_state

SameStep(m, n) == n.init_command = m.init_command /\ n.init_retry = m.init_retry

SameSlots(m, n) ==
    /\ n.sync_callback = m.sync_callback /\ n.ready_callback = m.ready_callback
    /\ n.current_command = m.current_command

SameLine(m, n) == n.issued = m.issued /\ n.waiting = m.waiting

SameView(m, n) == SameQueue(m, n) /\ SameMode(m, n) /\ SameStep(m, n) /\ SameSlots(m, n)

LEMMA QueueSame ==
    ASSUME NEW m, NEW n, SameQueue(m, n)
    PROVE  /\ IsEmpty(n) <=> IsEmpty(m)
           /\ Spare(n) <=> Spare(m)
           /\ HeadItem(n) = HeadItem(m)
           /\ \A i \in Slots : IsPending(n, i) <=> IsPending(m, i)
BY DEF SameQueue, IsEmpty, Spare, HeadItem, IsPending, PendingCount

LEMMA DataQueuedSame ==
    ASSUME NEW m, NEW n, SameQueue(m, n), DataQueued(m),
           n.audio_enabled = FALSE, n.data_ready_pending = FALSE
    PROVE  DataQueued(n)
BY QueueSame DEF DataQueued, SameQueue

LEMMA ViewFailing ==
    ASSUME NEW m, NEW n, n.status_flags = m.status_flags
    PROVE  Failing(n) <=> Failing(m)
BY DEF Failing, HasFlag

LEMMA ViewRoles ==
    ASSUME NEW m, NEW n, SameView(m, n), Roles(m)
    PROVE  Roles(n)
<1>1. DataQueued(n)
  BY DataQueuedSame, ZenonT(30) DEF SameView, SameMode, Roles, DataQueued
<1>2. Commanding(n) /\ Receiving(n)
  BY QueueSame DEF SameView, SameStep, SameSlots, Roles, Commanding, Receiving
<1>3. Exclusive(n) /\ Stepped(n)
  BY DEF SameView, SameStep, SameSlots, Roles, Exclusive, Stepped
<1>4. Recording(n)
  BY DEF SameView, SameMode, SameStep, SameSlots, Roles, Recording
<1>5. Strayed(n)
  BY DEF SameView, SameMode, SameStep, Roles, Strayed, Astray
<1>6. Reconfigures(n)
  BY ViewFailing DEF SameView, SameMode, SameStep, SameSlots, Roles, Reconfigures
<1> QED BY <1>1, <1>2, <1>3, <1>4, <1>5, <1>6 DEF Roles

(***************************************************************************)
(* What one handler may do to the queue, to the line to the drive and to   *)
(* the flags, beside keeping the roles.                                    *)
(***************************************************************************)
Follows(m, n) ==
    /\ m.issued = "None" => n.waiting = m.waiting
    /\ Astray(n) => Astray(m) \/ "INVALID_DISC" \in m.status_flags
    /\ Spare(m) \/ (~IsEmpty(m) /\ m.current_command = "None") => ~IsEmpty(n)
    /\ "RECOVERY_PENDING" \in n.status_flags => "RECOVERY_PENDING" \in m.status_flags

LEMMA FollowsView ==
    ASSUME NEW m, NEW n, SameView(m, n), m.issued = "None" => n.waiting = m.waiting
    PROVE  Follows(m, n)
BY QueueSame DEF Follows, SameView, SameMode, SameStep, Astray, Spare

LEMMA FollowsFrom ==
    ASSUME NEW m, NEW p, NEW n, SameView(m, p), SameLine(m, p), Follows(p, n)
    PROVE  Follows(m, n)
<1>1. Spare(p) <=> Spare(m)
  BY QueueSame DEF SameView
<1>2. IsEmpty(p) <=> IsEmpty(m)
  BY QueueSame DEF SameView
<1> QED BY <1>1, <1>2 DEF Follows, SameView, SameLine, SameMode, SameStep, SameSlots, Astray

(* Fields that Roles does not look at. *)
LEMMA OtherFields ==
    ASSUME NEW m \in MachineType, NEW v
    PROVE  /\ SameView(m, [m EXCEPT !.sync_complete = v])
           /\ SameLine(m, [m EXCEPT !.sync_complete = v])
           /\ SameView(m, [m EXCEPT !.retry_count = v])
           /\ SameLine(m, [m EXCEPT !.retry_count = v])
           /\ SameView(m, [m EXCEPT !.trap = v])
           /\ SameLine(m, [m EXCEPT !.trap = v])
           /\ SameView(m, [m EXCEPT !.reading = v])
           /\ SameLine(m, [m EXCEPT !.reading = v])
           /\ SameView(m, [m EXCEPT !.issued = v])
<1>1. /\ SameView(m, [m EXCEPT !.sync_complete = v])
      /\ SameLine(m, [m EXCEPT !.sync_complete = v])
  BY DEF SameView, SameQueue, SameMode, SameStep, SameSlots, SameLine, MachineType
<1>2. /\ SameView(m, [m EXCEPT !.retry_count = v])
      /\ SameLine(m, [m EXCEPT !.retry_count = v])
  BY DEF SameView, SameQueue, SameMode, SameStep, SameSlots, SameLine, MachineType
<1>3. /\ SameView(m, [m EXCEPT !.trap = v])
      /\ SameLine(m, [m EXCEPT !.trap = v])
  BY DEF SameView, SameQueue, SameMode, SameStep, SameSlots, SameLine, MachineType
<1>4. /\ SameView(m, [m EXCEPT !.reading = v])
      /\ SameLine(m, [m EXCEPT !.reading = v])
  BY DEF SameView, SameQueue, SameMode, SameStep, SameSlots, SameLine, MachineType
<1>5. SameView(m, [m EXCEPT !.issued = v])
  BY DEF SameView, SameQueue, SameMode, SameStep, SameSlots, MachineType
<1> QED BY <1>1, <1>2, <1>3, <1>4, <1>5

LEMMA CdControlFView ==
    ASSUME NEW m \in MachineType, NEW command, NEW location
    PROVE  /\ SameView(m, CdControlF(m, command, location))
           /\ m.issued = "None" => CdControlF(m, command, location).waiting = m.waiting
<1>1. CASE m.issued = "None"
  BY <1>1 DEF CdControlF, SameView, SameQueue, SameMode, SameStep, SameSlots, MachineType
<1>2. CASE m.issued # "None"
  BY <1>2 DEF CdControlF, SameView, SameQueue, SameMode, SameStep, SameSlots, MachineType
<1> QED BY <1>1, <1>2

LEMMA CdControlFRoles ==
    ASSUME NEW m \in MachineType, Roles(m), NEW command, NEW location
    PROVE  /\ Roles(CdControlF(m, command, location))
           /\ Follows(m, CdControlF(m, command, location))
BY CdControlFView, ViewRoles, FollowsView

-----------------------------------------------------------------------------
(* Dispatch. *)

(* Dispatching moves neither the step nor the sync slot. *)
DispatchKeeps(m, n) ==
    /\ SameQueue(m, n) /\ SameMode(m, n) /\ SameStep(m, n)
    /\ n.sync_callback = m.sync_callback

LEMMA DispatchKeepsTransitive ==
    ASSUME NEW m, NEW n, NEW p, DispatchKeeps(m, n), DispatchKeeps(n, p)
    PROVE  DispatchKeeps(m, p)
BY DEF DispatchKeeps, SameQueue, SameMode, SameStep

LEMMA DispatchSent ==
    ASSUME NEW m, NEW p \in MachineType, DispatchKeeps(m, p), SameLine(m, p),
           NEW command, NEW location
    PROVE  LET n == CdControlF(p, command, location)
           IN /\ DispatchKeeps(m, n)
              /\ n.current_command = p.current_command /\ n.ready_callback = p.ready_callback
              /\ m.issued = "None" => n.waiting = m.waiting
<1> DEFINE n == CdControlF(p, command, location)
<1>1. SameView(p, n) /\ (p.issued = "None" => n.waiting = p.waiting)
  BY CdControlFView
<1> HIDE DEF n
<1>2. DispatchKeeps(p, n)
  BY <1>1 DEF SameView, SameSlots, DispatchKeeps
<1>3. DispatchKeeps(m, n)
  BY <1>2, DispatchKeepsTransitive
<1> QED BY <1>1, <1>3 DEF SameView, SameSlots, SameLine, n

LEMMA DispatchReadFields ==
    ASSUME NEW m \in MachineType, DataQueued(m), NEW command \in Commands, NEW mode
    PROVE  LET n == DispatchRead(m, command, mode)
           IN /\ DispatchKeeps(m, n)
              /\ n.current_command = command
              /\ n.ready_callback = IF mode = "ASYNC" THEN "handle_ready_intr" ELSE m.ready_callback
              /\ m.issued = "None" => n.waiting = m.waiting
<1> DEFINE item == HeadItem(m)
           extent == Extent[item.resource]
           resume == m.playback_state /\ ~(item.callback = NULL
                        /\ m.write_ptr = [buffer |-> item.dst, offset |-> 0])
           size == IF m.playback_state THEN 0 ELSE extent.size
           location == IF m.playback_state THEN m.current_location ELSE extent.loc
           trapped == IF m.playback_state THEN {"null_entry"} ELSE {}
           located == [m EXCEPT !.current_location = location,
                                !.current_command = command,
                                !.playback_state = FALSE]
           filled == [located EXCEPT
                             !.total_data = size,
                             !.read_remaining = size,
                             !.write_ptr = [buffer |-> item.dst, offset |-> 0],
                             !.transfer_callback = item.callback,
                             !.trap = @ \cup trapped]
           loaded == IF resume THEN located ELSE filled
           hearing == [loaded EXCEPT !.data_ready_pending = FALSE,
                                     !.ready_callback = "handle_ready_intr"]
           armed == IF mode # "ASYNC" THEN loaded ELSE hearing
<1>1. DispatchRead(m, command, mode) = CdControlF(armed, command, armed.current_location)
  BY DEF DispatchRead
<1>2. size \in Nat /\ location \in Positions
  BY HeadItemType, ExtentType DEF MachineType
<1>3. trapped \in SUBSET {"null_destination", "null_entry", "null_callback"}
  OBVIOUS
<1>4. /\ item.callback \in Callbacks \cup {NULL}
      /\ [buffer |-> item.dst, offset |-> 0] \in [buffer : Buffers \cup {NULL}, offset : Nat]
  BY HeadItemType
<1> HIDE DEF item, size, location, trapped, resume
<1>5. /\ located \in MachineType /\ DispatchKeeps(m, located) /\ SameLine(m, located)
      /\ located.current_command = command /\ located.ready_callback = m.ready_callback
      /\ located.data_ready_pending = FALSE
  <2> USE DEF DataQueued
  <2>1. located \in MachineType
    BY <1>2, ZenonT(30) DEF MachineType
  <2>2. /\ DispatchKeeps(m, located) /\ SameLine(m, located)
        /\ located.current_command = command /\ located.ready_callback = m.ready_callback
        /\ located.data_ready_pending = FALSE
    BY DEF DispatchKeeps, SameQueue, SameMode, SameStep, SameLine, MachineType
  <2> QED BY <2>1, <2>2
<1> HIDE DEF located
<1>6. /\ filled \in MachineType /\ DispatchKeeps(located, filled) /\ SameLine(located, filled)
      /\ filled.current_command = command /\ filled.ready_callback = m.ready_callback
      /\ filled.data_ready_pending = FALSE
  <2>1. located.trap \cup trapped \in SUBSET {"null_destination", "null_entry", "null_callback"}
    BY <1>3, <1>5 DEF MachineType
  <2>2. filled \in MachineType
    BY <1>2, <1>4, <1>5, <2>1, ZenonT(30) DEF MachineType
  <2>3. /\ DispatchKeeps(located, filled) /\ SameLine(located, filled)
        /\ filled.current_command = command /\ filled.ready_callback = m.ready_callback
        /\ filled.data_ready_pending = FALSE
    BY <1>5 DEF DispatchKeeps, SameQueue, SameMode, SameStep, SameLine, MachineType
  <2> QED BY <2>2, <2>3
<1> HIDE DEF filled
<1>7. /\ loaded \in MachineType /\ DispatchKeeps(m, loaded) /\ SameLine(m, loaded)
      /\ loaded.current_command = command /\ loaded.ready_callback = m.ready_callback
      /\ loaded.data_ready_pending = FALSE
  BY <1>5, <1>6, DispatchKeepsTransitive DEF SameLine
<1> HIDE DEF loaded
<1>8. /\ hearing \in MachineType /\ DispatchKeeps(loaded, hearing) /\ SameLine(loaded, hearing)
      /\ hearing.current_command = command /\ hearing.ready_callback = "handle_ready_intr"
  <2>1. hearing \in MachineType
    BY <1>7, ZenonT(30) DEF MachineType
  <2>2. /\ DispatchKeeps(loaded, hearing) /\ SameLine(loaded, hearing)
        /\ hearing.current_command = command /\ hearing.ready_callback = "handle_ready_intr"
    BY <1>7 DEF DispatchKeeps, SameQueue, SameMode, SameStep, SameLine, MachineType
  <2> QED BY <2>1, <2>2
<1> HIDE DEF hearing
<1>9. /\ armed \in MachineType /\ DispatchKeeps(m, armed) /\ SameLine(m, armed)
      /\ armed.current_command = command
      /\ armed.ready_callback = IF mode = "ASYNC" THEN "handle_ready_intr" ELSE m.ready_callback
  BY <1>7, <1>8, DispatchKeepsTransitive DEF SameLine
<1> HIDE DEF armed
<1> QED BY <1>1, <1>9, DispatchSent

LEMMA DispatchSeekFields ==
    ASSUME NEW m \in MachineType, NEW mode
    PROVE  LET n == DispatchSeek(m, mode)
           IN /\ DispatchKeeps(m, n)
              /\ n.current_command = "SeekL"
              /\ n.ready_callback = IF mode = "COMMAND_THEN_READ" THEN "none" ELSE m.ready_callback
              /\ m.issued = "None" => n.waiting = m.waiting
<1> DEFINE location == Extent[HeadItem(m).resource].loc
           ready == IF mode = "COMMAND_THEN_READ" THEN "none" ELSE m.ready_callback
           seeking == [m EXCEPT !.transfer_callback = NULL,
                                !.playback_state = FALSE,
                                !.current_location = location,
                                !.current_command = "SeekL",
                                !.ready_callback = ready]
<1>1. location \in Positions
  BY HeadItemType, ExtentType
<1>2. ready \in {"none", "handle_ready_intr", "verify_disc"}
  BY DEF MachineType
<1>3. DispatchSeek(m, mode) = CdControlF(seeking, "SeekL", location)
  BY DEF DispatchSeek
<1>4. ready = IF mode = "COMMAND_THEN_READ" THEN "none" ELSE m.ready_callback
  OBVIOUS
<1> HIDE DEF location, ready
<1>5. seeking \in MachineType
  BY <1>1, <1>2, CommandValues, ZenonT(30) DEF MachineType
<1>6. /\ DispatchKeeps(m, seeking) /\ SameLine(m, seeking)
      /\ seeking.current_command = "SeekL" /\ seeking.ready_callback = ready
  BY DEF DispatchKeeps, SameQueue, SameMode, SameStep, SameLine, MachineType
<1> HIDE DEF seeking
<1> QED BY <1>3, <1>4, <1>5, <1>6, DispatchSent

(* The entries behind one that is skipped are data requests still. *)
LEMMA SkippedQueued ==
    ASSUME NEW m \in MachineType, DataQueued(m), ~IsEmpty(m), NEW k \in 0..PendingCount(m)
    PROVE  LET n == [m EXCEPT !.queue_read_index = (m.queue_read_index + k) % QueueSize]
           IN DataQueued(n)
<1> DEFINE r == m.queue_read_index
           w == m.queue_write_index
           s == (r + k) % QueueSize
           n == [m EXCEPT !.queue_read_index = s]
<1>1. r \in Slots /\ w \in Slots /\ r # w
  BY DEF MachineType, IsEmpty
<1>2. PendingCount(m) = (w - r) % QueueSize
  BY DEF PendingCount
<1>3. /\ n.items = m.items /\ n.queue_read_index = s /\ n.queue_write_index = w
      /\ n.audio_enabled = m.audio_enabled /\ n.data_ready_pending = m.data_ready_pending
  BY DEF MachineType
<1> HIDE DEF n, r, w
<1>4. ASSUME NEW i \in Slots, IsPending(n, i)
      PROVE  n.items[i].command \in {"ReadN", "SeekL"}
  <2>1. (i - s) % QueueSize < (w - s) % QueueSize
    BY <1>3, <1>4 DEF IsPending, PendingCount
  <2>2. (i - r) % QueueSize < (w - r) % QueueSize
    BY <1>1, <1>2, <2>1, MovedPending
  <2>3. IsPending(m, i)
    BY <2>2 DEF IsPending, PendingCount, r, w
  <2> QED BY <1>3, <2>3 DEF DataQueued
<1>5. n.audio_enabled = FALSE /\ n.data_ready_pending = FALSE
  BY <1>3 DEF DataQueued
<1>6. DataQueued(n)
  BY <1>4, <1>5 DEF DataQueued
<1> QED BY <1>6 DEF n, r

(* The entry at the read index is a data request. *)
LEMMA HeadIsRequest ==
    ASSUME NEW m \in MachineType, DataQueued(m), ~IsEmpty(m)
    PROVE  HeadItem(m).command \in {"ReadN", "SeekL"}
<1> DEFINE r == m.queue_read_index
           w == m.queue_write_index
<1>1. r \in Slots /\ w \in Slots /\ r # w
  BY DEF MachineType, IsEmpty
<1>2. IsPending(m, r)
  BY <1>1, HeadIsPending DEF IsPending, PendingCount
<1> QED BY <1>1, <1>2 DEF DataQueued, HeadItem

(* Seeks another entry supersedes are skipped, and the first other entry goes out. *)
LEMMA RunCommandFields ==
    ASSUME NEW m \in MachineType, DataQueued(m), ~IsEmpty(m),
           NEW mode \in {"ASYNC", "COMMAND_THEN_READ"}
    PROVE  LET n == RunCommand(m, HeadItem(m).command, mode)
           IN /\ DataQueued(n) /\ ~IsEmpty(n)
              /\ SameMode(m, n) /\ SameStep(m, n)
              /\ n.sync_callback = m.sync_callback
              /\ n.current_command = HeadItem(n).command
              /\ n.current_command \in {"ReadN", "SeekL"}
              /\ HeadItem(m).command = "ReadN" => n.current_command = "ReadN"
              /\ n.ready_callback =
                   IF n.current_command = "ReadN"
                   THEN IF mode = "ASYNC" THEN "handle_ready_intr" ELSE m.ready_callback
                   ELSE IF mode = "COMMAND_THEN_READ" THEN "none" ELSE m.ready_callback
              /\ m.issued = "None" => n.waiting = m.waiting
<1> DEFINE last == LastPending(m)
           Ahead(k) == (m.queue_read_index + k) % QueueSize
           command == HeadItem(m).command
           CommandAt(k) == IF k = 0 THEN command ELSE m.items[Ahead(k)].command
           stops == {k \in 0..last : k = last \/ CommandAt(k) # "SeekL"}
           skip == Min(stops)
           skipped == [m EXCEPT !.queue_read_index = Ahead(skip)]
           n == RunCommand(m, command, mode)
<1>1. last \in Nat
  BY QueueAssumption DEF LastPending, MachineType, Slots
<1>2. skip \in stops /\ \A k \in stops : skip =< k
  <2>1. stops \in SUBSET Nat /\ last \in stops
    BY <1>1
  <2> HIDE DEF stops
  <2> QED BY <2>1, MinOfNats
<1>3. skip \in 0..last /\ skip \in Nat
  <2>1. skip \in 0..last
    <3>1. stops \subseteq 0..last
      OBVIOUS
    <3> HIDE DEF stops, skip
    <3> QED BY <1>2, <3>1
  <2> HIDE DEF skip, last
  <2> QED BY <1>1, <2>1
<1>4. n =
        CASE CommandAt(skip) \in {"ReadN", "ReadS"} -> DispatchRead(skipped, CommandAt(skip), mode)
          [] CommandAt(skip) = "SeekL" -> DispatchSeek(skipped, mode)
          [] OTHER -> DispatchOther(skipped, CommandAt(skip), mode)
  BY DEF RunCommand
<1>5. command = "ReadN" => skip = 0
  <2>1. ASSUME command = "ReadN" PROVE 0 \in stops
    BY <1>1, <2>1
  <2> HIDE DEF stops, skip
  <2> QED BY <1>2, <1>3, <2>1
<1> HIDE DEF skip, stops, n
<1>6. LET r == m.queue_read_index
          w == m.queue_write_index
      IN r \in Slots /\ w \in Slots /\ r # w
  BY DEF MachineType, IsEmpty
<1>7. Ahead(skip) # m.queue_write_index /\ skip \in 0..PendingCount(m)
  BY <1>3, <1>6, MovedNonempty DEF LastPending, PendingCount
<1>8. Ahead(skip) \in Slots
  <2>1. m.queue_read_index + skip \in Int
    BY <1>3, IndexType
  <2> QED BY <2>1, SlotOf
<1>9. DataQueued(skipped)
  BY <1>7, SkippedQueued
<1>10. skipped \in MachineType
  BY <1>8, FieldUpdates
<1>11. /\ skipped.queue_read_index = Ahead(skip)
       /\ skipped.queue_write_index = m.queue_write_index /\ skipped.items = m.items
       /\ SameMode(m, skipped) /\ SameStep(m, skipped) /\ SameSlots(m, skipped)
       /\ SameLine(m, skipped)
  BY DEF SameMode, SameStep, SameSlots, SameLine, MachineType
<1>12. ~IsEmpty(skipped)
  BY <1>7, <1>11 DEF IsEmpty
<1>13. CommandAt(skip) = HeadItem(skipped).command
  <2>1. CASE skip = 0
    <3>1. m.queue_read_index + 0 = m.queue_read_index
      BY IndexType
    <3>2. m.queue_read_index % QueueSize = m.queue_read_index
      BY <1>6, QueueAssumption DEF Slots
    <3> QED BY <1>11, <2>1, <3>1, <3>2 DEF HeadItem
  <2>2. CASE skip # 0
    BY <1>11, <2>2 DEF HeadItem
  <2> QED BY <2>1, <2>2
<1>14. HeadItem(skipped).command \in {"ReadN", "SeekL"}
  BY <1>9, <1>10, <1>12, HeadIsRequest
<1>15. command = "ReadN" => HeadItem(skipped).command = "ReadN"
  BY <1>5, <1>13
<1> HIDE DEF skipped, CommandAt, command
<1>16. CASE HeadItem(skipped).command = "ReadN"
  <2>1. n = DispatchRead(skipped, "ReadN", mode)
    BY <1>4, <1>13, <1>16
  <2>2. /\ DispatchKeeps(skipped, n)
        /\ n.current_command = "ReadN"
        /\ n.ready_callback =
             IF mode = "ASYNC" THEN "handle_ready_intr" ELSE skipped.ready_callback
        /\ skipped.issued = "None" => n.waiting = skipped.waiting
    <3>1. "ReadN" \in Commands
      BY CommandValues
    <3> QED BY <1>9, <1>10, <2>1, <3>1, DispatchReadFields
  <2>3. SameQueue(skipped, n)
    BY <2>2 DEF DispatchKeeps
  <2>4. ~IsEmpty(n) /\ HeadItem(n) = HeadItem(skipped)
    BY <1>12, <2>3, QueueSame
  <2>5. DataQueued(n)
    <3>1. n.audio_enabled = FALSE /\ n.data_ready_pending = FALSE
      BY <1>9, <2>2 DEF DispatchKeeps, SameMode, DataQueued
    <3> QED BY <1>9, <2>3, <3>1, DataQueuedSame
  <2> QED BY <1>11, <1>16, <2>2, <2>4, <2>5
          DEF DispatchKeeps, SameMode, SameStep, SameSlots, SameLine, n, command
<1>17. CASE HeadItem(skipped).command = "SeekL"
  <2>1. n = DispatchSeek(skipped, mode)
    BY <1>4, <1>13, <1>17
  <2>2. /\ DispatchKeeps(skipped, n)
        /\ n.current_command = "SeekL"
        /\ n.ready_callback =
             IF mode = "COMMAND_THEN_READ" THEN "none" ELSE skipped.ready_callback
        /\ skipped.issued = "None" => n.waiting = skipped.waiting
    BY <1>10, <2>1, DispatchSeekFields
  <2>3. SameQueue(skipped, n)
    BY <2>2 DEF DispatchKeeps
  <2>4. ~IsEmpty(n) /\ HeadItem(n) = HeadItem(skipped)
    BY <1>12, <2>3, QueueSame
  <2>5. DataQueued(n)
    <3>1. n.audio_enabled = FALSE /\ n.data_ready_pending = FALSE
      BY <1>9, <2>2 DEF DispatchKeeps, SameMode, DataQueued
    <3> QED BY <1>9, <2>3, <3>1, DataQueuedSame
  <2>6. command # "ReadN"
    BY <1>15, <1>17
  <2> QED BY <1>11, <1>17, <2>2, <2>4, <2>5, <2>6
          DEF DispatchKeeps, SameMode, SameStep, SameSlots, SameLine, n, command
<1> QED BY <1>14, <1>16, <1>17

-----------------------------------------------------------------------------
(* The sync callback of normal operation. *)

(* A command of the queue is under way and nothing else. *)
Working(m) ==
    /\ DataQueued(m) /\ Recording(m)
    /\ m.sync_callback = "complete_command"
    /\ m.init_command = 0 /\ m.init_retry = FALSE
    /\ "RECOVERY_PENDING" \notin m.status_flags

(* What a handler is to leave behind. *)
Kept(m, n) == Roles(n) /\ Follows(m, n)

LEMMA WorkingFrom ==
    ASSUME NEW m, Roles(m), m.sync_callback = "complete_command"
    PROVE  Working(m) /\ ~IsEmpty(m) /\ m.current_command # "None"
BY DEF Roles, Commanding, Reconfigures, Working

LEMMA WorkingRoles ==
    ASSUME NEW m, Working(m), ~IsEmpty(m), m.current_command # "None",
           m.ready_callback = "handle_ready_intr" =>
             m.current_command \in {"ReadN", "Nop"} /\ HeadItem(m).command = "ReadN"
    PROVE  Roles(m) /\ ~Astray(m)
<1> USE DEF Working
<1>1. DataQueued(m) /\ Recording(m)
  OBVIOUS
<1>2. Commanding(m)
  BY DEF Commanding
<1>3. Receiving(m)
  BY DEF Receiving
<1>4. Exclusive(m) /\ Stepped(m)
  BY DEF Exclusive, Stepped, Pausing, Reconfiguration, PAUSE, AUDIO_PAUSE, RESTORE_MODE,
         STEP_SET_FILTER, STEP_DEMUTE, STEP_PAUSE, STEP_COMPLETE
<1>5. ~Astray(m) /\ Strayed(m)
  BY DEF Strayed, Astray
<1>6. Reconfigures(m)
  BY DEF Reconfigures, Reconfiguration,
         STEP_SET_FILTER, STEP_DEMUTE, STEP_PAUSE, STEP_COMPLETE
<1> QED BY <1>1, <1>2, <1>3, <1>4, <1>5, <1>6 DEF Roles

LEMMA WorkingSame ==
    ASSUME NEW m, NEW n, Working(m), DataQueued(n), SameMode(m, n), SameStep(m, n),
           n.sync_callback = m.sync_callback,
           n.ready_callback \in {m.ready_callback, "handle_ready_intr", "none"}
    PROVE  Working(n)
<1>1. Recording(n)
  <2>1. 0 \notin RecoverySteps
    BY DEF RecoverySteps, RECOVERY_SET_MODE, RECOVERY_READ_DISC_ID, RECOVERY_RETRY_READ,
           RECOVERY_COMPLETE
  <2> QED BY <2>1 DEF Working, Recording, SameMode, SameStep
<1> QED BY <1>1 DEF Working, SameMode, SameStep

(* A dispatch keeps the roles. *)
LEMMA RunCommandRoles ==
    ASSUME NEW m \in MachineType, Working(m), ~IsEmpty(m),
           NEW mode \in {"ASYNC", "COMMAND_THEN_READ"},
           mode = "ASYNC" /\ m.ready_callback = "handle_ready_intr" => HeadItem(m).command = "ReadN"
    PROVE  LET n == RunCommand(m, HeadItem(m).command, mode)
           IN /\ Roles(n) /\ ~IsEmpty(n) /\ ~Astray(n)
              /\ n.status_flags = m.status_flags
              /\ m.issued = "None" => n.waiting = m.waiting
<1> DEFINE n == RunCommand(m, HeadItem(m).command, mode)
<1>1. DataQueued(m)
  BY DEF Working
<1>2. /\ DataQueued(n) /\ ~IsEmpty(n)
      /\ SameMode(m, n) /\ SameStep(m, n)
      /\ n.sync_callback = m.sync_callback
      /\ n.current_command = HeadItem(n).command
      /\ n.current_command \in {"ReadN", "SeekL"}
      /\ HeadItem(m).command = "ReadN" => n.current_command = "ReadN"
      /\ n.ready_callback =
           IF n.current_command = "ReadN"
           THEN IF mode = "ASYNC" THEN "handle_ready_intr" ELSE m.ready_callback
           ELSE IF mode = "COMMAND_THEN_READ" THEN "none" ELSE m.ready_callback
      /\ m.issued = "None" => n.waiting = m.waiting
  BY <1>1, RunCommandFields
<1> HIDE DEF n
<1>3. Working(n)
  BY <1>2, WorkingSame
<1>4. n.ready_callback = "handle_ready_intr" => n.current_command = "ReadN"
  BY <1>2
<1>5. Roles(n) /\ ~Astray(n)
  BY <1>2, <1>3, <1>4, WorkingRoles
<1> QED BY <1>2, <1>5 DEF SameMode, n

LEMMA HandleSyncErrorFields ==
    ASSUME NEW m \in MachineType
    PROVE  LET n == HandleSyncError(m)
           IN /\ SameQueue(m, n) /\ n.waiting = m.waiting
              /\ n.audio_enabled = m.audio_enabled
              /\ n.data_ready_pending = m.data_ready_pending
              /\ n.sync_callback = "none" /\ n.ready_callback = "none"
              /\ n.current_command = "None" /\ n.init_command = 0 /\ n.init_retry = FALSE
              /\ n.init_state = IDLE
              /\ n.status_flags = m.status_flags \cup {"SYNC_ERROR"}
<1> DEFINE off == Disarm(m)
<1>1. off \in MachineType
  BY DisarmType
<1>2. /\ SameQueue(m, off) /\ off.waiting = m.waiting
      /\ off.audio_enabled = m.audio_enabled
      /\ off.data_ready_pending = m.data_ready_pending
      /\ off.sync_callback = "none" /\ off.ready_callback = "none"
      /\ off.status_flags = m.status_flags
  BY DEF Disarm, SameQueue, MachineType
<1>3. HandleSyncError(m) =
        [off EXCEPT !.init_state = IDLE,
                    !.status_flags = @ \cup {"SYNC_ERROR"},
                    !.current_command = "None",
                    !.init_command = 0,
                    !.init_retry = FALSE,
                    !.retry_count = 0,
                    !.retry_counter = 0]
  BY DEF HandleSyncError
<1> HIDE DEF off
<1> QED BY <1>1, <1>2, <1>3 DEF SameQueue, MachineType

(* Both slots are empty, no command is current and no step is taken. *)
Resigned(m) ==
    /\ m.sync_callback = "none" /\ m.ready_callback = "none"
    /\ m.current_command = "None" /\ m.init_command = 0 /\ m.init_retry = FALSE

LEMMA ResignedRoles ==
    ASSUME NEW m, Resigned(m), DataQueued(m),
           \/ m.init_state \notin 2..8
           \/ DiscUnknown \subseteq m.status_flags
           \/ "RECOVERY_PENDING" \in m.status_flags,
           "RECOVERY_PENDING" \in m.status_flags => ~Failing(m) /\ m.init_state \in 0..3
    PROVE  Roles(m) /\ ~Astray(m)
<1> USE DEF Resigned
<1>1. Commanding(m) /\ Receiving(m) /\ Stepped(m)
  BY DEF Commanding, Receiving, Stepped
<1>2. Exclusive(m)
  BY DEF Exclusive, Pausing, Reconfiguration, PAUSE, AUDIO_PAUSE, RESTORE_MODE,
         STEP_SET_FILTER, STEP_DEMUTE, STEP_PAUSE, STEP_COMPLETE
<1>3. Recording(m)
  BY DEF Recording, RecoverySteps, RECOVERY_SET_MODE, RECOVERY_READ_DISC_ID,
         RECOVERY_RETRY_READ, RECOVERY_COMPLETE
<1>4. ~Astray(m) /\ Strayed(m)
  BY DEF Strayed, Astray
<1>5. Reconfigures(m)
  BY DEF Reconfigures, Reconfiguration,
         STEP_SET_FILTER, STEP_DEMUTE, STEP_PAUSE, STEP_COMPLETE
<1> QED BY <1>1, <1>2, <1>3, <1>4, <1>5 DEF Roles

LEMMA HandleSyncErrorRoles ==
    ASSUME NEW m \in MachineType, DataQueued(m), "RECOVERY_PENDING" \notin m.status_flags
    PROVE  /\ Kept(m, HandleSyncError(m))
           /\ IsEmpty(HandleSyncError(m)) <=> IsEmpty(m)
           /\ HandleSyncError(m).sync_callback = "none"
<1> DEFINE n == HandleSyncError(m)
<1>1. /\ SameQueue(m, n) /\ n.waiting = m.waiting
      /\ n.audio_enabled = m.audio_enabled
      /\ n.data_ready_pending = m.data_ready_pending
      /\ n.sync_callback = "none" /\ n.ready_callback = "none"
      /\ n.current_command = "None" /\ n.init_command = 0 /\ n.init_retry = FALSE
      /\ n.init_state = IDLE
      /\ n.status_flags = m.status_flags \cup {"SYNC_ERROR"}
  BY HandleSyncErrorFields
<1> HIDE DEF n
<1>2. DataQueued(n)
  <2>1. n.audio_enabled = FALSE /\ n.data_ready_pending = FALSE
    BY <1>1 DEF DataQueued
  <2> QED BY <1>1, <2>1, DataQueuedSame
<1>3. "RECOVERY_PENDING" \notin n.status_flags
  BY <1>1
<1>4. Resigned(n) /\ n.init_state \notin 2..8
  BY <1>1 DEF Resigned, IDLE
<1>5. Roles(n) /\ ~Astray(n)
  BY <1>2, <1>3, <1>4, ResignedRoles
<1>6. IsEmpty(n) <=> IsEmpty(m)
  BY <1>1, QueueSame
<1>7. Follows(m, n)
  BY <1>1, <1>3, <1>5, <1>6 DEF Follows, Spare
<1> QED BY <1>1, <1>5, <1>6, <1>7 DEF Kept, n

LEMMA RetireFields ==
    ASSUME NEW m \in MachineType, DataQueued(m), ~IsEmpty(m)
    PROVE  LET n == Retire(m)
           IN /\ DataQueued(n)
              /\ SameMode(m, n) /\ SameStep(m, n) /\ SameSlots(m, n) /\ SameLine(m, n)
              /\ Spare(m) => ~IsEmpty(n)
<1> DEFINE next == Next1(m.queue_read_index)
           moved == [m EXCEPT !.queue_read_index = next]
           n == Retire(m)
<1>1. n = [moved EXCEPT !.playback_state = FALSE, !.transfer_callback = NULL]
  BY DEF Retire
<1>2. 1 \in 0..PendingCount(m)
  <2>1. m.queue_read_index \in Slots /\ m.queue_write_index \in Slots
    BY IndexType
  <2>2. (m.queue_read_index - m.queue_read_index) % QueueSize < PendingCount(m)
    BY <2>1, HeadIsPending DEF IsEmpty, PendingCount
  <2>3. /\ (m.queue_read_index - m.queue_read_index) % QueueSize \in 0..QueueSize - 1
        /\ PendingCount(m) \in 0..QueueSize - 1
    BY <2>1, Behind DEF PendingCount
  <2> QED BY <2>2, <2>3, QueueAssumption
<1>3. DataQueued(moved)
  BY <1>2, SkippedQueued DEF Next1
<1>4. next \in Slots
  <2>1. m.queue_read_index + 1 \in Int
    BY IndexType
  <2> QED BY <2>1, SlotOf DEF Next1
<1>5. moved \in MachineType
  BY <1>4, FieldUpdates
<1>6. /\ SameMode(m, moved) /\ SameStep(m, moved) /\ SameSlots(m, moved) /\ SameLine(m, moved)
      /\ moved.queue_read_index = next /\ moved.queue_write_index = m.queue_write_index
  BY DEF SameMode, SameStep, SameSlots, SameLine, MachineType
<1> HIDE DEF moved, next, n
<1>7. SameQueue(moved, n) /\ SameMode(moved, n) /\ SameStep(moved, n) /\ SameSlots(moved, n)
      /\ SameLine(moved, n)
  BY <1>1, <1>5 DEF SameQueue, SameMode, SameStep, SameSlots, SameLine, MachineType
<1>8. DataQueued(n)
  <2>1. n.audio_enabled = FALSE /\ n.data_ready_pending = FALSE
    BY <1>3, <1>7 DEF SameMode, DataQueued
  <2> QED BY <1>3, <1>7, <2>1, DataQueuedSame
<1>9. Spare(m) => ~IsEmpty(n)
  BY <1>6, <1>7, QueueSame DEF IsEmpty, Spare, next
<1>10. SameMode(m, n) /\ SameStep(m, n) /\ SameSlots(m, n) /\ SameLine(m, n)
  BY <1>6, <1>7 DEF SameMode, SameStep, SameSlots, SameLine
<1> QED BY <1>8, <1>9, <1>10 DEF n

(* Without movies a dispatch has nothing to enable. *)
LEMMA AsData ==
    ASSUME NEW m \in MachineType, DataQueued(m), NEW command, command # "ReadS"
    PROVE  AsMovie(m, command) = m /\ RunQueued(m, command) = RunCommand(m, command, "ASYNC")
<1>1. (m.audio_enabled \/ command = "ReadS") = m.audio_enabled
  BY DEF DataQueued
<1>2. AsMovie(m, command) = [m EXCEPT !.audio_enabled = m.audio_enabled]
  BY <1>1 DEF AsMovie
<1>3. AsMovie(m, command) = m
  BY <1>2 DEF MachineType
<1> QED BY <1>3 DEF RunQueued

LEMMA GoIdleFields ==
    ASSUME NEW m \in MachineType
    PROVE  LET n == [GoIdle(m) EXCEPT !.init_command = 0, !.init_retry = FALSE]
           IN /\ SameQueue(m, n) /\ SameMode(m, n) /\ SameLine(m, n)
              /\ n.sync_callback = "none" /\ n.ready_callback = m.ready_callback
              /\ n.current_command = "None" /\ n.init_command = 0 /\ n.init_retry = FALSE
<1> DEFINE idle == GoIdle(m)
<1>1. idle \in MachineType
  BY GoIdleType
<1>2. /\ SameQueue(m, idle) /\ SameMode(m, idle) /\ SameLine(m, idle)
      /\ idle.sync_callback = "none" /\ idle.ready_callback = m.ready_callback
      /\ idle.current_command = "None"
  BY DEF GoIdle, SameQueue, SameMode, SameLine, MachineType
<1> HIDE DEF idle
<1> QED BY <1>1, <1>2 DEF SameQueue, SameMode, SameLine, MachineType, idle

(* Whatever is dispatched, the entries behind it are still there. *)
LEMMA DispatchedKept ==
    ASSUME NEW m, NEW n, Roles(n), ~IsEmpty(n), ~Astray(n),
           n.status_flags = m.status_flags, m.issued = "None" => n.waiting = m.waiting
    PROVE  Kept(m, n)
BY DEF Kept, Follows

LEMMA RetireSeekKept ==
    ASSUME NEW m \in MachineType, Working(m), ~IsEmpty(m), m.current_command # "None",
           m.ready_callback # "handle_ready_intr"
    PROVE  Kept(m, RetireSeek(m))
<1> DEFINE retired == Retire(m)
           idle == [GoIdle(retired) EXCEPT !.init_command = 0, !.init_retry = FALSE]
<1>1. DataQueued(m)
  BY DEF Working
<1>2. /\ retired \in MachineType /\ DataQueued(retired)
      /\ SameMode(m, retired) /\ SameStep(m, retired) /\ SameSlots(m, retired)
      /\ SameLine(m, retired)
      /\ Spare(m) => ~IsEmpty(retired)
  BY <1>1, RetireType, RetireFields
<1>3. RetireSeek(m) = IF IsEmpty(retired) THEN idle ELSE RunQueued(retired, HeadItem(retired).command)
  BY DEF RetireSeek
<1> HIDE DEF retired
<1>4. /\ SameQueue(retired, idle) /\ SameMode(retired, idle) /\ SameLine(retired, idle)
      /\ idle.sync_callback = "none" /\ idle.ready_callback = retired.ready_callback
      /\ idle.current_command = "None" /\ idle.init_command = 0 /\ idle.init_retry = FALSE
  BY <1>2, GoIdleFields
<1> HIDE DEF idle
<1>5. Working(retired)
  BY <1>2, WorkingSame DEF SameSlots
<1>6. CASE IsEmpty(retired)
  <2>1. DataQueued(idle)
    <3>1. idle.audio_enabled = FALSE /\ idle.data_ready_pending = FALSE
      BY <1>2, <1>4 DEF SameMode, DataQueued
    <3> QED BY <1>2, <1>4, <3>1, DataQueuedSame
  <2>2. Roles(idle) /\ ~Astray(idle)
    <3>1. Commanding(idle) /\ Receiving(idle) /\ Stepped(idle)
      BY <1>2, <1>4 DEF Commanding, Receiving, Stepped, SameSlots
    <3>2. Exclusive(idle) /\ Reconfigures(idle)
      BY <1>2, <1>4 DEF Working, SameMode, Exclusive, Pausing, Reconfiguration, PAUSE, AUDIO_PAUSE,
         RESTORE_MODE, STEP_SET_FILTER, STEP_DEMUTE, STEP_PAUSE, STEP_COMPLETE, Reconfigures
    <3>3. Recording(idle)
      <4>1. 0 \notin RecoverySteps
        BY DEF RecoverySteps, RECOVERY_SET_MODE, RECOVERY_READ_DISC_ID, RECOVERY_RETRY_READ,
           RECOVERY_COMPLETE
      <4> QED BY <1>4, <1>5, <4>1 DEF Working, SameMode, Recording
    <3>4. Strayed(idle) /\ ~Astray(idle)
      BY <1>4 DEF Strayed, Astray
    <3> QED BY <2>1, <3>1, <3>2, <3>3, <3>4 DEF Roles
  <2>3. Follows(m, idle)
    BY <1>2, <1>4, <1>6, <2>2 DEF Follows, SameMode, SameLine, Working
  <2> QED BY <1>3, <1>6, <2>2, <2>3 DEF Kept
<1>7. CASE ~IsEmpty(retired)
  <2> DEFINE n == RunCommand(retired, HeadItem(retired).command, "ASYNC")
  <2>1. HeadItem(retired).command \in {"ReadN", "SeekL"}
    BY <1>2, <1>7, HeadIsRequest
  <2>2. RetireSeek(m) = n
    BY <1>2, <1>3, <1>7, <2>1, AsData
  <2>3. retired.ready_callback # "handle_ready_intr"
    BY <1>2 DEF SameSlots
  <2>4. /\ Roles(n) /\ ~IsEmpty(n) /\ ~Astray(n)
        /\ n.status_flags = retired.status_flags
        /\ retired.issued = "None" => n.waiting = retired.waiting
    BY <1>2, <1>5, <1>7, <2>3, RunCommandRoles
  <2> HIDE DEF n
  <2>5. Kept(m, n)
    BY <1>2, <2>4, DispatchedKept DEF SameMode, SameLine
  <2> QED BY <2>2, <2>5
<1> QED BY <1>6, <1>7

LEMMA DispatchHeadKept ==
    ASSUME NEW m \in MachineType, Working(m), ~IsEmpty(m),
           m.ready_callback = "handle_ready_intr" => HeadItem(m).command = "ReadN"
    PROVE  Kept(m, DispatchHead(m))
<1> DEFINE n == RunCommand(m, HeadItem(m).command, "ASYNC")
<1>1. HeadItem(m).command \in {"ReadN", "SeekL"}
  BY HeadIsRequest DEF Working
<1>2. DispatchHead(m) = RunQueued(m, HeadItem(m).command)
  BY <1>1 DEF DispatchHead
<1>3. DispatchHead(m) = n
  BY <1>1, <1>2, AsData DEF Working
<1>4. /\ Roles(n) /\ ~IsEmpty(n) /\ ~Astray(n)
      /\ n.status_flags = m.status_flags
      /\ m.issued = "None" => n.waiting = m.waiting
  BY RunCommandRoles
<1> HIDE DEF n
<1> QED BY <1>3, <1>4, DispatchedKept

(* A command gives way to a Nop, which is not done before its entry. *)
LEMMA NopKept ==
    ASSUME NEW m \in MachineType, Working(m), ~IsEmpty(m),
           m.ready_callback = "handle_ready_intr" => HeadItem(m).command = "ReadN"
    PROVE  LET n == [m EXCEPT !.current_command = "Nop"]
           IN n \in MachineType /\ Kept(m, n) /\ Kept(m, CdControlF(n, "Nop", 0))
<1> DEFINE n == [m EXCEPT !.current_command = "Nop"]
<1>1. n \in MachineType
  BY CommandValues, FieldUpdates
<1>2. /\ SameQueue(m, n) /\ SameMode(m, n) /\ SameStep(m, n) /\ SameLine(m, n)
      /\ n.sync_callback = m.sync_callback /\ n.ready_callback = m.ready_callback
      /\ n.current_command = "Nop"
  BY DEF SameQueue, SameMode, SameStep, SameLine, MachineType
<1> HIDE DEF n
<1>3. ~IsEmpty(n) /\ HeadItem(n) = HeadItem(m)
  BY <1>2, QueueSame
<1>4. DataQueued(n)
  <2>1. n.audio_enabled = FALSE /\ n.data_ready_pending = FALSE
    BY <1>2 DEF Working, DataQueued, SameMode
  <2> QED BY <1>2, <2>1, DataQueuedSame DEF Working
<1>5. Working(n)
  BY <1>2, <1>4, WorkingSame
<1>6. Roles(n) /\ ~Astray(n)
  BY <1>2, <1>3, <1>5, WorkingRoles
<1>7. Kept(m, n)
  BY <1>2, <1>3, <1>6, DispatchedKept DEF SameMode, SameLine
<1> DEFINE p == CdControlF(n, "Nop", 0)
<1>8. Roles(p) /\ SameView(n, p) /\ (n.issued = "None" => p.waiting = n.waiting)
  BY <1>1, <1>6, CdControlFRoles, CdControlFView
<1> HIDE DEF p
<1>9. ~IsEmpty(p) /\ ~Astray(p)
  BY <1>3, <1>6, <1>8, QueueSame DEF SameView, SameStep, Astray
<1>10. Kept(m, p)
  BY <1>2, <1>8, <1>9, DispatchedKept DEF SameView, SameMode, SameLine
<1> QED BY <1>1, <1>7, <1>10 DEF n, p

LEMMA KeptFrom ==
    ASSUME NEW m, NEW p, NEW n, SameView(m, p), SameLine(m, p), Kept(p, n)
    PROVE  Kept(m, n)
BY FollowsFrom DEF Kept

LEMMA CompleteCommandKept ==
    ASSUME NEW m \in MachineType, Roles(m), m.sync_callback = "complete_command",
           NEW complete \in BOOLEAN, NEW shellOpen \in BOOLEAN
    PROVE  Kept(m, CompleteCommand(m, complete, shellOpen))
<1> DEFINE seen == [m EXCEPT !.sync_complete = TRUE]
           head == HeadItem(m).command
           n == CompleteCommand(m, complete, shellOpen)
<1>1. seen \in MachineType
  BY FieldUpdates
<1>2. SameView(m, seen) /\ SameLine(m, seen)
  BY OtherFields
<1>3. Roles(seen)
  BY <1>2, ViewRoles
<1>4. HeadItem(seen) = HeadItem(m) /\ seen.current_command = m.current_command
      /\ seen.sync_callback = "complete_command"
  BY <1>2, QueueSame DEF SameView, SameSlots
<1>5. n = CASE ShellReported(m, shellOpen) -> HandleSyncError(seen)
            [] m.current_command = "Nop" /\ ~ShellReported(m, shellOpen) /\ ~complete ->
                 RunCommand(seen, head, "ASYNC")
            [] m.current_command # "Nop" /\ ~complete ->
                 CdControlF([seen EXCEPT !.current_command = "Nop"], "Nop", 0)
            [] complete /\ m.current_command \in {"ReadN", "ReadS"} -> seen
            [] complete /\ m.current_command = "SeekL" -> RetireSeek(seen)
            [] OTHER -> DispatchHead(seen)
  BY DEF CompleteCommand
<1> HIDE DEF n, seen
<1>6. Working(seen) /\ ~IsEmpty(seen) /\ seen.current_command # "None"
  BY <1>3, <1>4, WorkingFrom
<1>7. /\ seen.ready_callback = "handle_ready_intr" => HeadItem(seen).command = "ReadN"
      /\ seen.current_command = "SeekL" => seen.ready_callback # "handle_ready_intr"
  BY <1>3 DEF Roles, Receiving
<1>8. Kept(seen, HandleSyncError(seen))
  BY <1>1, <1>6, HandleSyncErrorRoles DEF Working
<1>9. Kept(seen, RunCommand(seen, head, "ASYNC"))
  <2> DEFINE p == RunCommand(seen, HeadItem(seen).command, "ASYNC")
  <2>1. /\ Roles(p) /\ ~IsEmpty(p) /\ ~Astray(p)
        /\ p.status_flags = seen.status_flags
        /\ seen.issued = "None" => p.waiting = seen.waiting
    BY <1>1, <1>6, <1>7, RunCommandRoles
  <2> HIDE DEF p
  <2>2. Kept(seen, p)
    BY <2>1, DispatchedKept
  <2> QED BY <1>4, <2>2 DEF p
<1>10. Kept(seen, CdControlF([seen EXCEPT !.current_command = "Nop"], "Nop", 0))
  BY <1>1, <1>6, <1>7, NopKept
<1>11. Kept(seen, seen)
  BY <1>3 DEF Kept, Follows, Spare
<1>12. seen.current_command = "SeekL" => Kept(seen, RetireSeek(seen))
  BY <1>1, <1>6, <1>7, RetireSeekKept
<1>13. Kept(seen, DispatchHead(seen))
  BY <1>1, <1>6, <1>7, DispatchHeadKept
<1>14. Kept(seen, n)
  <2>1. CASE ShellReported(m, shellOpen)
    BY <1>5, <1>8, <2>1 DEF ShellReported
  <2>2. CASE m.current_command = "Nop" /\ ~ShellReported(m, shellOpen) /\ ~complete
    BY <1>5, <1>9, <2>2
  <2>3. CASE m.current_command # "Nop" /\ ~complete /\ ~ShellReported(m, shellOpen)
    BY <1>5, <1>10, <2>3
  <2>4. CASE complete /\ ~ShellReported(m, shellOpen)
    BY <1>4, <1>5, <1>11, <1>12, <1>13, <2>4
  <2> QED BY <2>1, <2>2, <2>3, <2>4
<1>15. Kept(m, n)
  BY <1>2, <1>14, KeptFrom
<1> QED BY <1>15 DEF n

-----------------------------------------------------------------------------
(* The sync callback of recovery. *)

LEMMA StepNumbers ==
    /\ PAUSE = 1 /\ AUDIO_PAUSE = 2 /\ RESTORE_MODE = 3
    /\ STEP_SET_FILTER = 16 /\ STEP_DEMUTE = 17 /\ STEP_PAUSE = 18 /\ STEP_COMPLETE = 19
    /\ RECOVERY_SET_MODE = 32 /\ RECOVERY_READ_DISC_ID = 33 /\ RECOVERY_RETRY_READ = 34
    /\ RECOVERY_COMPLETE = 35
    /\ Pausing = {1, 2, 3} /\ Reconfiguration = {16, 17, 18, 19}
    /\ RecoverySteps = {32, 33, 34, 35}
BY DEF PAUSE, AUDIO_PAUSE, RESTORE_MODE, STEP_SET_FILTER, STEP_DEMUTE, STEP_PAUSE, STEP_COMPLETE,
       RECOVERY_SET_MODE, RECOVERY_READ_DISC_ID, RECOVERY_RETRY_READ, RECOVERY_COMPLETE,
       Pausing, Reconfiguration, RecoverySteps

LEMMA StateNumbers ==
    /\ IDLE = 0 /\ POLL_STATUS = 1 /\ CHECK_DISC = 2 /\ WAIT_FOR_DISC = 3 /\ WAIT_FOR_DRIVE = 4
    /\ CHECK_DISC_TYPE = 5 /\ SET_MODE = 6 /\ READ_DISC_ID = 7 /\ WAIT_FOR_READ = 8
    /\ ERROR_PAUSE = 32 /\ RETRY_READ = 33
    /\ RECONF_FLUSH = 0 /\ RECONF_SET_MODE = 1 /\ RECONF_SET_FILTER = 2 /\ RECONF_WAIT = 3
    /\ Started = {6, 7, 8, 32, 33}
BY DEF IDLE, POLL_STATUS, CHECK_DISC, WAIT_FOR_DISC, WAIT_FOR_DRIVE, CHECK_DISC_TYPE, SET_MODE,
       READ_DISC_ID, WAIT_FOR_READ, ERROR_PAUSE, RETRY_READ, RECONF_FLUSH, RECONF_SET_MODE,
       RECONF_SET_FILTER, RECONF_WAIT, Started

LEMMA EndStepView ==
    ASSUME NEW m \in MachineType
    PROVE  LET n == EndStep(m)
           IN /\ n \in MachineType
              /\ SameQueue(m, n) /\ SameMode(m, n) /\ SameLine(m, n)
              /\ n.sync_callback = "none" /\ n.ready_callback = m.ready_callback
              /\ n.current_command = m.current_command
              /\ n.init_command = 0 /\ n.init_retry = m.init_retry
BY EndStepType DEF EndStep, SameQueue, SameMode, SameLine, MachineType

(* A step is over; what comes next is up to a poll. *)
LEMMA EndedRoles ==
    ASSUME NEW m, NEW n, Roles(m), m.sync_callback = "handle_recovery_sync",
           SameQueue(m, n), SameLine(m, n),
           n.audio_enabled = m.audio_enabled, n.data_ready_pending = m.data_ready_pending,
           n.sync_callback = "none", n.ready_callback = m.ready_callback,
           n.current_command = m.current_command,
           n.init_command = 0, n.init_retry = FALSE,
           \A f \in {"RECOVERY_PENDING", "INVALID_DISC", "NO_DISC"} :
              f \in n.status_flags => f \in m.status_flags,
           "RECOVERY_PENDING" \notin n.status_flags /\ n.init_state \in 2..8 =>
              DiscUnknown \subseteq n.status_flags,
           n.ready_callback = "verify_disc" => n.init_state = m.init_state,
           "RECOVERY_PENDING" \in n.status_flags =>
              n.status_flags = m.status_flags /\ n.init_state \in 0..3
    PROVE  Kept(m, n)
<1>1. DataQueued(n)
  <2>1. n.audio_enabled = FALSE /\ n.data_ready_pending = FALSE
    BY DEF Roles, DataQueued
  <2> QED BY <2>1, DataQueuedSame DEF Roles
<1>2. Commanding(n) /\ Receiving(n) /\ Stepped(n)
  <2>1. IsEmpty(n) <=> IsEmpty(m)
    BY QueueSame
  <2> QED BY <2>1 DEF Roles, Commanding, Receiving, Stepped
<1>3. Exclusive(n)
  BY StepNumbers DEF Exclusive
<1>4. ~Astray(n) /\ Strayed(n)
  BY DEF Strayed, Astray
<1>5. Recording(n)
  BY StepNumbers DEF Roles, Recording
<1>6. Reconfigures(n)
  BY StepNumbers, ViewFailing DEF Roles, Reconfigures
<1>7. Follows(m, n)
  <2>1. IsEmpty(n) <=> IsEmpty(m)
    BY QueueSame
  <2> QED BY <1>4, <2>1 DEF Follows, SameLine, Spare
<1> QED BY <1>1, <1>2, <1>3, <1>4, <1>5, <1>6, <1>7 DEF Kept, Roles

LEMMA EndStepKept ==
    ASSUME NEW m \in MachineType, Roles(m), m.sync_callback = "handle_recovery_sync",
           m.init_retry = FALSE
    PROVE  Kept(m, EndStep(m))
<1> DEFINE n == EndStep(m)
<1>1. /\ SameQueue(m, n) /\ SameMode(m, n) /\ SameLine(m, n)
      /\ n.sync_callback = "none" /\ n.ready_callback = m.ready_callback
      /\ n.current_command = m.current_command
      /\ n.init_command = 0 /\ n.init_retry = FALSE
  BY EndStepView
<1> HIDE DEF n
<1>2. /\ n.status_flags = m.status_flags /\ n.init_state = m.init_state
      /\ n.audio_enabled = m.audio_enabled /\ n.data_ready_pending = m.data_ready_pending
  BY <1>1 DEF SameMode
<1>3. /\ "RECOVERY_PENDING" \notin n.status_flags /\ n.init_state \in 2..8 =>
           DiscUnknown \subseteq n.status_flags
      /\ "RECOVERY_PENDING" \in n.status_flags => n.init_state \in 0..3
  BY <1>2 DEF Roles, Recording, Reconfigures
<1>4. Kept(m, n)
  BY <1>1, <1>2, <1>3, EndedRoles
<1> QED BY <1>4 DEF n

LEMMA EndStepAtKept ==
    ASSUME NEW m \in MachineType, Roles(m), m.sync_callback = "handle_recovery_sync",
           m.init_retry = FALSE, m.ready_callback # "verify_disc", NEW state \in InitStates,
           "RECOVERY_PENDING" \notin m.status_flags /\ state \in 2..8 =>
             DiscUnknown \subseteq m.status_flags,
           "RECOVERY_PENDING" \in m.status_flags => state \in 0..3
    PROVE  Kept(m, EndStepAt(m, state))
<1> DEFINE ended == EndStep(m)
           n == EndStepAt(m, state)
<1>1. /\ ended \in MachineType
      /\ SameQueue(m, ended) /\ SameMode(m, ended) /\ SameLine(m, ended)
      /\ ended.sync_callback = "none" /\ ended.ready_callback = m.ready_callback
      /\ ended.current_command = m.current_command
      /\ ended.init_command = 0 /\ ended.init_retry = FALSE
  BY EndStepView
<1>2. n = [ended EXCEPT !.init_state = state]
  BY DEF EndStepAt
<1> HIDE DEF ended, n
<1>3. /\ SameQueue(m, n) /\ SameLine(m, n)
      /\ n.sync_callback = "none" /\ n.ready_callback = m.ready_callback
      /\ n.current_command = m.current_command
      /\ n.init_command = 0 /\ n.init_retry = FALSE
      /\ n.audio_enabled = m.audio_enabled /\ n.data_ready_pending = m.data_ready_pending
      /\ n.status_flags = m.status_flags /\ n.init_state = state
  BY <1>1, <1>2 DEF SameQueue, SameMode, SameLine, MachineType
<1>4. Kept(m, n)
  BY <1>3, EndedRoles
<1> QED BY <1>4 DEF n

(* A pause or a reconfiguration goes on to a step of the same kind. *)
LEMMA NextStepKept ==
    ASSUME NEW m \in MachineType, Roles(m), m.sync_callback = "handle_recovery_sync",
           m.init_retry = FALSE, NEW command,
           \/ m.init_command \in Pausing /\ m.init_command + 1 \in Pausing
           \/ m.init_command \in Reconfiguration /\ m.init_command + 1 \in Reconfiguration
    PROVE  Kept(m, NextStep(m, command))
<1> DEFINE next == m.init_command + 1
           p == [m EXCEPT !.init_command = next]
           n == CdControlF(p, command, 0)
<1>1. NextStep(m, command) = n
  BY DEF NextStep
<1>2. /\ next \in Pausing \cup Reconfiguration
      /\ next \in Pausing <=> m.init_command \in Pausing
      /\ next \in InitCommands /\ next # 0 /\ next \notin RecoverySteps
  BY StepNumbers DEF InitCommands
<1> HIDE DEF next
<1>3. p \in MachineType
  BY <1>2, FieldUpdates
<1>4. /\ SameQueue(m, p) /\ SameMode(m, p) /\ SameSlots(m, p) /\ SameLine(m, p)
      /\ p.init_command = next /\ p.init_retry = FALSE
  BY DEF SameQueue, SameMode, SameSlots, SameLine, MachineType
<1> HIDE DEF p
<1>5. DataQueued(p)
  <2>1. p.audio_enabled = FALSE /\ p.data_ready_pending = FALSE
    BY <1>4 DEF Roles, DataQueued, SameMode
  <2> QED BY <1>4, <2>1, DataQueuedSame DEF Roles
<1>6. Commanding(p) /\ Receiving(p)
  <2>1. (IsEmpty(p) <=> IsEmpty(m)) /\ HeadItem(p) = HeadItem(m)
    BY <1>4, QueueSame
  <2> QED BY <1>4, <2>1 DEF Roles, Commanding, Receiving, SameSlots
<1>7. m.ready_callback = "none" /\ m.current_command = "None"
  BY <1>2 DEF Roles, Exclusive
<1>8. Exclusive(p) /\ Stepped(p) /\ Recording(p)
  <2>1. Recording(p)
    BY <1>2, <1>4, <1>7 DEF Roles, Recording, SameMode, SameSlots
  <2> QED BY <1>2, <1>4, <1>7, <2>1 DEF Exclusive, Stepped, SameSlots
<1>9. ~Astray(p) /\ Strayed(p)
  BY <1>4 DEF Strayed, Astray
<1>10. Reconfigures(p)
  <2>1. Failing(p) <=> Failing(m)
    BY <1>4, ViewFailing DEF SameMode
  <2>2. CASE m.init_command \in Pausing
    <3>1. "RECOVERY_PENDING" \notin m.status_flags
      BY <2>2, StepNumbers DEF Roles, Reconfigures
    <3>2. next \notin Reconfiguration
      BY <1>2, <2>2, StepNumbers
    <3> QED BY <1>4, <3>1, <3>2 DEF SameMode, Reconfigures
  <2>3. CASE m.init_command \in Reconfiguration
    <3>1. next \in Reconfiguration
      BY <1>2, <2>3, StepNumbers
    <3> QED BY <1>4, <2>1, <2>3, <3>1 DEF Roles, SameMode, SameSlots, Reconfigures
  <2> QED BY <2>2, <2>3
<1>11. Kept(m, p)
  <2>1. (IsEmpty(p) <=> IsEmpty(m))
    BY <1>4, QueueSame
  <2>2. Follows(m, p)
    BY <1>4, <1>9, <2>1 DEF Follows, SameLine, SameMode, Spare
  <2> QED BY <1>5, <1>6, <1>8, <1>9, <1>10, <2>2 DEF Kept, Roles
<1>12. Kept(p, n)
  BY <1>3, <1>11, CdControlFRoles DEF Kept
<1>13. SameView(p, n) /\ (p.issued = "None" => n.waiting = p.waiting)
  BY <1>3, CdControlFView
<1> HIDE DEF n
<1>14. Follows(m, n)
  <2>1. IsEmpty(n) <=> IsEmpty(m)
    BY <1>4, <1>13, QueueSame DEF SameView, SameQueue
  <2> QED BY <1>4, <1>9, <1>13, <2>1
          DEF Follows, SameView, SameLine, SameMode, SameStep, Spare, Astray
<1> QED BY <1>1, <1>12, <1>14 DEF Kept

(* The retry mark of a step. *)
LEMMA RetryKept ==
    ASSUME NEW m \in MachineType, Roles(m), m.sync_callback = "handle_recovery_sync",
           NEW retry \in BOOLEAN
    PROVE  LET n == [m EXCEPT !.init_retry = retry]
           IN /\ n \in MachineType /\ Kept(m, n)
              /\ SameQueue(m, n) /\ SameMode(m, n) /\ SameSlots(m, n) /\ SameLine(m, n)
              /\ n.init_command = m.init_command /\ n.init_retry = retry
<1> DEFINE n == [m EXCEPT !.init_retry = retry]
<1>1. n \in MachineType
  BY FieldUpdates
<1>2. /\ SameQueue(m, n) /\ SameMode(m, n) /\ SameSlots(m, n) /\ SameLine(m, n)
      /\ n.init_command = m.init_command /\ n.init_retry = retry
  BY DEF SameQueue, SameMode, SameSlots, SameLine, MachineType
<1> HIDE DEF n
<1>3. m.init_command # 0
  BY DEF Roles, Stepped
<1>4. DataQueued(n)
  <2>1. n.audio_enabled = FALSE /\ n.data_ready_pending = FALSE
    BY <1>2 DEF Roles, DataQueued, SameMode
  <2> QED BY <1>2, <2>1, DataQueuedSame DEF Roles
<1>5. IsEmpty(n) <=> IsEmpty(m)
  BY <1>2, QueueSame
<1>6. Commanding(n) /\ Receiving(n)
  <2>1. HeadItem(n) = HeadItem(m)
    BY <1>2, QueueSame
  <2> QED BY <1>2, <1>5, <2>1 DEF Roles, Commanding, Receiving, SameSlots
<1>7. Exclusive(n) /\ Stepped(n) /\ Recording(n)
  BY <1>2 DEF Roles, Exclusive, Stepped, Recording, SameMode, SameSlots
<1>8. ~Astray(n) /\ Strayed(n)
  BY <1>2, <1>3 DEF Strayed, Astray
<1>9. Reconfigures(n)
  BY <1>2, ViewFailing DEF Roles, SameMode, SameSlots, Reconfigures
<1>10. Follows(m, n)
  BY <1>2, <1>5, <1>8 DEF Follows, SameLine, SameMode, Spare
<1> QED BY <1>1, <1>2, <1>4, <1>6, <1>7, <1>8, <1>9, <1>10 DEF Kept, Roles, n

LEMMA AfterPauseKept ==
    ASSUME NEW m \in MachineType, Roles(m), m.sync_callback = "handle_recovery_sync",
           m.init_retry = FALSE, m.init_command \in Pausing
    PROVE  Kept(m, AfterPause(m))
<1> DEFINE command == HeadItem(m).command
           next == [m EXCEPT !.init_command = 0,
                             !.sync_callback = "complete_command",
                             !.playback_state = FALSE,
                             !.transfer_callback = NULL]
           n == RunCommand(next, command, "ASYNC")
<1>1. CASE IsEmpty(m)
  BY <1>1, EndStepKept DEF AfterPause
<1>2. CASE ~IsEmpty(m)
  <2>1. DataQueued(m) /\ command \in {"ReadN", "SeekL"}
    BY <1>2, HeadIsRequest DEF Roles
  <2>2. AsMovie(m, command) = m
    BY <2>1, AsData
  <2>3. AfterPause(m) = n
    BY <1>2, <2>2 DEF AfterPause
  <2>4. next \in MachineType
    BY StepValues, ZenonT(30) DEF MachineType
  <2>5. /\ SameQueue(m, next) /\ SameMode(m, next) /\ SameLine(m, next)
        /\ next.sync_callback = "complete_command" /\ next.ready_callback = m.ready_callback
        /\ next.init_command = 0 /\ next.init_retry = FALSE
    BY DEF SameQueue, SameMode, SameLine, MachineType
  <2> HIDE DEF next
  <2>6. m.ready_callback = "none" /\ "RECOVERY_PENDING" \notin m.status_flags
    BY StepNumbers DEF Roles, Exclusive, Reconfigures
  <2>7. DataQueued(next)
    <3>1. next.audio_enabled = FALSE /\ next.data_ready_pending = FALSE
      BY <2>1, <2>5 DEF DataQueued, SameMode
    <3> QED BY <2>1, <2>5, <3>1, DataQueuedSame
  <2>8. Working(next)
    BY <2>5, <2>6, <2>7, StepNumbers DEF Working, SameMode, Roles, Recording
  <2>9. ~IsEmpty(next) /\ HeadItem(next) = HeadItem(m)
    BY <1>2, <2>5, QueueSame
  <2> DEFINE q == RunCommand(next, HeadItem(next).command, "ASYNC")
  <2>10. /\ Roles(q) /\ ~IsEmpty(q) /\ ~Astray(q)
         /\ q.status_flags = next.status_flags
         /\ next.issued = "None" => q.waiting = next.waiting
    BY <2>4, <2>5, <2>6, <2>8, <2>9, RunCommandRoles
  <2>11. q = n
    BY <2>9
  <2> HIDE DEF q, n
  <2>12. Kept(m, q)
    BY <2>5, <2>10, DispatchedKept DEF SameMode, SameLine
  <2> QED BY <2>3, <2>11, <2>12
<1> QED BY <1>1, <1>2

LEMMA FinishReconfigurationKept ==
    ASSUME NEW m \in MachineType, Roles(m), m.sync_callback = "handle_recovery_sync",
           m.init_retry = FALSE, m.init_command \in Reconfiguration
    PROVE  Kept(m, FinishReconfiguration(m))
<1> DEFINE ended == EndStep(m)
           at == EndStepAt(m, IDLE)
           n == FinishReconfiguration(m)
<1>1. /\ ended \in MachineType
      /\ SameQueue(m, ended) /\ SameMode(m, ended) /\ SameLine(m, ended)
      /\ ended.sync_callback = "none" /\ ended.ready_callback = m.ready_callback
      /\ ended.current_command = m.current_command
      /\ ended.init_command = 0 /\ ended.init_retry = FALSE
  BY EndStepView
<1>2. at = [ended EXCEPT !.init_state = IDLE]
  BY DEF EndStepAt
<1>3. n = [at EXCEPT !.status_flags = @ \ {"RECOVERY_PENDING"}]
  BY DEF FinishReconfiguration
<1> HIDE DEF ended, at, n
<1>4. at \in MachineType
  BY <1>1, <1>2, StateValues, FieldUpdates
<1>5. /\ SameQueue(m, at) /\ SameLine(m, at)
      /\ at.sync_callback = "none" /\ at.ready_callback = m.ready_callback
      /\ at.current_command = m.current_command
      /\ at.init_command = 0 /\ at.init_retry = FALSE
      /\ at.audio_enabled = m.audio_enabled /\ at.data_ready_pending = m.data_ready_pending
      /\ at.status_flags = m.status_flags /\ at.init_state = IDLE
  BY <1>1, <1>2 DEF SameQueue, SameMode, SameLine, MachineType
<1>6. /\ SameQueue(m, n) /\ SameLine(m, n)
      /\ n.sync_callback = "none" /\ n.ready_callback = m.ready_callback
      /\ n.current_command = m.current_command
      /\ n.init_command = 0 /\ n.init_retry = FALSE
      /\ n.audio_enabled = m.audio_enabled /\ n.data_ready_pending = m.data_ready_pending
      /\ n.status_flags = m.status_flags \ {"RECOVERY_PENDING"} /\ n.init_state = IDLE
  BY <1>3, <1>4, <1>5 DEF SameQueue, SameLine, MachineType
<1>7. m.ready_callback = "none"
  BY DEF Roles, Exclusive
<1>8. /\ \A f \in {"RECOVERY_PENDING", "INVALID_DISC", "NO_DISC"} :
            f \in n.status_flags => f \in m.status_flags
      /\ n.init_state \notin 2..8 /\ n.ready_callback # "verify_disc"
      /\ "RECOVERY_PENDING" \notin n.status_flags
  BY <1>6, <1>7, StateNumbers
<1>9. Kept(m, n)
  BY <1>6, <1>8, EndedRoles
<1> QED BY <1>9 DEF n

LEMMA FinishRecoveryKept ==
    ASSUME NEW m \in MachineType, Roles(m), m.sync_callback = "handle_recovery_sync",
           m.init_retry = FALSE, m.init_command = RECOVERY_COMPLETE
    PROVE  Kept(m, FinishRecovery(m))
<1> DEFINE cleared == ClearErrors(m)
           clean == [cleared EXCEPT !.init_command = 0, !.init_state = IDLE, !.retry_counter = 0]
           idle == [clean EXCEPT !.sync_callback = "none"]
           next == [clean EXCEPT !.current_command = "Nop", !.sync_callback = "complete_command"]
           n == CdControlF(next, "Nop", 0)
<1>1. FinishRecovery(m) = IF IsEmpty(m) THEN idle ELSE n
  BY DEF FinishRecovery
<1>2. cleared \in MachineType
  BY ClearErrorsType
<1>3. /\ SameQueue(m, cleared) /\ SameStep(m, cleared) /\ SameSlots(m, cleared)
      /\ SameLine(m, cleared)
      /\ cleared.audio_enabled = m.audio_enabled
      /\ cleared.data_ready_pending = m.data_ready_pending
      /\ cleared.status_flags = m.status_flags \ ErrorFlags
  BY DEF ClearErrors, SameQueue, SameStep, SameSlots, SameLine, MachineType
<1> HIDE DEF cleared
<1>4. clean \in MachineType
  BY <1>2, StepValues, StateValues, ZenonT(30) DEF MachineType
<1>5. /\ SameQueue(m, clean) /\ SameSlots(m, clean) /\ SameLine(m, clean)
      /\ clean.init_command = 0 /\ clean.init_retry = FALSE /\ clean.init_state = IDLE
      /\ clean.audio_enabled = m.audio_enabled
      /\ clean.data_ready_pending = m.data_ready_pending
      /\ clean.status_flags = m.status_flags \ ErrorFlags
  BY <1>2, <1>3 DEF SameQueue, SameStep, SameSlots, SameLine, MachineType
<1> HIDE DEF clean
<1>6. m.ready_callback = "none" /\ "RECOVERY_PENDING" \notin m.status_flags
  <2>1. m.ready_callback \in {"none", "handle_ready_intr", "verify_disc"}
    BY DEF MachineType
  <2> QED BY <2>1, StepNumbers DEF Roles, Receiving, Recording, Reconfigures
<1>7. CASE IsEmpty(m)
  <2>1. /\ SameQueue(m, idle) /\ SameLine(m, idle)
        /\ idle.sync_callback = "none" /\ idle.ready_callback = m.ready_callback
        /\ idle.current_command = m.current_command
        /\ idle.init_command = 0 /\ idle.init_retry = FALSE
        /\ idle.audio_enabled = m.audio_enabled
        /\ idle.data_ready_pending = m.data_ready_pending
        /\ idle.status_flags = m.status_flags \ ErrorFlags /\ idle.init_state = IDLE
    BY <1>4, <1>5 DEF SameQueue, SameSlots, SameLine, MachineType
  <2> HIDE DEF idle
  <2>2. /\ \A f \in {"RECOVERY_PENDING", "INVALID_DISC", "NO_DISC"} :
              f \in idle.status_flags => f \in m.status_flags
        /\ idle.init_state \notin 2..8 /\ idle.ready_callback # "verify_disc"
        /\ "RECOVERY_PENDING" \notin idle.status_flags
    BY <1>6, <2>1, StateNumbers
  <2>3. Kept(m, idle)
    BY <2>1, <2>2, EndedRoles
  <2> QED BY <1>1, <1>7, <2>3
<1>8. CASE ~IsEmpty(m)
  <2>1. next \in MachineType
    BY <1>4, CommandValues, ZenonT(30) DEF MachineType
  <2>2. /\ SameQueue(m, next) /\ SameLine(m, next)
        /\ next.sync_callback = "complete_command" /\ next.ready_callback = m.ready_callback
        /\ next.current_command = "Nop"
        /\ next.init_command = 0 /\ next.init_retry = FALSE
        /\ next.audio_enabled = m.audio_enabled
        /\ next.data_ready_pending = m.data_ready_pending
        /\ next.status_flags = m.status_flags \ ErrorFlags /\ next.init_state = IDLE
    BY <1>4, <1>5 DEF SameQueue, SameSlots, SameLine, MachineType
  <2> HIDE DEF next
  <2>3. DataQueued(next)
    <3>1. next.audio_enabled = FALSE /\ next.data_ready_pending = FALSE
      BY <2>2 DEF Roles, DataQueued
    <3> QED BY <2>2, <3>1, DataQueuedSame DEF Roles
  <2>4. Recording(next)
    BY <1>6, <2>2, StepNumbers, StateNumbers DEF Recording
  <2>5. Working(next)
    BY <1>6, <2>2, <2>3, <2>4 DEF Working
  <2>6. ~IsEmpty(next)
    BY <1>8, <2>2, QueueSame
  <2>7. Roles(next) /\ ~Astray(next)
    BY <1>6, <2>2, <2>5, <2>6, WorkingRoles
  <2>8. Roles(n) /\ SameView(next, n) /\ (next.issued = "None" => n.waiting = next.waiting)
    BY <2>1, <2>7, CdControlFRoles, CdControlFView
  <2> HIDE DEF n
  <2>9. ~IsEmpty(n) /\ ~Astray(n)
    BY <2>6, <2>7, <2>8, QueueSame DEF SameView, SameStep, Astray
  <2>10. Follows(m, n)
    BY <1>6, <2>2, <2>8, <2>9 DEF Follows, SameView, SameMode, SameLine
  <2> QED BY <1>1, <1>8, <2>8, <2>10 DEF Kept
<1> QED BY <1>7, <1>8

(* What the record of recovery says of a step under way. *)
LEMMA StepFacts ==
    ASSUME NEW m \in MachineType, Roles(m), m.init_command # 0
    PROVE  /\ m.init_command \in {1, 2, 3, 16, 17, 18, 19, 32, 33, 34, 35}
           /\ m.init_command \in {1, 2, 3} => "RECOVERY_PENDING" \notin m.status_flags
           /\ m.init_command \in {16, 17, 18, 19} => "RECOVERY_PENDING" \in m.status_flags
           /\ m.init_command \in {1, 2, 3, 16, 17, 18, 19} => m.ready_callback = "none"
           /\ m.init_command \in {32, 33, 34, 35} =>
                "RECOVERY_PENDING" \notin m.status_flags /\ "INVALID_DISC" \in m.status_flags
           /\ m.init_command \in {32, 34, 35} =>
                DiscUnknown \subseteq m.status_flags /\ m.ready_callback # "verify_disc"
<1>1. m.init_command \in InitCommands
  BY DEF MachineType
<1>2. m.init_command \in {1, 2, 3, 16, 17, 18, 19, 32, 33, 34, 35}
  BY <1>1 DEF InitCommands
<1>3. /\ m.init_command \in {1, 2, 3} => "RECOVERY_PENDING" \notin m.status_flags
      /\ m.init_command \in {16, 17, 18, 19} => "RECOVERY_PENDING" \in m.status_flags
  BY StepNumbers DEF Roles, Reconfigures
<1>4. m.init_command \in {1, 2, 3, 16, 17, 18, 19} => m.ready_callback = "none"
  BY StepNumbers DEF Roles, Exclusive
<1>5. m.init_command \in {32, 33, 34, 35} =>
         "RECOVERY_PENDING" \notin m.status_flags /\ "INVALID_DISC" \in m.status_flags
  BY StepNumbers DEF Roles, Recording
<1>6. m.init_command \in {32, 34, 35} =>
         DiscUnknown \subseteq m.status_flags /\ m.ready_callback # "verify_disc"
  BY StepNumbers DEF Roles, Recording, DiscUnknown
<1> QED BY <1>2, <1>3, <1>4, <1>5, <1>6

LEMMA StepDoneKept ==
    ASSUME NEW m \in MachineType, Roles(m), m.sync_callback = "handle_recovery_sync",
           m.init_retry = FALSE
    PROVE  Kept(m, StepDone(m))
<1>1. m.init_command # 0
  BY DEF Roles, Stepped
<1>2. /\ m.init_command \in {1, 2, 3, 16, 17, 18, 19, 32, 33, 34, 35}
      /\ m.init_command \in {1, 2, 3} => "RECOVERY_PENDING" \notin m.status_flags
      /\ m.init_command \in {16, 17, 18, 19} => "RECOVERY_PENDING" \in m.status_flags
      /\ m.init_command \in {1, 2, 3, 16, 17, 18, 19} => m.ready_callback = "none"
      /\ m.init_command \in {32, 33, 34, 35} =>
           "RECOVERY_PENDING" \notin m.status_flags /\ "INVALID_DISC" \in m.status_flags
      /\ m.init_command \in {32, 34, 35} =>
           DiscUnknown \subseteq m.status_flags /\ m.ready_callback # "verify_disc"
  BY <1>1, StepFacts
<1>3. CASE m.init_command \in {PAUSE, RESTORE_MODE}
  <2>1. m.init_command \in Pausing
    BY <1>3, StepNumbers
  <2>2. StepDone(m) = AfterPause(m)
    BY <1>3 DEF StepDone, AUDIO_PAUSE, STEP_SET_FILTER, STEP_DEMUTE, STEP_PAUSE, STEP_COMPLETE,
       PAUSE, RESTORE_MODE, RECOVERY_SET_MODE, RECOVERY_READ_DISC_ID, RECOVERY_RETRY_READ,
       RECOVERY_COMPLETE
  <2> QED BY <2>1, <2>2, AfterPauseKept
<1>4. CASE m.init_command \in {AUDIO_PAUSE, STEP_DEMUTE, STEP_PAUSE}
  <2>1. \/ m.init_command \in Pausing /\ m.init_command + 1 \in Pausing
        \/ m.init_command \in Reconfiguration /\ m.init_command + 1 \in Reconfiguration
    BY <1>4, StepNumbers
  <2>2. StepDone(m) \in {NextStep(m, "Setmode"), NextStep(m, "Demute"), NextStep(m, "Pause")}
    BY <1>4, StepNumbers DEF StepDone
  <2> QED BY <2>1, <2>2, NextStepKept
<1>5. CASE m.init_command = STEP_SET_FILTER
  <2>1. StepDone(m) = EndStepAt(m, RECONF_SET_FILTER)
    BY <1>5, StepNumbers DEF StepDone
  <2>2. RECONF_SET_FILTER \in InitStates /\ RECONF_SET_FILTER \in 0..3
    BY StateValues, StateNumbers
  <2>3. "RECOVERY_PENDING" \in m.status_flags /\ m.ready_callback # "verify_disc"
    BY <1>2, <1>5, StepNumbers
  <2> QED BY <2>1, <2>2, <2>3, EndStepAtKept
<1>6. CASE m.init_command = STEP_COMPLETE
  <2>1. StepDone(m) = FinishReconfiguration(m)
    BY <1>6, StepNumbers DEF StepDone
  <2>2. m.init_command \in Reconfiguration
    BY <1>6, StepNumbers
  <2> QED BY <2>1, <2>2, FinishReconfigurationKept
<1>7. CASE m.init_command = RECOVERY_READ_DISC_ID
  <2>1. StepDone(m) = EndStep(m)
    BY <1>7, StepNumbers DEF StepDone
  <2> QED BY <2>1, EndStepKept
<1>8. CASE m.init_command \in {RECOVERY_SET_MODE, RECOVERY_RETRY_READ}
  <2>1. StepDone(m) = EndStepAt(m, READ_DISC_ID)
    BY <1>8, StepNumbers DEF StepDone
  <2>2. READ_DISC_ID \in InitStates
    BY StateValues
  <2>3. /\ DiscUnknown \subseteq m.status_flags /\ m.ready_callback # "verify_disc"
        /\ "RECOVERY_PENDING" \notin m.status_flags
    BY <1>2, <1>8, StepNumbers
  <2> QED BY <2>1, <2>2, <2>3, EndStepAtKept
<1>9. CASE m.init_command = RECOVERY_COMPLETE
  <2>1. StepDone(m) = FinishRecovery(m)
    BY <1>9, StepNumbers DEF StepDone
  <2> QED BY <1>9, <2>1, FinishRecoveryKept
<1> QED BY <1>2, <1>3, <1>4, <1>5, <1>6, <1>7, <1>8, <1>9, StepNumbers

LEMMA StepFailedTwiceKept ==
    ASSUME NEW m \in MachineType, Roles(m), m.sync_callback = "handle_recovery_sync",
           m.init_retry = FALSE
    PROVE  Kept(m, StepFailedTwice(m))
<1>1. m.init_command # 0
  BY DEF Roles, Stepped
<1>2. /\ m.init_command \in {1, 2, 3, 16, 17, 18, 19, 32, 33, 34, 35}
      /\ m.init_command \in {16, 17, 18, 19} => "RECOVERY_PENDING" \in m.status_flags
      /\ m.init_command \in {1, 2, 3, 16, 17, 18, 19} => m.ready_callback = "none"
      /\ m.init_command \in {32, 33, 34, 35} => "RECOVERY_PENDING" \notin m.status_flags
      /\ m.init_command \in {32, 34, 35} =>
           DiscUnknown \subseteq m.status_flags /\ m.ready_callback # "verify_disc"
  BY <1>1, StepFacts
<1>3. \A command, location : Kept(m, CdControlF(m, command, location))
  BY CdControlFRoles DEF Kept
<1>4. CASE m.init_command = STEP_SET_FILTER
  <2>1. StepFailedTwice(m) = EndStepAt(m, RECONF_SET_MODE)
    BY <1>4, StepNumbers DEF StepFailedTwice
  <2>2. RECONF_SET_MODE \in InitStates /\ RECONF_SET_MODE \in 0..3
    BY StateValues, StateNumbers
  <2>3. "RECOVERY_PENDING" \in m.status_flags /\ m.ready_callback # "verify_disc"
    BY <1>2, <1>4, StepNumbers
  <2> QED BY <2>1, <2>2, <2>3, EndStepAtKept
<1>5. CASE m.init_command \in {RECOVERY_RETRY_READ, RECOVERY_SET_MODE, RECOVERY_COMPLETE}
  <2>1. StepFailedTwice(m) \in {EndStepAt(m, READ_DISC_ID), EndStepAt(m, SET_MODE)}
    BY <1>5, StepNumbers DEF StepFailedTwice
  <2>2. READ_DISC_ID \in InitStates /\ SET_MODE \in InitStates
    BY StateValues
  <2>3. /\ DiscUnknown \subseteq m.status_flags /\ m.ready_callback # "verify_disc"
        /\ "RECOVERY_PENDING" \notin m.status_flags
    BY <1>2, <1>5, StepNumbers
  <2> QED BY <2>1, <2>2, <2>3, EndStepAtKept
<1>6. CASE m.init_command \in {1, 2, 3, 17, 18, 19, 33}
  <2>1. StepFailedTwice(m) \in
          {CdControlF(m, "Setmode", 0), CdControlF(m, "Setfilter", 0), CdControlF(m, "Demute", 0),
           CdControlF(m, "Pause", 0), CdControlF(m, "ReadN", ValidationLocation)}
    BY <1>6, StepNumbers DEF StepFailedTwice
  <2> QED BY <1>3, <2>1
<1> QED BY <1>2, <1>4, <1>5, <1>6, StepNumbers

LEMMA NoStepDone ==
    ASSUME NEW m, m.init_command = 0
    PROVE  StepDone(m) = m
BY DEF StepDone, PAUSE, AUDIO_PAUSE, RESTORE_MODE, STEP_SET_FILTER, STEP_DEMUTE, STEP_PAUSE,
       STEP_COMPLETE, RECOVERY_SET_MODE, RECOVERY_READ_DISC_ID, RECOVERY_RETRY_READ,
       RECOVERY_COMPLETE

(* The drive rejects the disc: both slots are emptied and the step is over. *)
LEMMA RejectedKept ==
    ASSUME NEW m \in MachineType, Roles(m), m.sync_callback = "handle_recovery_sync",
           m.init_command = RECOVERY_READ_DISC_ID, NEW retry \in BOOLEAN
    PROVE  LET refused == [Disarm(m) EXCEPT !.init_state = ERROR_PAUSE,
                                            !.init_command = 0,
                                            !.init_retry = FALSE,
                                            !.status_flags = @ \ {"NO_DISC"}]
               n == [refused EXCEPT !.init_retry = retry]
           IN /\ refused.init_retry = FALSE
              /\ n \in MachineType /\ Kept(m, n)
              /\ Kept(m, CdControlF(n, "Nop", 0))
              /\ n.init_command = 0
<1> DEFINE off == Disarm(m)
           refused == [off EXCEPT !.init_state = ERROR_PAUSE,
                                  !.init_command = 0,
                                  !.init_retry = FALSE,
                                  !.status_flags = @ \ {"NO_DISC"}]
           n == [refused EXCEPT !.init_retry = retry]
           p == CdControlF(n, "Nop", 0)
<1>1. off \in MachineType
  BY DisarmType
<1>2. /\ SameQueue(m, off) /\ SameMode(m, off) /\ SameLine(m, off)
      /\ off.sync_callback = "none" /\ off.ready_callback = "none"
      /\ off.current_command = m.current_command
  BY DEF Disarm, SameQueue, SameMode, SameLine, MachineType
<1> HIDE DEF off
<1>3. refused \in MachineType
  <2>1. off.status_flags \ {"NO_DISC"} \in SUBSET Flags
    BY <1>1 DEF MachineType
  <2> QED BY <1>1, <2>1, StateValues, StepValues, ZenonT(30) DEF MachineType
<1>4. /\ SameQueue(m, refused) /\ SameLine(m, refused)
      /\ refused.sync_callback = "none" /\ refused.ready_callback = "none"
      /\ refused.current_command = m.current_command
      /\ refused.init_command = 0 /\ refused.init_retry = FALSE
      /\ refused.init_state = ERROR_PAUSE
      /\ refused.audio_enabled = m.audio_enabled
      /\ refused.data_ready_pending = m.data_ready_pending
      /\ refused.status_flags = m.status_flags \ {"NO_DISC"}
  BY <1>1, <1>2 DEF SameQueue, SameMode, SameLine, MachineType
<1> HIDE DEF refused
<1>5. n \in MachineType
  BY <1>3, FieldUpdates
<1>6. /\ SameQueue(m, n) /\ SameLine(m, n)
      /\ n.sync_callback = "none" /\ n.ready_callback = "none"
      /\ n.current_command = m.current_command
      /\ n.init_command = 0 /\ n.init_retry = retry
      /\ n.init_state = ERROR_PAUSE
      /\ n.audio_enabled = m.audio_enabled
      /\ n.data_ready_pending = m.data_ready_pending
      /\ n.status_flags = m.status_flags \ {"NO_DISC"}
  BY <1>3, <1>4 DEF SameQueue, SameLine, MachineType
<1> HIDE DEF n
<1>7. /\ "RECOVERY_PENDING" \notin m.status_flags /\ "INVALID_DISC" \in m.status_flags
      /\ "RECOVERY_PENDING" \notin n.status_flags /\ "INVALID_DISC" \in n.status_flags
  BY <1>6, StepNumbers DEF Roles, Recording
<1>8. DataQueued(n)
  <2>1. n.audio_enabled = FALSE /\ n.data_ready_pending = FALSE
    BY <1>6 DEF Roles, DataQueued
  <2> QED BY <1>6, <2>1, DataQueuedSame DEF Roles
<1>9. IsEmpty(n) <=> IsEmpty(m)
  BY <1>6, QueueSame
<1>10. Commanding(n) /\ Receiving(n) /\ Stepped(n)
  BY <1>6, <1>9 DEF Roles, Commanding, Receiving, Stepped
<1>11. Exclusive(n) /\ Recording(n) /\ Reconfigures(n)
  BY <1>6, <1>7, StepNumbers, StateNumbers DEF Exclusive, Recording, Reconfigures
<1>12. Strayed(n)
  BY <1>6, <1>7 DEF Strayed
<1>13. Roles(n)
  BY <1>8, <1>10, <1>11, <1>12 DEF Roles
<1>14. Follows(m, n)
  BY <1>6, <1>7, <1>9 DEF Follows, SameLine, Spare
<1>15. Roles(p) /\ SameView(n, p) /\ (n.issued = "None" => p.waiting = n.waiting)
  BY <1>5, <1>13, CdControlFRoles, CdControlFView
<1> HIDE DEF p
<1>16. Follows(m, p)
  <2>1. IsEmpty(p) <=> IsEmpty(m)
    BY <1>9, <1>15, QueueSame DEF SameView
  <2> QED BY <1>6, <1>7, <1>15, <2>1 DEF Follows, SameLine, SameView, SameMode, Spare
<1> QED BY <1>4, <1>5, <1>6, <1>13, <1>14, <1>15, <1>16 DEF Kept, n, p, refused, off

LEMMA KeptThrough ==
    ASSUME NEW m, NEW p, NEW n, SameQueue(m, p), SameLine(m, p),
           p.current_command = m.current_command, p.status_flags = m.status_flags,
           ~Astray(p), Kept(p, n)
    PROVE  Kept(m, n)
<1>1. (Spare(p) <=> Spare(m)) /\ (IsEmpty(p) <=> IsEmpty(m))
  BY QueueSame
<1> QED BY <1>1 DEF Kept, Follows, SameLine

LEMMA HandleRecoverySyncKept ==
    ASSUME NEW m \in MachineType, Roles(m), m.sync_callback = "handle_recovery_sync",
           NEW complete \in BOOLEAN, NEW shellOpen \in BOOLEAN, NEW rejected \in BOOLEAN
    PROVE  Kept(m, HandleRecoverySync(m, complete, shellOpen, rejected))
<1> DEFINE seen == [m EXCEPT !.sync_complete = TRUE]
           refused == [Disarm(seen) EXCEPT !.init_state = ERROR_PAUSE,
                                           !.init_command = 0,
                                           !.init_retry = FALSE,
                                           !.status_flags = @ \ {"NO_DISC"}]
           checked == IF m.init_command = RECOVERY_READ_DISC_ID /\ rejected THEN refused ELSE seen
           off(retry) == [refused EXCEPT !.init_retry = retry]
           heard(retry) == [seen EXCEPT !.init_retry = retry]
           lidOpened == m.init_retry /\ "RECOVERY_PENDING" \notin m.status_flags /\ shellOpen
           n == HandleRecoverySync(m, complete, shellOpen, rejected)
<1>1. n = IF lidOpened THEN HandleSyncError(seen)
          ELSE IF complete THEN StepDone([checked EXCEPT !.init_retry = FALSE])
          ELSE IF checked.init_retry THEN StepFailedTwice([checked EXCEPT !.init_retry = FALSE])
          ELSE CdControlF([checked EXCEPT !.init_retry = TRUE], "Nop", 0)
  BY DEF HandleRecoverySync
<1>2. seen \in MachineType /\ SameView(m, seen) /\ SameLine(m, seen)
  BY FieldUpdates, OtherFields
<1>3. Roles(seen) /\ seen.sync_callback = "handle_recovery_sync"
      /\ seen.init_command = m.init_command
  BY <1>2, ViewRoles DEF SameView, SameSlots, SameStep
<1>4. "RECOVERY_PENDING" \notin m.status_flags => Kept(seen, HandleSyncError(seen))
  BY <1>2, <1>3, HandleSyncErrorRoles DEF Roles, SameView, SameMode
<1>5. m.init_command = RECOVERY_READ_DISC_ID =>
        \A retry \in BOOLEAN :
            /\ refused.init_retry = FALSE
            /\ off(retry) \in MachineType /\ Kept(seen, off(retry))
            /\ Kept(seen, CdControlF(off(retry), "Nop", 0))
            /\ off(retry).init_command = 0
  BY <1>2, <1>3, RejectedKept
<1>6. ASSUME NEW retry \in BOOLEAN
      PROVE  /\ heard(retry) \in MachineType /\ Kept(seen, heard(retry))
             /\ SameQueue(seen, heard(retry)) /\ SameMode(seen, heard(retry))
             /\ SameSlots(seen, heard(retry)) /\ SameLine(seen, heard(retry))
             /\ heard(retry).init_command = seen.init_command /\ heard(retry).init_retry = retry
  BY <1>2, <1>3, RetryKept
<1> HIDE DEF n, seen, refused, off, heard
<1>7. CASE m.init_command = RECOVERY_READ_DISC_ID /\ rejected /\ ~lidOpened
  <2>1. refused.init_retry = FALSE
    BY <1>5, <1>7
  <2>2. StepDone(off(FALSE)) = off(FALSE)
    <3>1. off(FALSE).init_command = 0
      BY <1>5, <1>7
    <3> QED BY <3>1, NoStepDone
  <2>3. n = IF complete THEN StepDone(off(FALSE)) ELSE CdControlF(off(TRUE), "Nop", 0)
    BY <1>1, <1>7, <2>1 DEF off
  <2>4. Kept(seen, n)
    BY <1>5, <1>7, <2>2, <2>3
  <2> QED BY <1>2, <2>4, KeptFrom DEF n
<1>8. CASE ~(m.init_command = RECOVERY_READ_DISC_ID /\ rejected) /\ ~lidOpened
  <2>1. n = IF complete THEN StepDone(heard(FALSE))
            ELSE IF seen.init_retry THEN StepFailedTwice(heard(FALSE))
            ELSE CdControlF(heard(TRUE), "Nop", 0)
    BY <1>1, <1>8 DEF heard
  <2>2. ASSUME NEW retry \in BOOLEAN
        PROVE  /\ heard(retry) \in MachineType /\ Roles(heard(retry))
               /\ heard(retry).sync_callback = "handle_recovery_sync"
               /\ heard(retry).init_retry = retry
               /\ SameQueue(seen, heard(retry)) /\ SameLine(seen, heard(retry))
               /\ heard(retry).current_command = seen.current_command
               /\ heard(retry).status_flags = seen.status_flags
               /\ ~Astray(heard(retry))
    BY <1>3, <1>6 DEF Kept, SameSlots, SameMode, Astray, Roles, Stepped
  <2>3. Kept(heard(FALSE), StepDone(heard(FALSE)))
    BY <2>2, StepDoneKept
  <2>4. Kept(heard(FALSE), StepFailedTwice(heard(FALSE)))
    BY <2>2, StepFailedTwiceKept
  <2>5. Kept(heard(TRUE), CdControlF(heard(TRUE), "Nop", 0))
    BY <2>2, CdControlFRoles DEF Kept
  <2>6. Kept(seen, n)
    BY <2>1, <2>2, <2>3, <2>4, <2>5, KeptThrough
  <2> QED BY <1>2, <2>6, KeptFrom DEF n
<1>9. CASE lidOpened
  <2>1. Kept(seen, n)
    BY <1>1, <1>4, <1>9
  <2> QED BY <1>2, <2>1, KeptFrom DEF n
<1> QED BY <1>7, <1>8, <1>9

-----------------------------------------------------------------------------
(* The ready callback of normal operation. *)

LEMMA StoreSectorView ==
    ASSUME NEW m \in MachineType, NEW sink, NEW offset
    PROVE  LET n == StoreSector(m, sink, offset)
           IN SameView(m, n) /\ SameLine(m, n)
<1>1. CASE sink = NULL
  BY <1>1 DEF StoreSector, SameView, SameQueue, SameMode, SameStep, SameSlots, SameLine, MachineType
<1>2. CASE sink # NULL
  BY <1>2 DEF StoreSector, SameView, SameQueue, SameMode, SameStep, SameSlots, SameLine, MachineType
<1> QED BY <1>1, <1>2

(* The pause after the last transfer has both slots and the command. *)
LEMMA PauseDriveRoles ==
    ASSUME NEW m \in MachineType, Working(m)
    PROVE  LET n == PauseDrive(m, PAUSE)
           IN /\ Roles(n) /\ ~Astray(n)
              /\ n.status_flags = m.status_flags
              /\ m.issued = "None" => n.waiting = m.waiting
<1> DEFINE p == [m EXCEPT !.init_command = PAUSE,
                          !.init_retry = FALSE,
                          !.sync_callback = "handle_recovery_sync",
                          !.ready_callback = "none",
                          !.current_command = "None",
                          !.retry_counter = 0]
           n == CdControlF(p, "Pause", 0)
<1>1. PauseDrive(m, PAUSE) = n
  BY DEF PauseDrive
<1>2. p \in MachineType
  BY CommandValues, StepValues, ZenonT(30) DEF MachineType
<1>3. /\ SameQueue(m, p) /\ SameMode(m, p) /\ SameLine(m, p)
      /\ p.init_command = PAUSE /\ p.init_retry = FALSE
      /\ p.sync_callback = "handle_recovery_sync" /\ p.ready_callback = "none"
      /\ p.current_command = "None"
  BY DEF SameQueue, SameMode, SameLine, MachineType
<1> HIDE DEF p
<1>4. DataQueued(p)
  <2>1. p.audio_enabled = FALSE /\ p.data_ready_pending = FALSE
    BY <1>3 DEF Working, DataQueued, SameMode
  <2> QED BY <1>3, <2>1, DataQueuedSame DEF Working
<1>5. Commanding(p) /\ Receiving(p)
  BY <1>3 DEF Commanding, Receiving
<1>6. Exclusive(p) /\ Stepped(p)
  BY <1>3, StepNumbers DEF Exclusive, Stepped
<1>7. Recording(p)
  BY <1>3, StepNumbers DEF Working, SameMode, Recording
<1>8. ~Astray(p) /\ Strayed(p)
  BY <1>3 DEF Strayed, Astray
<1>9. Reconfigures(p)
  BY <1>3, StepNumbers DEF Working, SameMode, Reconfigures
<1>10. Roles(p)
  BY <1>4, <1>5, <1>6, <1>7, <1>8, <1>9 DEF Roles
<1>11. Roles(n) /\ SameView(p, n) /\ (p.issued = "None" => n.waiting = p.waiting)
  BY <1>2, <1>10, CdControlFRoles, CdControlFView
<1> HIDE DEF n
<1> QED BY <1>1, <1>3, <1>8, <1>11 DEF SameView, SameMode, SameLine, SameStep, Astray

(* The entry is retired; the next one is dispatched or the drive paused. *)
LEMMA RetireReadKept ==
    ASSUME NEW m \in MachineType, Working(m), ~IsEmpty(m), m.current_command # "None"
    PROVE  Kept(m, RetireRead(m, FALSE))
<1> DEFINE retired == Retire(m)
<1>1. DataQueued(m)
  BY DEF Working
<1>2. /\ retired \in MachineType /\ DataQueued(retired)
      /\ SameMode(m, retired) /\ SameStep(m, retired) /\ SameSlots(m, retired)
      /\ SameLine(m, retired)
      /\ Spare(m) => ~IsEmpty(retired)
  BY <1>1, RetireType, RetireFields
<1>3. RetireRead(m, FALSE) =
        IF IsEmpty(retired) THEN PauseDrive(retired, PAUSE)
        ELSE RunCommand(retired, HeadItem(retired).command, "COMMAND_THEN_READ")
  BY DEF RetireRead
<1> HIDE DEF retired
<1>4. Working(retired)
  BY <1>2, WorkingSame DEF SameSlots
<1>5. CASE IsEmpty(retired)
  <2> DEFINE n == PauseDrive(retired, PAUSE)
  <2>1. /\ Roles(n) /\ ~Astray(n)
        /\ n.status_flags = retired.status_flags
        /\ retired.issued = "None" => n.waiting = retired.waiting
    BY <1>2, <1>4, PauseDriveRoles
  <2> HIDE DEF n
  <2>2. Follows(m, n)
    BY <1>2, <1>5, <2>1 DEF Follows, SameMode, SameLine
  <2> QED BY <1>3, <1>5, <2>1, <2>2 DEF Kept, n
<1>6. CASE ~IsEmpty(retired)
  <2> DEFINE n == RunCommand(retired, HeadItem(retired).command, "COMMAND_THEN_READ")
  <2>1. /\ Roles(n) /\ ~IsEmpty(n) /\ ~Astray(n)
        /\ n.status_flags = retired.status_flags
        /\ retired.issued = "None" => n.waiting = retired.waiting
    BY <1>2, <1>4, <1>6, RunCommandRoles
  <2> HIDE DEF n
  <2>2. Kept(m, n)
    BY <1>2, <2>1, DispatchedKept DEF SameMode, SameLine
  <2> QED BY <1>3, <1>6, <2>2 DEF n
<1> QED BY <1>5, <1>6

LEMMA WorkingView ==
    ASSUME NEW m, NEW n, SameView(m, n), Working(m)
    PROVE  Working(n) /\ (IsEmpty(n) <=> IsEmpty(m)) /\ n.current_command = m.current_command
<1>1. DataQueued(n)
  <2>1. n.audio_enabled = FALSE /\ n.data_ready_pending = FALSE
    BY DEF SameView, SameMode, Working, DataQueued
  <2> QED BY <2>1, DataQueuedSame DEF SameView, Working
<1>2. Working(n)
  BY <1>1, WorkingSame DEF SameView, SameSlots
<1> QED BY <1>2, QueueSame DEF SameView, SameSlots

LEMMA ProcessDataSectorKept ==
    ASSUME NEW m \in MachineType, Roles(m), m.sync_callback = "complete_command",
           NEW accept \in BOOLEAN
    PROVE  Kept(m, ProcessDataSector(m, FALSE, accept))
<1> DEFINE direct == m.transfer_callback = NULL
           stored == IF direct THEN StoreSector(m, m.write_ptr.buffer, m.write_ptr.offset)
                     ELSE StoreSector(m, m.transfer_callback, m.total_data - m.read_remaining)
           again == CdControlF(m, m.current_command, m.current_location)
           offset == IF direct THEN stored.write_ptr.offset + 1 ELSE stored.write_ptr.offset
           more == [stored EXCEPT !.current_location = @ + 1,
                                  !.read_remaining = @ - 1,
                                  !.write_ptr.offset = offset]
<1>1. ProcessDataSector(m, FALSE, accept) =
        IF ~direct /\ ~accept THEN again
        ELSE IF MoreToCome(m) THEN more ELSE RetireRead(stored, FALSE)
  BY DEF ProcessDataSector
<1>2. Kept(m, again)
  BY CdControlFRoles DEF Kept
<1>3. stored \in MachineType /\ SameView(m, stored) /\ SameLine(m, stored)
  BY StoreSectorType, StoreSectorView
<1> HIDE DEF stored, direct, again, offset
<1>4. SameView(stored, more) /\ SameLine(stored, more)
  BY <1>3 DEF SameView, SameQueue, SameMode, SameStep, SameSlots, SameLine, MachineType
<1> HIDE DEF more
<1>5. Roles(stored)
  BY <1>3, ViewRoles
<1>6. Kept(stored, more)
  BY <1>4, <1>5, ViewRoles, FollowsView DEF SameLine, Kept
<1>7. stored.sync_callback = "complete_command"
  BY <1>3 DEF SameView, SameSlots
<1>8. Kept(stored, RetireRead(stored, FALSE))
  BY <1>3, <1>5, <1>7, WorkingFrom, RetireReadKept
<1>9. Kept(m, more) /\ Kept(m, RetireRead(stored, FALSE))
  BY <1>3, <1>6, <1>8, KeptFrom
<1> QED BY <1>1, <1>2, <1>9

LEMMA ProcessSectorKept ==
    ASSUME NEW m \in MachineType, Roles(m), m.sync_callback = "complete_command",
           NEW accept \in BOOLEAN
    PROVE  Kept(m, ProcessSector(m, FALSE, accept))
<1> DEFINE fresh == [m EXCEPT !.retry_count = 0,
                              !.retry_exhausted = FALSE,
                              !.data_ready_pending = FALSE]
<1>1. m.audio_enabled = FALSE /\ m.data_ready_pending = FALSE
  BY DEF Roles, DataQueued
<1>2. ProcessSector(m, FALSE, accept) = ProcessDataSector(fresh, FALSE, accept)
  BY <1>1 DEF ProcessSector
<1>3. fresh \in MachineType
  BY NumberValues, ZenonT(30) DEF MachineType
<1>4. SameView(m, fresh) /\ SameLine(m, fresh)
  BY <1>1 DEF SameView, SameQueue, SameMode, SameStep, SameSlots, SameLine, MachineType
<1> HIDE DEF fresh
<1>5. Roles(fresh) /\ fresh.sync_callback = "complete_command"
  BY <1>4, ViewRoles DEF SameView, SameSlots
<1>6. Kept(fresh, ProcessDataSector(fresh, FALSE, accept))
  BY <1>3, <1>5, ProcessDataSectorKept
<1> QED BY <1>2, <1>4, <1>6, KeptFrom

(* A machine that differs from a working one in its command, now a Nop, alone. *)
LEMMA NopFromWorking ==
    ASSUME NEW m, NEW n, Working(m), ~IsEmpty(m),
           m.ready_callback = "handle_ready_intr" => HeadItem(m).command = "ReadN",
           SameQueue(m, n), SameMode(m, n), SameStep(m, n),
           m.issued = "None" => n.waiting = m.waiting,
           n.sync_callback = m.sync_callback, n.ready_callback \in {m.ready_callback, "none"},
           n.current_command = "Nop"
    PROVE  Kept(m, n)
<1>1. ~IsEmpty(n) /\ HeadItem(n) = HeadItem(m)
  BY QueueSame
<1>2. DataQueued(n)
  <2>1. n.audio_enabled = FALSE /\ n.data_ready_pending = FALSE
    BY DEF Working, DataQueued, SameMode
  <2> QED BY <2>1, DataQueuedSame DEF Working
<1>3. Working(n)
  BY <1>2, WorkingSame
<1>4. Roles(n) /\ ~Astray(n)
  BY <1>1, <1>3, WorkingRoles
<1> QED BY <1>1, <1>4, DispatchedKept DEF SameMode

(* With the ready callback gone as well as before: the two ways a retry ends. *)
LEMMA RetrySectorKept ==
    ASSUME NEW m \in MachineType, Roles(m), m.sync_callback = "complete_command",
           m.ready_callback = "handle_ready_intr"
    PROVE  /\ Kept(m, RetrySector(m))
           /\ GivesUp(m) => Kept(m, [RetrySector(m) EXCEPT !.ready_callback = "none"])
<1>1. Working(m) /\ ~IsEmpty(m) /\ HeadItem(m).command = "ReadN"
  BY WorkingFrom DEF Roles, Receiving
<1>2. CASE GivesUp(m)
  <2> DEFINE resume == Resumable(m)
             given == [m EXCEPT !.retry_exhausted = TRUE,
                                !.retry_count = 0,
                                !.playback_state = resume,
                                !.current_command = "Nop"]
             n == CdControlF(given, "Nop", 0)
             off == [n EXCEPT !.ready_callback = "none"]
  <2>1. RetrySector(m) = n
    BY <1>2 DEF RetrySector, GiveUpSector
  <2>2. given \in MachineType
    <3>1. resume \in BOOLEAN
      BY DEF Resumable
    <3> HIDE DEF resume
    <3> QED BY <3>1, NumberValues, CommandValues, ZenonT(30) DEF MachineType
  <2> HIDE DEF resume
  <2>3. /\ SameQueue(m, given) /\ SameMode(m, given) /\ SameStep(m, given) /\ SameLine(m, given)
        /\ given.sync_callback = m.sync_callback /\ given.ready_callback = m.ready_callback
        /\ given.current_command = "Nop"
    BY DEF SameQueue, SameMode, SameStep, SameLine, MachineType
  <2> HIDE DEF given
  <2>4. SameView(given, n) /\ (given.issued = "None" => n.waiting = given.waiting)
    BY <2>2, CdControlFView
  <2>5. n \in MachineType
    BY <2>2, CdControlFType, CommandValues, NumberValues
  <2> HIDE DEF n
  <2>6. /\ SameQueue(m, n) /\ SameMode(m, n) /\ SameStep(m, n)
        /\ m.issued = "None" => n.waiting = m.waiting
        /\ n.sync_callback = m.sync_callback /\ n.ready_callback = m.ready_callback
        /\ n.current_command = "Nop"
    BY <2>3, <2>4
       DEF SameView, SameQueue, SameMode, SameStep, SameSlots, SameLine
  <2>7. /\ SameQueue(m, off) /\ SameMode(m, off) /\ SameStep(m, off)
        /\ m.issued = "None" => off.waiting = m.waiting
        /\ off.sync_callback = m.sync_callback /\ off.ready_callback = "none"
        /\ off.current_command = "Nop"
    BY <2>5, <2>6 DEF SameQueue, SameMode, SameStep, MachineType
  <2> HIDE DEF off
  <2>8. Kept(m, n)
    BY <1>1, <2>6, NopFromWorking
  <2>9. Kept(m, off)
    BY <1>1, <2>7, NopFromWorking
  <2> QED BY <2>1, <2>8, <2>9 DEF off
<1>3. CASE ~GivesUp(m)
  <2> DEFINE once == [m EXCEPT !.retry_count = @ + 1]
  <2>1. RetrySector(m) = CdControlF(once, m.current_command, m.current_location)
    BY <1>3 DEF RetrySector
  <2>2. once \in MachineType
    BY <1>3, RetryCountType
  <2>3. SameView(m, once) /\ SameLine(m, once)
    BY OtherFields
  <2> HIDE DEF once
  <2>4. Roles(once)
    BY <2>3, ViewRoles
  <2>5. Kept(once, RetrySector(m))
    BY <2>1, <2>2, <2>4, CdControlFRoles DEF Kept
  <2> QED BY <1>3, <2>3, <2>5, KeptFrom
<1> QED BY <1>2, <1>3

LEMMA HandleReadyIntrKept ==
    ASSUME NEW m \in MachineType, Roles(m), m.ready_callback = "handle_ready_intr",
           NEW dataReady \in BOOLEAN, NEW accept \in BOOLEAN, NEW decoding
    PROVE  Kept(m, HandleReadyIntr(m, dataReady, accept, decoding))
<1> DEFINE seen == [m EXCEPT !.sync_complete = TRUE]
           n == HandleReadyIntr(m, dataReady, accept, decoding)
<1>1. m.audio_enabled = FALSE /\ m.sync_callback = "complete_command"
  BY DEF Roles, DataQueued, Receiving
<1>2. n = HandleReadyData(seen, dataReady, accept)
  BY <1>1 DEF HandleReadyIntr
<1>3. seen \in MachineType /\ SameView(m, seen) /\ SameLine(m, seen)
  BY FieldUpdates, OtherFields
<1> HIDE DEF seen, n
<1>4. Roles(seen) /\ seen.sync_callback = "complete_command"
      /\ seen.ready_callback = "handle_ready_intr"
  BY <1>1, <1>3, ViewRoles DEF SameView, SameSlots
<1>5. \/ n = ProcessSector(seen, FALSE, accept)
      \/ GivesUp(seen) /\ n = [RetrySector(seen) EXCEPT !.ready_callback = "none"]
      \/ n = RetrySector(seen)
  BY <1>2 DEF HandleReadyData
<1>6. Kept(seen, ProcessSector(seen, FALSE, accept))
  BY <1>3, <1>4, ProcessSectorKept
<1>7. Kept(seen, n)
  BY <1>3, <1>4, <1>5, <1>6, RetrySectorKept
<1> QED BY <1>3, <1>7, KeptFrom DEF n

-----------------------------------------------------------------------------
(* The ready callback of recovery. *)

(* A step of recovery goes out with its handlers. *)
LEMMA AdvancedRoles ==
    ASSUME NEW n, DataQueued(n), n.sync_callback = "handle_recovery_sync",
           n.ready_callback \in {"none", "verify_disc"}, n.init_command \in RecoverySteps,
           n.current_command # "None" => ~IsEmpty(n),
           n.init_state \in Started, "RECOVERY_PENDING" \notin n.status_flags,
           DiscUnknown \subseteq n.status_flags,
           n.ready_callback = "verify_disc" =>
             n.init_state = WAIT_FOR_READ /\ n.init_command = RECOVERY_READ_DISC_ID
    PROVE  Roles(n) /\ ~Astray(n)
<1>1. Commanding(n) /\ Receiving(n)
  BY DEF Commanding, Receiving
<1>2. Exclusive(n) /\ Stepped(n)
  BY StepNumbers DEF Exclusive, Stepped
<1>3. Recording(n)
  BY DEF Recording, DiscUnknown
<1>4. ~Astray(n) /\ Strayed(n)
  BY StepNumbers DEF Strayed, Astray
<1>5. Reconfigures(n)
  BY StepNumbers DEF Reconfigures
<1> QED BY <1>1, <1>2, <1>3, <1>4, <1>5 DEF Roles

LEMMA VerifyDiscKept ==
    ASSUME NEW m \in MachineType, Roles(m), m.ready_callback = "verify_disc",
           NEW dataReady \in BOOLEAN, NEW genuine \in BOOLEAN
    PROVE  Kept(m, VerifyDisc(m, dataReady, genuine))
<1> DEFINE seen == [m EXCEPT !.sync_complete = TRUE, !.ready_callback = "none"]
           at(step) == [seen EXCEPT !.init_command = step,
                                    !.init_retry = FALSE,
                                    !.sync_callback = "handle_recovery_sync"]
           wrong == [seen EXCEPT !.init_state = ERROR_PAUSE, !.status_flags = @ \ {"NO_DISC"}]
           n == VerifyDisc(m, dataReady, genuine)
<1>1. n \in {CdControlF(at(RECOVERY_RETRY_READ), "Pause", 0),
             CdControlF(at(RECOVERY_COMPLETE), "Setmode", 0), wrong}
  BY DEF VerifyDisc
<1>2. seen \in MachineType
  BY DEF MachineType
<1>3. /\ SameQueue(m, seen) /\ SameMode(m, seen) /\ SameStep(m, seen) /\ SameLine(m, seen)
      /\ seen.sync_callback = m.sync_callback /\ seen.ready_callback = "none"
      /\ seen.current_command = m.current_command
  BY DEF SameQueue, SameMode, SameStep, SameLine, MachineType
<1> HIDE DEF seen
<1>4. /\ m.init_state = WAIT_FOR_READ /\ "RECOVERY_PENDING" \notin m.status_flags
      /\ m.init_command \in {0, RECOVERY_READ_DISC_ID}
      /\ DiscUnknown \subseteq m.status_flags
  BY StateNumbers DEF Roles, Recording
<1>5. DataQueued(m) /\ Commanding(m) /\ Stepped(m) /\ Strayed(m)
  BY DEF Roles
<1>6. ASSUME NEW step \in RecoverySteps, NEW command
      PROVE  Kept(m, CdControlF(at(step), command, 0))
  <2> DEFINE p == at(step)
             q == CdControlF(p, command, 0)
  <2>1. /\ SameQueue(m, p) /\ SameMode(m, p) /\ SameLine(m, p)
        /\ p.sync_callback = "handle_recovery_sync" /\ p.ready_callback = "none"
        /\ p.current_command = m.current_command
        /\ p.init_command = step
    BY <1>2, <1>3 DEF SameQueue, SameMode, SameLine, MachineType
  <2>2. p \in MachineType
    <3>1. step \in InitCommands
      BY StepNumbers DEF InitCommands
    <3> QED BY <1>2, <3>1, ZenonT(30) DEF MachineType
  <2> HIDE DEF p
  <2>3. IsEmpty(p) <=> IsEmpty(m)
    BY <2>1, QueueSame
  <2>4. DataQueued(p)
    <3>1. p.audio_enabled = FALSE /\ p.data_ready_pending = FALSE
      BY <1>5, <2>1 DEF DataQueued, SameMode
    <3> QED BY <1>5, <2>1, <3>1, DataQueuedSame
  <2>5. Roles(p) /\ ~Astray(p)
    <3>1. /\ p.init_state \in Started /\ "RECOVERY_PENDING" \notin p.status_flags
          /\ DiscUnknown \subseteq p.status_flags
          /\ p.current_command # "None" => ~IsEmpty(p)
      BY <1>4, <1>5, <2>1, <2>3 DEF SameMode, Started, Commanding
    <3> QED BY <2>1, <2>4, <3>1, AdvancedRoles
  <2>6. Roles(q) /\ SameView(p, q) /\ (p.issued = "None" => q.waiting = p.waiting)
    BY <2>2, <2>5, CdControlFRoles, CdControlFView
  <2> HIDE DEF q
  <2>7. Follows(m, q)
    <3>1. IsEmpty(q) <=> IsEmpty(m)
      BY <2>3, <2>6, QueueSame DEF SameView
    <3> QED BY <2>1, <2>5, <2>6, <3>1
            DEF Follows, SameView, SameMode, SameLine, SameStep, Astray, Spare
  <2> QED BY <2>6, <2>7 DEF Kept, p, q
<1>7. Kept(m, wrong)
  <2>1. /\ SameQueue(m, wrong) /\ SameStep(m, wrong) /\ SameLine(m, wrong)
        /\ wrong.audio_enabled = m.audio_enabled
        /\ wrong.data_ready_pending = m.data_ready_pending
        /\ wrong.status_flags = m.status_flags \ {"NO_DISC"}
        /\ wrong.init_state = ERROR_PAUSE
        /\ wrong.sync_callback = m.sync_callback /\ wrong.ready_callback = "none"
        /\ wrong.current_command = m.current_command
    BY <1>2, <1>3 DEF SameQueue, SameMode, SameStep, SameLine, MachineType
  <2> HIDE DEF wrong
  <2>2. IsEmpty(wrong) <=> IsEmpty(m)
    BY <2>1, QueueSame
  <2>3. DataQueued(wrong)
    <3>1. wrong.audio_enabled = FALSE /\ wrong.data_ready_pending = FALSE
      BY <1>5, <2>1 DEF DataQueued
    <3> QED BY <1>5, <2>1, <3>1, DataQueuedSame
  <2>4. "RECOVERY_PENDING" \notin wrong.status_flags /\ "INVALID_DISC" \in wrong.status_flags
    BY <1>4, <2>1 DEF DiscUnknown
  <2>5. Commanding(wrong) /\ Receiving(wrong) /\ Stepped(wrong)
    BY <1>5, <2>1, <2>2 DEF Commanding, Receiving, Stepped, SameStep
  <2>6. Exclusive(wrong) /\ Recording(wrong)
    BY <1>4, <2>1, <2>4, StepNumbers, StateNumbers DEF Exclusive, Recording, SameStep
  <2>7. Strayed(wrong)
    BY <2>1, <2>4 DEF Strayed
  <2>8. Reconfigures(wrong)
    BY <1>4, <2>1, <2>4, StepNumbers DEF Reconfigures, SameStep
  <2>9. Roles(wrong)
    BY <2>3, <2>5, <2>6, <2>7, <2>8 DEF Roles
  <2>10. Follows(m, wrong)
    BY <2>1, <2>2, <2>4 DEF Follows, SameLine, SameStep, Astray, Spare
  <2> QED BY <2>9, <2>10 DEF Kept
<1> HIDE DEF at, wrong
<1>8. Kept(m, CdControlF(at(RECOVERY_RETRY_READ), "Pause", 0))
  BY <1>6, StepNumbers
<1>9. Kept(m, CdControlF(at(RECOVERY_COMPLETE), "Setmode", 0))
  BY <1>6, StepNumbers
<1> QED BY <1>1, <1>7, <1>8, <1>9 DEF n

-----------------------------------------------------------------------------
(* The two callbacks. *)

LEMMA SyncCallbackKept ==
    ASSUME NEW m \in MachineType, Roles(m), NEW complete \in BOOLEAN
    PROVE  Kept(m, SyncCallback(m, complete))
<1>1. Kept(m, m)
  BY DEF Kept, Follows, Spare
<1>2. ShellOpen \in BOOLEAN /\ Rejected \in BOOLEAN
  BY DEF ShellOpen, Rejected
<1>3. m.sync_callback = "complete_command" => Kept(m, CompleteCommand(m, complete, ShellOpen))
  BY <1>2, CompleteCommandKept
<1>4. m.sync_callback = "handle_recovery_sync" =>
        Kept(m, HandleRecoverySync(m, complete, ShellOpen, Rejected))
  BY <1>2, HandleRecoverySyncKept
<1> QED BY <1>1, <1>3, <1>4 DEF SyncCallback

LEMMA ReadyCallbackKept ==
    ASSUME NEW m \in MachineType, Roles(m), NEW dataReady \in BOOLEAN, NEW accept \in BOOLEAN,
           NEW decoding
    PROVE  Kept(m, ReadyCallback(m, dataReady, accept, decoding))
<1>1. Kept(m, m)
  BY DEF Kept, Follows, Spare
<1>2. Genuine \in BOOLEAN
  BY DEF Genuine
<1>3. m.ready_callback = "handle_ready_intr" =>
        Kept(m, HandleReadyIntr(m, dataReady, accept, decoding))
  BY HandleReadyIntrKept
<1>4. m.ready_callback = "verify_disc" => Kept(m, VerifyDisc(m, dataReady, Genuine))
  BY <1>2, VerifyDiscKept
<1> QED BY <1>1, <1>3, <1>4 DEF ReadyCallback

-----------------------------------------------------------------------------
(* libcd waits with the shell open. *)

LEMMA StuckSame ==
    ASSUME NEW m, NEW n, SameView(m, n)
    PROVE  Stuck(n) <=> Stuck(m)
BY DEF SameView, SameStep, SameSlots, Stuck

LEMMA DroppedStuck ==
    ASSUME NEW m \in MachineType
    PROVE  Stuck(HandleSyncError(m)) /\ (IsEmpty(HandleSyncError(m)) <=> IsEmpty(m))
<1> DEFINE n == HandleSyncError(m)
<1>1. SameQueue(m, n) /\ n.sync_callback = "none"
  BY HandleSyncErrorFields
<1> HIDE DEF n
<1> QED BY <1>1, QueueSame DEF Stuck, n

LEMMA CompleteCommandStuck ==
    ASSUME NEW m \in MachineType, Stuck(m), m.sync_callback = "complete_command",
           NEW complete \in BOOLEAN
    PROVE  LET n == CompleteCommand(m, complete, TRUE)
           IN Stuck(n) /\ (IsEmpty(n) <=> IsEmpty(m))
<1> DEFINE seen == [m EXCEPT !.sync_complete = TRUE]
           nop == [seen EXCEPT !.current_command = "Nop"]
           n == CompleteCommand(m, complete, TRUE)
<1>1. seen \in MachineType /\ SameView(m, seen)
  BY FieldUpdates, OtherFields
<1>2. Stuck(seen) /\ (IsEmpty(seen) <=> IsEmpty(m))
  BY <1>1, StuckSame, QueueSame DEF SameView
<1>3. m.current_command \in {"ReadN", "Nop"}
  BY DEF Stuck
<1>4. n = IF m.current_command = "Nop" THEN HandleSyncError(seen)
          ELSE IF complete THEN seen ELSE CdControlF(nop, "Nop", 0)
  BY <1>3 DEF CompleteCommand, ShellReported
<1> HIDE DEF n, seen
<1>5. Stuck(HandleSyncError(seen)) /\ (IsEmpty(HandleSyncError(seen)) <=> IsEmpty(seen))
  BY <1>1, DroppedStuck
<1>6. nop \in MachineType
  BY <1>1, CommandValues, FieldUpdates
<1>7. SameQueue(seen, nop) /\ nop.current_command = "Nop"
      /\ nop.sync_callback = seen.sync_callback
  BY <1>1 DEF SameQueue, MachineType
<1> HIDE DEF nop
<1>8. seen.sync_callback = "complete_command"
  BY <1>1 DEF SameView, SameSlots
<1>9. Stuck(nop) /\ (IsEmpty(nop) <=> IsEmpty(seen))
  BY <1>7, <1>8, QueueSame DEF Stuck
<1> DEFINE p == CdControlF(nop, "Nop", 0)
<1>10. SameView(nop, p)
  BY <1>6, CdControlFView
<1> HIDE DEF p
<1>11. Stuck(p) /\ (IsEmpty(p) <=> IsEmpty(nop))
  BY <1>9, <1>10, StuckSame, QueueSame DEF SameView
<1> QED BY <1>2, <1>4, <1>5, <1>9, <1>11 DEF n, p

LEMMA HandleRecoverySyncStuck ==
    ASSUME NEW m \in MachineType, Roles(m), Stuck(m), m.sync_callback = "handle_recovery_sync",
           NEW complete \in BOOLEAN, NEW rejected \in BOOLEAN
    PROVE  LET n == HandleRecoverySync(m, complete, TRUE, rejected)
           IN Stuck(n) /\ (IsEmpty(n) <=> IsEmpty(m))
<1> DEFINE seen == [m EXCEPT !.sync_complete = TRUE]
           heard(retry) == [seen EXCEPT !.init_retry = retry]
           n == HandleRecoverySync(m, complete, TRUE, rejected)
<1>1. seen \in MachineType /\ SameView(m, seen)
  BY FieldUpdates, OtherFields
<1>2. Stuck(seen) /\ Roles(seen) /\ (IsEmpty(seen) <=> IsEmpty(m))
  BY <1>1, StuckSame, QueueSame, ViewRoles DEF SameView
<1>3. m.init_command = RECOVERY_RETRY_READ /\ "RECOVERY_PENDING" \notin m.status_flags
  BY StepNumbers DEF Stuck, Roles, Recording
<1>4. n = IF m.init_retry THEN HandleSyncError(seen)
          ELSE IF complete THEN StepDone(heard(FALSE))
          ELSE CdControlF(heard(TRUE), "Nop", 0)
  BY <1>1, <1>3, StepNumbers DEF HandleRecoverySync, SameView, SameStep
<1>5. seen.sync_callback = "handle_recovery_sync" /\ seen.init_command = RECOVERY_RETRY_READ
  BY <1>1, <1>3 DEF SameView, SameSlots, SameStep
<1>6. ASSUME NEW retry \in BOOLEAN
      PROVE  /\ heard(retry) \in MachineType /\ SameQueue(seen, heard(retry))
             /\ heard(retry).init_command = RECOVERY_RETRY_READ
             /\ heard(retry).sync_callback = "handle_recovery_sync"
  BY <1>1, <1>2, <1>5, RetryKept DEF SameSlots
<1> HIDE DEF n, seen, heard
<1>7. Stuck(HandleSyncError(seen)) /\ (IsEmpty(HandleSyncError(seen)) <=> IsEmpty(seen))
  BY <1>1, DroppedStuck
<1>8. Stuck(StepDone(heard(FALSE))) /\ (IsEmpty(StepDone(heard(FALSE))) <=> IsEmpty(seen))
  <2> DEFINE h == heard(FALSE)
             ended == EndStep(h)
             p == StepDone(h)
  <2>1. h \in MachineType /\ SameQueue(seen, h) /\ h.init_command = RECOVERY_RETRY_READ
    BY <1>6
  <2> HIDE DEF h
  <2>2. p = [ended EXCEPT !.init_state = READ_DISC_ID]
    BY <2>1, StepNumbers DEF StepDone, EndStepAt
  <2>3. ended \in MachineType /\ SameQueue(h, ended) /\ ended.sync_callback = "none"
    BY <2>1, EndStepView
  <2> HIDE DEF ended, p
  <2>4. SameQueue(ended, p) /\ p.sync_callback = "none"
    BY <2>2, <2>3 DEF SameQueue, MachineType
  <2>5. SameQueue(seen, p)
    BY <2>1, <2>3, <2>4 DEF SameQueue
  <2> QED BY <2>4, <2>5, QueueSame DEF Stuck, p, h
<1>9. Stuck(CdControlF(heard(TRUE), "Nop", 0))
      /\ (IsEmpty(CdControlF(heard(TRUE), "Nop", 0)) <=> IsEmpty(seen))
  <2> DEFINE h == heard(TRUE)
             p == CdControlF(h, "Nop", 0)
  <2>1. /\ h \in MachineType /\ SameQueue(seen, h) /\ h.init_command = RECOVERY_RETRY_READ
        /\ h.sync_callback = "handle_recovery_sync"
    BY <1>6
  <2> HIDE DEF h
  <2>2. SameView(h, p)
    BY <2>1, CdControlFView
  <2> HIDE DEF p
  <2>3. Stuck(h)
    BY <2>1 DEF Stuck
  <2>4. Stuck(p) /\ (IsEmpty(p) <=> IsEmpty(h)) /\ (IsEmpty(h) <=> IsEmpty(seen))
    BY <2>1, <2>2, <2>3, StuckSame, QueueSame DEF SameView
  <2> QED BY <2>4 DEF p, h
<1> QED BY <1>2, <1>4, <1>7, <1>8, <1>9 DEF n

(* While libcd waits with the shell open no entry is finished. *)
LEMMA SyncCallbackStuck ==
    ASSUME NEW m \in MachineType, Roles(m), Stuck(m), ShellOpen, NEW complete \in BOOLEAN
    PROVE  LET n == SyncCallback(m, complete)
           IN Stuck(n) /\ (IsEmpty(n) <=> IsEmpty(m))
<1>1. ShellOpen = TRUE /\ Rejected \in BOOLEAN
  BY DEF ShellOpen, Rejected
<1>2. CASE m.sync_callback = "complete_command"
  <2>1. SyncCallback(m, complete) = CompleteCommand(m, complete, TRUE)
    BY <1>1, <1>2 DEF SyncCallback
  <2> QED BY <1>2, <2>1, CompleteCommandStuck
<1>3. CASE m.sync_callback = "handle_recovery_sync"
  <2>1. SyncCallback(m, complete) = HandleRecoverySync(m, complete, TRUE, Rejected)
    BY <1>1, <1>3 DEF SyncCallback
  <2>2. ASSUME NEW rejected \in BOOLEAN
        PROVE  LET n == HandleRecoverySync(m, complete, TRUE, rejected)
               IN Stuck(n) /\ (IsEmpty(n) <=> IsEmpty(m))
    BY <1>3, HandleRecoverySyncStuck
  <2> QED BY <1>1, <2>1, <2>2
<1>4. CASE m.sync_callback \notin {"complete_command", "handle_recovery_sync"}
  BY <1>4 DEF SyncCallback
<1> QED BY <1>2, <1>3, <1>4

(* What a handler says to a read error can wait for the shell. *)
LEMMA ReadErrorStuck ==
    ASSUME NEW m \in MachineType, Roles(m), m.ready_callback # "none"
    PROVE  Stuck(ReadyCallback(m, FALSE, TRUE, FALSE))
<1>1. CASE m.ready_callback = "handle_ready_intr"
  <2> DEFINE seen == [m EXCEPT !.sync_complete = TRUE]
             n == RetrySector(seen)
             off == [n EXCEPT !.ready_callback = "none"]
  <2>1. m.audio_enabled = FALSE /\ m.sync_callback = "complete_command"
        /\ m.current_command \in {"ReadN", "Nop"}
    BY <1>1 DEF Roles, DataQueued, Receiving
  <2>2. ReadyCallback(m, FALSE, TRUE, FALSE) \in {off, n}
    BY <1>1, <2>1 DEF ReadyCallback, HandleReadyIntr, HandleReadyData
  <2>3. seen \in MachineType /\ SameView(m, seen)
    BY FieldUpdates, OtherFields
  <2> HIDE DEF seen
  <2>4. n.sync_callback = "complete_command" /\ n.current_command \in {"ReadN", "Nop"}
        /\ n \in MachineType
    <3>1. n \in MachineType
      BY <2>3, RetrySectorType
    <3>2. seen.sync_callback = "complete_command" /\ seen.current_command \in {"ReadN", "Nop"}
      BY <2>1, <2>3 DEF SameView, SameSlots
    <3>3. CASE GivesUp(seen)
      <4> DEFINE resume == Resumable(seen)
                 given == [seen EXCEPT !.retry_exhausted = TRUE,
                                       !.retry_count = 0,
                                       !.playback_state = resume,
                                       !.current_command = "Nop"]
      <4>1. n = CdControlF(given, "Nop", 0)
        BY <3>3 DEF RetrySector, GiveUpSector
      <4>2. resume \in BOOLEAN
        BY DEF Resumable
      <4> HIDE DEF resume
      <4>3. given \in MachineType
        BY <2>3, <4>2, NumberValues, CommandValues, ZenonT(30) DEF MachineType
      <4>4. given.sync_callback = seen.sync_callback /\ given.current_command = "Nop"
        BY <2>3 DEF MachineType
      <4> HIDE DEF given
      <4> QED BY <3>1, <3>2, <4>1, <4>3, <4>4, CdControlFView DEF SameView, SameSlots
    <3>4. CASE ~GivesUp(seen)
      <4> DEFINE once == [seen EXCEPT !.retry_count = @ + 1]
      <4>1. n = CdControlF(once, seen.current_command, seen.current_location)
        BY <3>4 DEF RetrySector
      <4>2. once \in MachineType /\ SameView(seen, once)
        BY <2>3, <3>4, RetryCountType, OtherFields
      <4> HIDE DEF once
      <4> QED BY <3>1, <3>2, <4>1, <4>2, CdControlFView DEF SameView, SameSlots
    <3> QED BY <3>3, <3>4
  <2> HIDE DEF n
  <2>5. off.sync_callback = "complete_command" /\ off.current_command = n.current_command
    BY <2>4 DEF MachineType
  <2> QED BY <2>2, <2>4, <2>5 DEF Stuck
<1>2. CASE m.ready_callback = "verify_disc"
  <2> DEFINE seen == [m EXCEPT !.sync_complete = TRUE, !.ready_callback = "none"]
             at == [seen EXCEPT !.init_command = RECOVERY_RETRY_READ,
                                !.init_retry = FALSE,
                                !.sync_callback = "handle_recovery_sync"]
             n == CdControlF(at, "Pause", 0)
  <2>1. ReadyCallback(m, FALSE, TRUE, FALSE) = n
    BY <1>2 DEF ReadyCallback, VerifyDisc
  <2>2. seen \in MachineType
    BY ZenonT(30) DEF MachineType
  <2> HIDE DEF seen
  <2>3. at.sync_callback = "handle_recovery_sync" /\ at.init_command = RECOVERY_RETRY_READ
    BY <2>2 DEF MachineType
  <2>4. at \in MachineType
    BY <2>2, StepValues, ZenonT(30) DEF MachineType
  <2> HIDE DEF at
  <2>5. SameView(at, n)
    BY <2>4, CdControlFView
  <2> QED BY <2>1, <2>3, <2>5 DEF SameView, SameSlots, SameStep, Stuck
<1>3. m.ready_callback \in {"none", "handle_ready_intr", "verify_disc"}
  BY DEF MachineType
<1> QED BY <1>1, <1>2, <1>3

-----------------------------------------------------------------------------
(* What the foreground does to the machine. *)

(* The lock is no concern of the roles. *)
LEMMA LockRoles ==
    ASSUME NEW m, NEW n, Roles(m), SameQueue(m, n), SameStep(m, n), SameSlots(m, n),
           n.audio_enabled = m.audio_enabled, n.data_ready_pending = m.data_ready_pending,
           n.init_state = m.init_state,
           \A f \in RecoveryFlags : f \in n.status_flags <=> f \in m.status_flags
    PROVE  Roles(n)
<1>1. /\ "RECOVERY_PENDING" \in n.status_flags <=> "RECOVERY_PENDING" \in m.status_flags
      /\ "INVALID_DISC" \in n.status_flags <=> "INVALID_DISC" \in m.status_flags
      /\ "NO_DISC" \in n.status_flags <=> "NO_DISC" \in m.status_flags
      /\ Failing(n) <=> Failing(m)
  BY DEF RecoveryFlags, ErrorFlags, Failing, HasFlag
<1>2. DataQueued(n)
  <2>1. n.audio_enabled = FALSE /\ n.data_ready_pending = FALSE
    BY DEF Roles, DataQueued
  <2> QED BY <2>1, DataQueuedSame DEF Roles
<1>3. Commanding(n) /\ Receiving(n)
  BY QueueSame DEF SameStep, SameSlots, Roles, Commanding, Receiving
<1>4. Exclusive(n) /\ Stepped(n)
  BY DEF SameStep, SameSlots, Roles, Exclusive, Stepped
<1>5. Recording(n)
  BY <1>1 DEF SameStep, SameSlots, Roles, Recording, DiscUnknown
<1>6. Strayed(n)
  BY <1>1 DEF SameStep, Roles, Strayed, Astray
<1>7. Reconfigures(n)
  BY <1>1 DEF SameStep, SameSlots, Roles, Reconfigures
<1> QED BY <1>2, <1>3, <1>4, <1>5, <1>6, <1>7 DEF Roles

(* Recovery goes on to another state before it has given a command. *)
LEMMA MovedOnRoles ==
    ASSUME NEW m, NEW n, Roles(m), "RECOVERY_PENDING" \notin m.status_flags,
           m.init_state \notin Started,
           SameQueue(m, n), SameStep(m, n), SameSlots(m, n),
           n.audio_enabled = m.audio_enabled, n.data_ready_pending = m.data_ready_pending,
           "RECOVERY_PENDING" \notin n.status_flags,
           n.init_state \in 2..8 => DiscUnknown \subseteq n.status_flags
    PROVE  Roles(n)
<1>1. DataQueued(n)
  <2>1. n.audio_enabled = FALSE /\ n.data_ready_pending = FALSE
    BY DEF Roles, DataQueued
  <2> QED BY <2>1, DataQueuedSame DEF Roles
<1>2. Commanding(n) /\ Receiving(n)
  BY QueueSame DEF SameStep, SameSlots, Roles, Commanding, Receiving
<1>3. Exclusive(n) /\ Stepped(n)
  BY DEF SameStep, SameSlots, Roles, Exclusive, Stepped
<1>4. Recording(n)
  BY StateNumbers DEF SameStep, SameSlots, Roles, Recording
<1>5. Strayed(n)
  BY StateNumbers DEF SameStep, Roles, Strayed, Astray
<1>6. Reconfigures(n)
  BY DEF SameStep, Roles, Reconfigures
<1> QED BY <1>1, <1>2, <1>3, <1>4, <1>5, <1>6 DEF Roles

(* Recovery lets the drive go; the command stays. *)
LEMMA LetGoRoles ==
    ASSUME NEW n, DataQueued(n), n.sync_callback = "none", n.ready_callback = "none",
           n.init_command = 0, n.init_retry = FALSE,
           n.current_command # "None" => ~IsEmpty(n),
           n.init_state \notin 2..8, "RECOVERY_PENDING" \notin n.status_flags
    PROVE  Roles(n)
<1>1. Commanding(n) /\ Receiving(n) /\ Stepped(n)
  BY DEF Commanding, Receiving, Stepped
<1>2. Exclusive(n) /\ Recording(n) /\ Reconfigures(n)
  BY StepNumbers DEF Exclusive, Recording, Reconfigures
<1>3. Strayed(n)
  BY DEF Strayed, Astray
<1> QED BY <1>1, <1>2, <1>3 DEF Roles

(* A step of the reconfiguration goes out. *)
LEMMA ReconfiguringRoles ==
    ASSUME NEW n, DataQueued(n), n.sync_callback = "handle_recovery_sync",
           n.ready_callback = "none", n.current_command = "None",
           n.init_command \in Reconfiguration, "RECOVERY_PENDING" \in n.status_flags,
           ~Failing(n), n.init_state \in 0..3
    PROVE  Roles(n)
<1>1. Commanding(n) /\ Receiving(n) /\ Stepped(n)
  BY StepNumbers DEF Commanding, Receiving, Stepped
<1>2. Exclusive(n) /\ Recording(n) /\ Reconfigures(n)
  BY StepNumbers DEF Exclusive, Recording, Reconfigures
<1>3. Strayed(n)
  BY StepNumbers DEF Strayed, Astray
<1> QED BY <1>1, <1>2, <1>3 DEF Roles

(* A controller that does nothing has both slots empty. *)
LEMMA IdleIsResigned ==
    ASSUME NEW m \in MachineType, Roles(m), m.current_command = "None", m.init_command = 0,
           m.init_retry = FALSE, ~Failing(m)
    PROVE  Resigned(m)
<1>1. m.sync_callback = "none"
  <2>1. m.sync_callback \in {"none", "complete_command", "handle_recovery_sync"}
    BY DEF MachineType
  <2> QED BY <2>1 DEF Roles, Commanding, Stepped
<1>2. m.ready_callback = "none"
  <2>1. m.ready_callback \in {"none", "handle_ready_intr", "verify_disc"}
    BY DEF MachineType
  <2>2. m.ready_callback # "handle_ready_intr"
    BY <1>1 DEF Roles, Receiving
  <2>3. "INVALID_DISC" \notin m.status_flags
    BY DEF Failing, HasFlag, ErrorFlags
  <2>4. m.ready_callback # "verify_disc"
    BY <2>3, StateNumbers DEF Roles, Recording, DiscUnknown
  <2> QED BY <2>1, <2>2, <2>4
<1> QED BY <1>1, <1>2 DEF Resigned

LEMMA Next1Apart ==
    ASSUME NEW r \in Slots, NEW w \in Slots, r # w
    PROVE  Next1(r) # Next1(w)
<1>1. QueueSize \in Nat /\ r \in Int /\ w \in Int
      /\ 0 <= r /\ r < QueueSize /\ 0 <= w /\ w < QueueSize /\ 1 \in 0..QueueSize - 1
  BY QueueAssumption DEF Slots
<1>2. /\ r + 1 < QueueSize => Next1(r) = r + 1
      /\ r + 1 >= QueueSize => Next1(r) = r + 1 - QueueSize
  BY <1>1, Further DEF Next1
<1>3. /\ w + 1 < QueueSize => Next1(w) = w + 1
      /\ w + 1 >= QueueSize => Next1(w) = w + 1 - QueueSize
  BY <1>1, Further DEF Next1
<1> QED BY <1>1, <1>2, <1>3

(* An entry is published behind the others. *)
LEMMA EnqueueRoles ==
    ASSUME NEW m \in MachineType, Roles(m), ~IsFull(m), NEW req \in Request,
           req.command \in {"ReadN", "SeekL"}
    PROVE  LET n == Enqueue(m, req)
           IN /\ Roles(n) /\ ~IsEmpty(n)
              /\ n.current_command # "None" => Spare(n)
              /\ n.waiting = m.waiting
<1> DEFINE r == m.queue_read_index
           w == m.queue_write_index
           items == [m.items EXCEPT ![w] = req]
           n == Enqueue(m, req)
<1>1. r \in Slots /\ w \in Slots /\ r # Next1(w)
  BY DEF MachineType, IsFull
<1>2. /\ items \in [Slots -> Request] /\ items[w] = req
      /\ \A i \in Slots : i # w => items[i] = m.items[i]
  BY <1>1 DEF MachineType
<1>3. n = [m EXCEPT !.items = items, !.last_request = req, !.queue_write_index = Next1(w)]
  BY DEF Enqueue, MachineType
<1> HIDE DEF items, n
<1>4. /\ n.items = items /\ n.queue_read_index = r /\ n.queue_write_index = Next1(w)
      /\ SameMode(m, n) /\ SameStep(m, n) /\ SameSlots(m, n) /\ SameLine(m, n)
  BY <1>3 DEF SameMode, SameStep, SameSlots, SameLine, MachineType
<1> HIDE DEF r, w
<1>5. DataQueued(n)
  <2>1. ASSUME NEW i \in Slots, IsPending(n, i)
        PROVE  n.items[i].command \in {"ReadN", "SeekL"}
    <3>1. (i - r) % QueueSize < (Next1(w) - r) % QueueSize
      BY <1>4, <2>1 DEF IsPending, PendingCount
    <3>2. i = w \/ (i - r) % QueueSize < (w - r) % QueueSize
      BY <1>1, <3>1, PublishedPending
    <3>3. CASE i = w
      BY <1>2, <1>4, <3>3
    <3>4. CASE i # w
      <4>1. IsPending(m, i)
        BY <3>2, <3>4 DEF IsPending, PendingCount, r, w
      <4> QED BY <1>2, <1>4, <3>4, <4>1 DEF Roles, DataQueued
    <3> QED BY <3>3, <3>4
  <2>2. n.audio_enabled = FALSE /\ n.data_ready_pending = FALSE
    BY <1>4 DEF Roles, DataQueued, SameMode
  <2> QED BY <2>1, <2>2 DEF DataQueued
<1>6. ~IsEmpty(n)
  BY <1>1, <1>4 DEF IsEmpty
<1>7. ~IsEmpty(m) => HeadItem(n) = HeadItem(m) /\ Spare(n)
  <2>1. ASSUME ~IsEmpty(m) PROVE HeadItem(n) = HeadItem(m)
    BY <1>1, <1>2, <1>4, <2>1 DEF IsEmpty, HeadItem, r, w
  <2>2. ASSUME ~IsEmpty(m) PROVE Next1(r) # Next1(w)
    BY <1>1, <2>2, Next1Apart DEF IsEmpty, r, w
  <2> QED BY <1>4, <1>6, <2>1, <2>2 DEF Spare
<1>8. Commanding(n)
  BY <1>4, <1>6 DEF Roles, Commanding, SameStep, SameSlots
<1>9. m.current_command # "None" => ~IsEmpty(m)
  BY DEF Roles, Commanding
<1>10. Receiving(n)
  BY <1>4, <1>7, <1>9 DEF Roles, Receiving, SameSlots
<1>11. Exclusive(n) /\ Stepped(n) /\ Recording(n)
  BY <1>4 DEF Roles, Exclusive, Stepped, Recording, SameMode, SameStep, SameSlots
<1>12. Strayed(n) /\ Reconfigures(n)
  BY <1>4, ViewFailing
     DEF Roles, Strayed, Astray, Reconfigures, SameMode, SameStep, SameSlots
<1> QED BY <1>4, <1>5, <1>6, <1>7, <1>8, <1>9, <1>10, <1>11, <1>12
        DEF Roles, SameSlots, SameLine, n

(* The Nop that starts or restarts the queue. *)
LEMMA StartedRoles ==
    ASSUME NEW m, NEW n, Roles(m), ~IsEmpty(m), m.init_command = 0, m.init_retry = FALSE,
           "RECOVERY_PENDING" \notin m.status_flags,
           SameQueue(m, n), SameMode(m, n), SameStep(m, n), n.sync_callback = "complete_command",
           n.current_command = "Nop", n.ready_callback \in {m.ready_callback, "none"}
    PROVE  Roles(n)
<1>1. ~IsEmpty(n) /\ HeadItem(n) = HeadItem(m)
  BY QueueSame
<1>2. DataQueued(n)
  <2>1. n.audio_enabled = FALSE /\ n.data_ready_pending = FALSE
    BY DEF Roles, DataQueued, SameMode
  <2> QED BY <2>1, DataQueuedSame DEF Roles
<1>3. Recording(n)
  BY StepNumbers DEF Roles, Recording, SameMode, SameStep
<1>4. Working(n)
  BY <1>2, <1>3 DEF Working, SameMode, SameStep
<1>5. n.ready_callback = "handle_ready_intr" => HeadItem(n).command = "ReadN"
  BY <1>1 DEF Roles, Receiving
<1> QED BY <1>1, <1>4, <1>5, WorkingRoles

(* A stop or a reset forgets every entry. *)
LEMMA DropQueueFields ==
    ASSUME NEW m \in MachineType
    PROVE  LET n == DropQueue(m)
           IN /\ n \in MachineType /\ Resigned(n)
              /\ n.items = m.items /\ n.queue_read_index = 0 /\ n.queue_write_index = 0
              /\ SameMode(m, n)
<1> DEFINE paused == BlockingPause(m)
           off == Disarm(paused)
           n == DropQueue(m)
<1>1. paused \in MachineType /\ off \in MachineType
  BY BlockingPauseType, DisarmType
<1>2. paused.items = m.items /\ SameMode(m, paused)
  BY DEF BlockingPause, SameMode, MachineType
<1> HIDE DEF paused
<1>3. /\ off.items = m.items /\ SameMode(m, off)
      /\ off.sync_callback = "none" /\ off.ready_callback = "none"
  BY <1>1, <1>2 DEF Disarm, SameMode, MachineType
<1>4. n = [off EXCEPT !.current_command = "None",
                      !.init_command = 0,
                      !.init_retry = FALSE,
                      !.playback_state = FALSE,
                      !.transfer_callback = NULL,
                      !.retry_counter = 0,
                      !.queue_read_index = 0,
                      !.queue_write_index = 0]
  BY DEF DropQueue, paused
<1> HIDE DEF off
<1>5. Resigned(n)
  BY <1>1, <1>3, <1>4 DEF Resigned, MachineType
<1>6. /\ n.items = m.items /\ n.queue_read_index = 0 /\ n.queue_write_index = 0
      /\ SameMode(m, n)
  BY <1>1, <1>3, <1>4 DEF SameMode, MachineType
<1> QED BY <1>5, <1>6, DropQueueType

LEMMA DroppedRoles ==
    ASSUME NEW m, NEW n, Roles(m), Resigned(n),
           n.queue_read_index = 0, n.queue_write_index = 0,
           n.audio_enabled = FALSE, n.data_ready_pending = FALSE,
           n.init_state = m.init_state,
           \A f \in RecoveryFlags : f \in n.status_flags <=> f \in m.status_flags
    PROVE  Roles(n)
<1>1. /\ "RECOVERY_PENDING" \in n.status_flags <=> "RECOVERY_PENDING" \in m.status_flags
      /\ "INVALID_DISC" \in n.status_flags <=> "INVALID_DISC" \in m.status_flags
      /\ "NO_DISC" \in n.status_flags <=> "NO_DISC" \in m.status_flags
      /\ Failing(n) <=> Failing(m)
  BY DEF RecoveryFlags, ErrorFlags, Failing, HasFlag
<1>2. DataQueued(n)
  <2>1. ASSUME NEW i \in Slots PROVE ~IsPending(n, i)
    <3>1. (i - 0) % QueueSize \in Nat
      BY QueueAssumption DEF Slots
    <3>2. (0 - 0) % QueueSize = 0
      BY QueueAssumption
    <3> QED BY <3>1, <3>2 DEF IsPending, PendingCount
  <2> QED BY <2>1 DEF DataQueued
<1>3. \/ n.init_state \notin 2..8
      \/ DiscUnknown \subseteq n.status_flags
      \/ "RECOVERY_PENDING" \in n.status_flags
  BY <1>1 DEF Roles, Recording, DiscUnknown
<1>4. "RECOVERY_PENDING" \in n.status_flags => ~Failing(n) /\ n.init_state \in 0..3
  BY <1>1 DEF Roles, Reconfigures
<1> QED BY <1>2, <1>3, <1>4, ResignedRoles

LEMMA IssueFields ==
    ASSUME NEW m \in MachineType, NEW ready \in {"none", "handle_ready_intr", "verify_disc"},
           NEW step \in InitCommands, NEW command, NEW location,
           NEW n, n = Issue(m, ready, step, command, location)
    PROVE  /\ SameQueue(m, n) /\ SameMode(m, n)
           /\ n.sync_callback = "handle_recovery_sync" /\ n.ready_callback = ready
           /\ n.current_command = m.current_command
           /\ n.init_command = step
<1> DEFINE p == [m EXCEPT !.sync_callback = "handle_recovery_sync",
                          !.ready_callback = ready,
                          !.init_command = step,
                          !.init_retry = FALSE]
<1>1. n = CdControlF(p, command, location)
  BY DEF Issue
<1>2. p \in MachineType
  BY ZenonT(30) DEF MachineType
<1>3. /\ SameQueue(m, p) /\ SameMode(m, p)
      /\ p.sync_callback = "handle_recovery_sync" /\ p.ready_callback = ready
      /\ p.current_command = m.current_command
      /\ p.init_command = step
  BY DEF SameQueue, SameMode, MachineType
<1> HIDE DEF p
<1>4. SameView(p, n)
  BY <1>1, <1>2, CdControlFView
<1> QED BY <1>3, <1>4 DEF SameView, SameQueue, SameMode, SameSlots, SameStep

LEMMA IssueRetry ==
    ASSUME NEW m \in MachineType, NEW ready \in {"none", "handle_ready_intr", "verify_disc"},
           NEW step \in InitCommands, NEW command, NEW location,
           NEW n, n = Issue(m, ready, step, command, location)
    PROVE  n.init_retry = FALSE
<1> DEFINE p == [m EXCEPT !.sync_callback = "handle_recovery_sync",
                          !.ready_callback = ready,
                          !.init_command = step,
                          !.init_retry = FALSE]
<1>1. n = CdControlF(p, command, location)
  BY DEF Issue
<1>2. p \in MachineType
  BY ZenonT(30) DEF MachineType
<1>3. p.init_retry = FALSE
  BY DEF MachineType
<1> HIDE DEF p
<1> QED BY <1>1, <1>2, <1>3, CdControlFView DEF SameView, SameStep

(* A step of recovery is issued from one of its later states. *)
LEMMA IssueRoles ==
    ASSUME NEW m \in MachineType, DataQueued(m), m.current_command # "None" => ~IsEmpty(m),
           "RECOVERY_PENDING" \notin m.status_flags,
           DiscUnknown \subseteq m.status_flags, m.init_state \in Started,
           NEW ready \in {"none", "verify_disc"}, NEW step \in RecoverySteps,
           ready = "verify_disc" => m.init_state = WAIT_FOR_READ /\ step = RECOVERY_READ_DISC_ID,
           NEW command, NEW location
    PROVE  Roles(Issue(m, ready, step, command, location))
<1>1. step \in InitCommands /\ ready \in {"none", "handle_ready_intr", "verify_disc"}
  BY StepNumbers DEF InitCommands
<1>n. PICK n : n = Issue(m, ready, step, command, location)
  OBVIOUS
<1>2. /\ SameQueue(m, n) /\ SameMode(m, n)
      /\ n.sync_callback = "handle_recovery_sync" /\ n.ready_callback = ready
      /\ n.current_command = m.current_command
      /\ n.init_command = step
  BY <1>1, <1>n, IssueFields
<1>r. n.init_retry = FALSE
  <2>1. CASE ready = "none"
    BY <1>1, <1>n, <2>1, IssueRetry, ZenonT(30)
  <2>2. CASE ready = "verify_disc"
    BY <1>1, <1>n, <2>2, IssueRetry, ZenonT(30)
  <2> QED BY <2>1, <2>2
<1>3. DataQueued(n)
  <2>1. n.audio_enabled = FALSE /\ n.data_ready_pending = FALSE
    BY <1>2 DEF DataQueued, SameMode
  <2> QED BY <1>2, <2>1, DataQueuedSame
<1>4. n.current_command # "None" => ~IsEmpty(n)
  BY <1>2, QueueSame
<1>5. n.init_state = m.init_state /\ n.status_flags = m.status_flags
  BY <1>2 DEF SameMode
<1> QED BY <1>n, <1>r, <1>2, <1>3, <1>4, <1>5, AdvancedRoles

(* A step of the reconfiguration is issued. *)
LEMMA ReissueRoles ==
    ASSUME NEW m \in MachineType, DataQueued(m), m.current_command = "None",
           "RECOVERY_PENDING" \in m.status_flags, ~Failing(m), m.init_state \in 0..3,
           NEW step \in Reconfiguration, NEW command, NEW location
    PROVE  Roles(Issue(m, "none", step, command, location))
<1>1. step \in InitCommands
  BY StepNumbers DEF InitCommands
<1>n. PICK n : n = Issue(m, "none", step, command, location)
  OBVIOUS
<1>2. /\ SameQueue(m, n) /\ SameMode(m, n)
      /\ n.sync_callback = "handle_recovery_sync" /\ n.ready_callback = "none"
      /\ n.current_command = m.current_command
      /\ n.init_command = step
  BY <1>1, <1>n, IssueFields
<1>r. n.init_retry = FALSE
  BY <1>1, <1>n, IssueRetry
<1>3. DataQueued(n)
  <2>1. n.audio_enabled = FALSE /\ n.data_ready_pending = FALSE
    BY <1>2 DEF DataQueued, SameMode
  <2> QED BY <1>2, <2>1, DataQueuedSame
<1>4. n.init_state = m.init_state /\ n.status_flags = m.status_flags
  BY <1>2 DEF SameMode
<1> QED BY <1>n, <1>r, <1>2, <1>3, <1>4, ViewFailing, ReconfiguringRoles

(* The step under way is asked for again. *)
LEMMA RepeatRoles ==
    ASSUME NEW m \in MachineType, Roles(m), m.init_command # 0,
           m.init_command \in Reconfiguration \/ "RECOVERY_PENDING" \notin m.status_flags,
           m.ready_callback # "handle_ready_intr", NEW command, NEW location
    PROVE  Roles(CdControlF([m EXCEPT !.sync_callback = "handle_recovery_sync"], command, location))
<1> DEFINE p == [m EXCEPT !.sync_callback = "handle_recovery_sync"]
<1>1. p \in MachineType
  BY FieldUpdates
<1>2. /\ SameQueue(m, p) /\ SameMode(m, p) /\ SameStep(m, p)
      /\ p.sync_callback = "handle_recovery_sync" /\ p.ready_callback = m.ready_callback
      /\ p.current_command = m.current_command
  BY DEF SameQueue, SameMode, SameStep, MachineType
<1> HIDE DEF p
<1>3. DataQueued(p)
  <2>1. p.audio_enabled = FALSE /\ p.data_ready_pending = FALSE
    BY <1>2 DEF Roles, DataQueued, SameMode
  <2> QED BY <1>2, <2>1, DataQueuedSame DEF Roles
<1>4. Commanding(p) /\ Receiving(p)
  BY <1>2, QueueSame DEF Roles, Commanding, Receiving
<1>5. Exclusive(p) /\ Stepped(p) /\ Recording(p)
  BY <1>2 DEF Roles, Exclusive, Stepped, Recording, SameMode, SameStep
<1>6. Strayed(p) /\ Reconfigures(p)
  BY <1>2, ViewFailing DEF Roles, Strayed, Astray, Reconfigures, SameMode, SameStep
<1>7. Roles(p)
  BY <1>3, <1>4, <1>5, <1>6 DEF Roles
<1> QED BY <1>1, <1>7, CdControlFRoles DEF p

-----------------------------------------------------------------------------
(* The foreground at rest, or in a call that expects nothing of the machine. *)

LEMMA RestedAgreed ==
    ASSUME NEW m, Roles(m), NEW point, NEW shell, point.at \in {"idle", "starting", "blocking"}
    PROVE  Agreed(m, point, shell)
BY DEF Agreed, EntryKept, ServiceKnows

LEMMA RestingPoints ==
    /\ At("idle").at = "idle" /\ At("starting").at = "starting" /\ At("blocking").at = "blocking"
BY DEF At

LEMMA ShutPoint ==
    ASSUME NEW point, point \notin Windows
    PROVE  At(point).open = FALSE
<1> DEFINE w == point \in Windows
<1>1. w = FALSE
  OBVIOUS
<1>2. At(point) = [at |-> point, open |-> w]
  BY DEF At
<1> HIDE DEF w
<1> QED BY <1>1, <1>2

(* A step that changes nothing the roles or the foreground look at. *)
LEMMA ViewAgreed ==
    ASSUME NEW m, NEW n, NEW point, NEW shell, SameView(m, n), n.waiting \in {m.waiting, "None"},
           Agreed(m, point, shell)
    PROVE  Agreed(n, point, shell)
<1>1. Roles(n)
  BY ViewRoles DEF Agreed
<1>2. (IsEmpty(n) <=> IsEmpty(m)) /\ (Spare(n) <=> Spare(m)) /\ (Stuck(n) <=> Stuck(m))
  BY QueueSame, StuckSame DEF SameView
<1>3. n.current_command = m.current_command
  BY DEF SameView, SameSlots
<1>4. EntryKept(n, point, shell)
  BY <1>2, <1>3 DEF Agreed, EntryKept
<1>5. Failing(n) <=> Failing(m)
  BY ViewFailing DEF SameView, SameMode
<1>6. ServiceKnows(n, point)
  BY <1>3, <1>5 DEF Agreed, ServiceKnows, SameView, SameMode, SameStep, Astray
<1> QED BY <1>1, <1>4, <1>6 DEF Agreed

LEMMA GameAgreed ==
    ASSUME DataInTurn, RolesInv, Game
    PROVE  Agreed(cd', fg', lid')
<1> USE DEF environment
<1>1. cd \in MachineType /\ Roles(cd) /\ fg \in [at : Points, open : BOOLEAN]
  BY DEF RolesInv, TypeOK, Agreed
<1>2. CASE \E req \in Offered : QueueCommand(req)
  <2>1. PICK req \in Offered : QueueCommand(req)
    BY <1>2
  <2>2. req.command \in {"ReadN", "SeekL"} /\ req \in Request
    BY OfferedAssumption DEF DataInTurn
  <2>3. Running("idle") /\ fg.at = "idle" /\ cd.waiting = "None"
    BY <2>1 DEF QueueCommand, Running
  <2>4. CASE UNCHANGED <<cd, fg>>
    BY <1>1, <2>3, <2>4, RestedAgreed
  <2>5. CASE ~IsFull(cd) /\ cd' = Enqueue(cd, req) /\ fg' = At("published")
    <3> DEFINE n == Enqueue(cd, req)
    <3>1. /\ Roles(n) /\ ~IsEmpty(n)
          /\ n.current_command # "None" => Spare(n)
          /\ n.waiting = cd.waiting
      BY <1>1, <2>2, <2>5, EnqueueRoles
    <3> HIDE DEF n
    <3>2. At("published").at = "published"
      BY DEF At
    <3>3. EntryKept(n, At("published"), lid')
      BY <2>3, <3>1, <3>2 DEF EntryKept
    <3>4. ServiceKnows(n, At("published"))
      BY <3>2 DEF ServiceKnows
    <3> QED BY <2>5, <3>1, <3>3, <3>4 DEF Agreed, n
  <2> QED BY <2>1, <2>4, <2>5 DEF QueueCommand
<1>3. CASE Reset \/ Stop
  <2> DEFINE dropped == DropQueue(cd)
             reset == [dropped EXCEPT !.audio_enabled = FALSE]
             stop == [dropped EXCEPT !.audio_enabled = FALSE,
                                     !.status_flags = @ \ {"QUEUE_LOCK"},
                                     !.last_request = NULL,
                                     !.retry_count = 0,
                                     !.data_ready_pending = FALSE]
  <2>1. cd' \in {reset, stop} /\ fg' = fg /\ fg.at = "idle"
    BY <1>3 DEF Reset, Stop, Running
  <2>2. /\ dropped \in MachineType /\ Resigned(dropped)
        /\ dropped.queue_read_index = 0 /\ dropped.queue_write_index = 0
        /\ SameMode(cd, dropped)
    BY <1>1, DropQueueFields
  <2>3. dropped.data_ready_pending = FALSE
    BY <1>1, <2>2 DEF SameMode, Roles, DataQueued
  <2> HIDE DEF dropped
  <2>4. Roles(reset)
    <3>1. /\ Resigned(reset)
          /\ reset.queue_read_index = 0 /\ reset.queue_write_index = 0
          /\ reset.audio_enabled = FALSE /\ reset.data_ready_pending = FALSE
          /\ reset.init_state = cd.init_state /\ reset.status_flags = cd.status_flags
      BY <2>2, <2>3 DEF Resigned, SameMode, MachineType
    <3> HIDE DEF reset
    <3> QED BY <1>1, <3>1, DroppedRoles
  <2>5. Roles(stop)
    <3>1. /\ Resigned(stop)
          /\ stop.queue_read_index = 0 /\ stop.queue_write_index = 0
          /\ stop.audio_enabled = FALSE /\ stop.data_ready_pending = FALSE
          /\ stop.init_state = cd.init_state
          /\ stop.status_flags = cd.status_flags \ {"QUEUE_LOCK"}
      BY <2>2 DEF Resigned, SameMode, MachineType
    <3> HIDE DEF stop
    <3>2. \A f \in RecoveryFlags : f \in stop.status_flags <=> f \in cd.status_flags
      BY <3>1 DEF RecoveryFlags, ErrorFlags
    <3> QED BY <1>1, <3>1, <3>2, DroppedRoles
  <2> HIDE DEF reset, stop
  <2> QED BY <2>1, <2>4, <2>5, RestedAgreed
<1>4. CASE LockQueue \/ UnlockQueue
  <2> DEFINE locked == [cd EXCEPT !.status_flags = @ \cup {"QUEUE_LOCK"}]
             unlocked == [cd EXCEPT !.status_flags = @ \ {"QUEUE_LOCK"}]
  <2>1. cd' \in {locked, unlocked} /\ fg' = fg /\ fg.at = "idle"
    BY <1>4 DEF LockQueue, UnlockQueue, Running
  <2>2. Roles(locked)
    <3>1. /\ SameQueue(cd, locked) /\ SameStep(cd, locked) /\ SameSlots(cd, locked)
          /\ locked.audio_enabled = cd.audio_enabled
          /\ locked.data_ready_pending = cd.data_ready_pending
          /\ locked.init_state = cd.init_state
          /\ locked.status_flags = cd.status_flags \cup {"QUEUE_LOCK"}
      BY <1>1 DEF SameQueue, SameStep, SameSlots, MachineType
    <3> HIDE DEF locked
    <3>2. \A f \in RecoveryFlags : f \in locked.status_flags <=> f \in cd.status_flags
      BY <3>1 DEF RecoveryFlags, ErrorFlags
    <3> QED BY <1>1, <3>1, <3>2, LockRoles
  <2>3. Roles(unlocked)
    <3>1. /\ SameQueue(cd, unlocked) /\ SameStep(cd, unlocked) /\ SameSlots(cd, unlocked)
          /\ unlocked.audio_enabled = cd.audio_enabled
          /\ unlocked.data_ready_pending = cd.data_ready_pending
          /\ unlocked.init_state = cd.init_state
          /\ unlocked.status_flags = cd.status_flags \ {"QUEUE_LOCK"}
      BY <1>1 DEF SameQueue, SameStep, SameSlots, MachineType
    <3> HIDE DEF unlocked
    <3>2. \A f \in RecoveryFlags : f \in unlocked.status_flags <=> f \in cd.status_flags
      BY <3>1 DEF RecoveryFlags, ErrorFlags
    <3> QED BY <1>1, <3>1, <3>2, LockRoles
  <2> HIDE DEF locked, unlocked
  <2> QED BY <2>1, <2>2, <2>3, RestedAgreed
<1>5. CASE EnterRecoveryMode
  <2> DEFINE n == [cd EXCEPT !.status_flags = @ \cup {"RECOVERY_PENDING"}, !.init_state = IDLE]
  <2>1. cd' = n /\ fg' = fg /\ fg.at = "idle"
    BY <1>5 DEF EnterRecoveryMode, Running
  <2>2. /\ cd.current_command = "None" /\ cd.init_command = 0 /\ cd.init_retry = FALSE
        /\ ~Failing(cd)
    BY <1>1, <1>5 DEF EnterRecoveryMode, IsBusy, HasFlag, Failing, RecoveryFlags, MachineType
  <2>3. Resigned(cd)
    BY <1>1, <2>2, IdleIsResigned
  <2>4. /\ SameQueue(cd, n) /\ Resigned(n)
        /\ n.audio_enabled = cd.audio_enabled
        /\ n.data_ready_pending = cd.data_ready_pending
        /\ n.init_state = IDLE
        /\ n.status_flags = cd.status_flags \cup {"RECOVERY_PENDING"}
    BY <1>1, <2>3 DEF SameQueue, Resigned, MachineType
  <2> HIDE DEF n
  <2>5. ~Failing(n)
    BY <2>2, <2>4 DEF Failing, HasFlag, ErrorFlags
  <2>6. DataQueued(n)
    <3>1. n.audio_enabled = FALSE /\ n.data_ready_pending = FALSE
      BY <1>1, <2>4 DEF Roles, DataQueued
    <3> QED BY <1>1, <2>4, <3>1, DataQueuedSame DEF Roles
  <2>7. Roles(n)
    BY <2>4, <2>5, <2>6, StateNumbers, ResignedRoles
  <2> QED BY <2>1, <2>7, RestedAgreed
<1> QED BY <1>2, <1>3, <1>4, <1>5 DEF Game

LEMMA QueueingAgreed ==
    ASSUME DataInTurn, RolesInv, Queueing
    PROVE  Agreed(cd', fg', lid')
<1> USE DEF environment
<1>1. cd \in MachineType /\ Roles(cd) /\ EntryKept(cd, fg, lid)
  BY DEF RolesInv, TypeOK, Agreed
<1>2. CASE QueueCheckCommand
  <2> DEFINE point == IF cd.current_command = "None" THEN "checking" ELSE "idle"
  <2>1. /\ cd' = cd /\ lid' = lid /\ fg' = At(point)
        /\ fg.at = "published" /\ cd.waiting = "None"
    BY <1>2 DEF QueueCheckCommand, Running
  <2>2. fg'.at = point
    BY <2>1 DEF At
  <2> HIDE DEF point
  <2>3. CASE cd.current_command = "None"
    <3>1. fg'.at = "checking"
      BY <2>2, <2>3 DEF point
    <3>2. EntryKept(cd, fg', lid)
      BY <1>1, <2>1, <2>3, <3>1 DEF EntryKept
    <3>3. ServiceKnows(cd, fg')
      BY <3>1 DEF ServiceKnows
    <3> QED BY <1>1, <2>1, <3>2, <3>3 DEF Agreed
  <2>4. CASE cd.current_command # "None"
    BY <1>1, <2>1, <2>2, <2>4, RestedAgreed DEF point
  <2> QED BY <2>3, <2>4
<1>3. CASE QueueCheckStep
  <2> DEFINE n == [cd EXCEPT !.current_command = "Nop",
                             !.playback_state = FALSE,
                             !.transfer_callback = NULL,
                             !.sync_callback = "complete_command"]
  <2>1. \/ NothingPending(cd) /\ cd' = n /\ fg' = At("starting")
        \/ cd' = cd /\ fg' = At("idle")
    BY <1>3 DEF QueueCheckStep
  <2>2. ~IsEmpty(cd)
    BY <1>1, <1>3 DEF QueueCheckStep, Running, EntryKept
  <2>3. ASSUME NothingPending(cd) PROVE Roles(n)
    <3>1. cd.init_command = 0 /\ "RECOVERY_PENDING" \notin cd.status_flags
      BY <2>3 DEF NothingPending, HasFlag, RecoveryFlags
    <3>2. cd.init_retry = FALSE
      BY <1>1, <2>3 DEF NothingPending, MachineType
    <3>3. /\ SameQueue(cd, n) /\ SameMode(cd, n) /\ SameStep(cd, n)
          /\ n.sync_callback = "complete_command" /\ n.current_command = "Nop"
          /\ n.ready_callback = cd.ready_callback
      BY <1>1 DEF SameQueue, SameMode, SameStep, MachineType
    <3> HIDE DEF n
    <3> QED BY <1>1, <2>2, <3>1, <3>2, <3>3, StartedRoles
  <2> HIDE DEF n
  <2> QED BY <1>1, <2>1, <2>3, RestingPoints, RestedAgreed
<1>4. CASE StartNop
  <2>1. cd' = CdControlF(cd, "Nop", 0) /\ fg' = At("idle")
    BY <1>4 DEF StartNop
  <2> QED BY <1>1, <2>1, CdControlFRoles, RestingPoints, RestedAgreed
<1> QED BY <1>2, <1>3, <1>4 DEF Queueing

(* A Nop for the entry at the read index, with no sector to come. *)
LEMMA WatchedRoles ==
    ASSUME NEW m \in MachineType, Roles(m), ~IsEmpty(m), m.init_command = 0,
           m.init_retry = FALSE, "RECOVERY_PENDING" \notin m.status_flags, NEW resume
    PROVE  Roles([m EXCEPT !.current_command = "Nop",
                           !.playback_state = resume,
                           !.sync_callback = "complete_command",
                           !.ready_callback = "none"])
<1> DEFINE n == [m EXCEPT !.current_command = "Nop",
                          !.playback_state = resume,
                          !.sync_callback = "complete_command",
                          !.ready_callback = "none"]
<1>1. /\ SameQueue(m, n) /\ SameMode(m, n) /\ SameStep(m, n)
      /\ n.sync_callback = "complete_command" /\ n.current_command = "Nop"
      /\ n.ready_callback = "none"
  BY DEF SameQueue, SameMode, SameStep, MachineType
<1> HIDE DEF n
<1>2. Roles(n)
  BY <1>1, StartedRoles
<1> QED BY <1>2 DEF n

(* A step whose answer is overdue gets its handler back. *)
LEMMA WatchedStepRoles ==
    ASSUME NEW m \in MachineType, Roles(m), m.init_command # 0,
           "RECOVERY_PENDING" \notin m.status_flags
    PROVE  Roles([m EXCEPT !.sync_callback = "handle_recovery_sync", !.ready_callback = "none"])
<1> DEFINE n == [m EXCEPT !.sync_callback = "handle_recovery_sync", !.ready_callback = "none"]
<1>1. /\ SameQueue(m, n) /\ SameMode(m, n) /\ SameStep(m, n)
      /\ n.sync_callback = "handle_recovery_sync" /\ n.ready_callback = "none"
      /\ n.current_command = m.current_command
  BY DEF SameQueue, SameMode, SameStep, MachineType
<1> HIDE DEF n
<1>2. DataQueued(n)
  <2>1. n.audio_enabled = FALSE /\ n.data_ready_pending = FALSE
    BY <1>1 DEF Roles, DataQueued, SameMode
  <2> QED BY <1>1, <2>1, DataQueuedSame DEF Roles
<1>3. Commanding(n) /\ Receiving(n)
  BY <1>1, QueueSame DEF Roles, Commanding, Receiving
<1>4. Exclusive(n) /\ Stepped(n) /\ Recording(n)
  BY <1>1 DEF Roles, Exclusive, Stepped, Recording, SameMode, SameStep
<1>5. Strayed(n) /\ Reconfigures(n)
  BY <1>1, ViewFailing DEF Roles, Strayed, Astray, Reconfigures, SameMode, SameStep
<1>6. Roles(n)
  BY <1>2, <1>3, <1>4, <1>5 DEF Roles
<1> QED BY <1>6 DEF n

LEMMA RestView ==
    ASSUME NEW m \in MachineType
    PROVE  SameView(m, Rest(m)) /\ SameLine(m, Rest(m))
BY DEF Rest, SameView, SameQueue, SameMode, SameStep, SameSlots, SameLine, MachineType

LEMMA CountersView ==
    ASSUME NEW m \in MachineType, NEW v
    PROVE  /\ SameView(m, [m EXCEPT !.sync_complete = FALSE, !.retry_counter = v])
           /\ SameView(m, [m EXCEPT !.retry_counter = v])
<1>1. SameView(m, [m EXCEPT !.sync_complete = FALSE, !.retry_counter = v])
  BY DEF SameView, SameQueue, SameMode, SameStep, SameSlots, MachineType
<1>2. SameView(m, [m EXCEPT !.retry_counter = v])
  BY DEF SameView, SameQueue, SameMode, SameStep, SameSlots, MachineType
<1> QED BY <1>1, <1>2

(* Only a disc that was rejected leaves the retry flag without a step. *)
LEMMA FlaglessKnows ==
    ASSUME Roles(cd), ~HasFlag(cd, RecoveryFlags)
    PROVE  "RECOVERY_PENDING" \notin cd.status_flags /\ ~Astray(cd) /\ ~Failing(cd)
BY DEF Roles, Strayed, HasFlag, Failing, RecoveryFlags, ErrorFlags

LEMMA ServiceAgreed ==
    ASSUME DataInTurn, RolesInv,
           \/ ServiceCheckCommand \/ Supervise \/ WatchdogDue
           \/ WatchdogCommand \/ WatchdogStep \/ WatchdogNop
           \/ Restart \/ IdleQuiet \/ IdlePoll \/ IdlePollFails
    PROVE  Agreed(cd', fg', lid')
<1> DEFINE rested == Rest(cd)
<1>1. cd \in MachineType /\ Roles(cd) /\ ServiceKnows(cd, fg) /\ cd.init_retry \in BOOLEAN
  BY DEF RolesInv, TypeOK, Agreed, MachineType
<1>2. rested \in MachineType /\ SameView(cd, rested) /\ Roles(rested)
  BY <1>1, RestType, RestView, ViewRoles
<1> HIDE DEF rested
<1>3. CASE ServiceCheckCommand
  <2>1. /\ cd' = cd /\ fg' = At("observed") /\ cd.waiting = "None"
        /\ cd.current_command = "None" /\ ~HasFlag(cd, RecoveryFlags)
    BY <1>3 DEF ServiceCheckCommand, Serviceable, Running
  <2>2. fg'.at = "observed"
    BY <2>1 DEF At
  <2>3. ServiceKnows(cd, fg')
    BY <1>1, <2>1, <2>2, FlaglessKnows DEF ServiceKnows
  <2>4. EntryKept(cd, fg', lid')
    BY <2>2 DEF EntryKept
  <2> QED BY <1>1, <2>1, <2>3, <2>4 DEF Agreed
<1>4. CASE Supervise
  <2>1. cd' = [cd EXCEPT !.sync_complete = FALSE] /\ fg' = At("idle")
    BY <1>4 DEF Supervise, Collect
  <2>2. Roles(cd')
    BY <1>1, <2>1, OtherFields, ViewRoles
  <2>3. fg'.at = "idle"
    BY <2>1, RestingPoints
  <2> QED BY <2>2, <2>3, RestedAgreed
<1>5. CASE WatchdogDue
  <2> DEFINE point == IF cd.init_command = 0 /\ ~cd.init_retry
                      THEN "watch_command" ELSE "watch_step"
  <2>1. cd' = cd /\ fg' = At(point) /\ Supervising
    BY <1>5 DEF WatchdogDue
  <2>2. /\ cd.waiting = "None" /\ "RECOVERY_PENDING" \notin cd.status_flags /\ ~Astray(cd)
        /\ cd.current_command # "None" \/ cd.init_command # 0 \/ cd.init_retry
    <3>1. CASE Serviceable /\ cd.current_command # "None"
      BY <1>1, <3>1, FlaglessKnows DEF Serviceable, Running
    <3>2. CASE Running("observed") /\ (cd.init_command # 0 \/ cd.init_retry)
      BY <1>1, <3>2 DEF ServiceKnows, Running
    <3> QED BY <2>1, <3>1, <3>2 DEF Supervising
  <2>3. point \in {"watch_command", "watch_step"} /\ fg'.at = point
        /\ fg'.open = (point \in Windows)
    BY <2>1 DEF At
  <2>4. fg'.open = FALSE
    <3>1. point \notin Windows
      BY <2>3 DEF DataInTurn
    <3> QED BY <2>1, <3>1, ShutPoint
  <2>5. point = "watch_command" =>
          cd.current_command # "None" /\ cd.init_command = 0 /\ cd.init_retry = FALSE
    BY <1>1, <2>2
  <2>6. point = "watch_step" => cd.init_command # 0
    BY <2>2 DEF Astray
  <2> HIDE DEF point
  <2>7. ServiceKnows(cd, fg')
    BY <2>2, <2>3, <2>4, <2>5, <2>6 DEF ServiceKnows
  <2>8. EntryKept(cd, fg', lid')
    BY <2>3 DEF EntryKept
  <2> QED BY <1>1, <2>1, <2>7, <2>8 DEF Agreed
<1>6. CASE WatchdogCommand \/ Restart
  <2> DEFINE resume == Resumable(cd)
  <2>1. /\ cd' = [cd EXCEPT !.current_command = "Nop",
                            !.playback_state = resume,
                            !.sync_callback = "complete_command",
                            !.ready_callback = "none"]
        /\ fg' \in {At("blocking"), At("starting")}
    BY <1>6 DEF WatchdogCommand, Restart
  <2> HIDE DEF resume
  <2>2. ~IsEmpty(cd) /\ cd.init_command = 0 /\ cd.init_retry = FALSE
        /\ "RECOVERY_PENDING" \notin cd.status_flags
    BY <1>1, <1>6 DEF WatchdogCommand, Restart, Unoccupied, Running, ServiceKnows,
       Roles, Commanding
  <2>3. Roles(cd')
    BY <1>1, <2>1, <2>2, WatchedRoles
  <2> QED BY <2>1, <2>3, RestingPoints, RestedAgreed
<1>7. CASE WatchdogStep
  <2>1. /\ cd' = [cd EXCEPT !.sync_callback = "handle_recovery_sync", !.ready_callback = "none"]
        /\ fg' = At("blocking")
    BY <1>7 DEF WatchdogStep
  <2>2. cd.init_command # 0 /\ "RECOVERY_PENDING" \notin cd.status_flags
    BY <1>1, <1>7 DEF WatchdogStep, Running, ServiceKnows
  <2>3. Roles(cd')
    BY <1>1, <2>1, <2>2, WatchedStepRoles
  <2> QED BY <2>1, <2>3, RestingPoints, RestedAgreed
<1>8. CASE WatchdogNop
  <2>1. \/ cd' = SyncCallback(cd, TRUE) /\ fg' = At("idle")
        \/ cd' = SyncCallback(cd, FALSE) /\ fg' = At("blocking")
    BY <1>8 DEF WatchdogNop, BlockingNop
  <2>2. Roles(cd')
    BY <1>1, <2>1, SyncCallbackKept DEF Kept
  <2>3. fg'.at \in {"idle", "blocking"}
    BY <2>1, RestingPoints
  <2> QED BY <2>2, <2>3, RestedAgreed
<1>9. CASE IdleQuiet
  BY <1>2, <1>9, RestingPoints, RestedAgreed DEF IdleQuiet, rested
<1>10. ASSUME IdlePoll \/ IdlePollFails
       PROVE  "RECOVERY_PENDING" \notin rested.status_flags
  BY <1>1, <1>2, <1>10 DEF IdlePoll, IdlePollFails, Unoccupied, Running, ServiceKnows,
     SameView, SameMode
<1>11. CASE IdlePoll
  <2> DEFINE polled == BlockingNop(rested)
             answered == IF ShellOpen THEN HandleSyncError(polled) ELSE polled
  <2>1. cd' = [answered EXCEPT !.sync_complete = FALSE, !.retry_counter = 0] /\ fg' = At("idle")
    BY <1>11 DEF IdlePoll, rested
  <2>2. polled \in MachineType /\ Kept(rested, polled)
    BY <1>2, BlockingNopType, SyncCallbackKept DEF BlockingNop
  <2> HIDE DEF polled
  <2>3. Roles(polled) /\ "RECOVERY_PENDING" \notin polled.status_flags
    BY <1>10, <1>11, <2>2 DEF Kept, Follows
  <2>4. DataQueued(polled)
    BY <2>3 DEF Roles
  <2>5. HandleSyncError(polled) \in MachineType /\ Roles(HandleSyncError(polled))
    BY <2>2, <2>3, <2>4, HandleSyncErrorType, HandleSyncErrorRoles DEF Kept
  <2>6. answered \in MachineType /\ Roles(answered)
    BY <2>2, <2>3, <2>5
  <2> HIDE DEF answered
  <2>7. Roles(cd')
    BY <2>1, <2>6, CountersView, ViewRoles
  <2> QED BY <2>1, <2>7, RestingPoints, RestedAgreed
<1>12. CASE IdlePollFails
  <2> DEFINE count == rested.retry_counter + 1
             counted == [rested EXCEPT !.retry_counter = count]
  <2>1. (cd' = HandleSyncError(rested) \/ cd' = counted) /\ fg' = At("idle")
    BY <1>12 DEF IdlePollFails, rested
  <2>2. DataQueued(rested)
    BY <1>2 DEF Roles
  <2>3. Roles(HandleSyncError(rested))
    BY <1>2, <1>10, <1>12, <2>2, HandleSyncErrorRoles DEF Kept
  <2> HIDE DEF count
  <2>4. Roles(counted)
    BY <1>2, CountersView, ViewRoles
  <2> QED BY <2>1, <2>3, <2>4, RestingPoints, RestedAgreed
<1> QED BY <1>3, <1>4, <1>5, <1>6, <1>7, <1>8, <1>9, <1>11, <1>12

-----------------------------------------------------------------------------
(* Recovery. *)

LEMMA EnterRecoveryRoles ==
    ASSUME NEW m \in MachineType, Roles(m), "RECOVERY_PENDING" \notin m.status_flags
    PROVE  /\ Roles(EnterRecovery(m))
           /\ EnterRecovery(m).status_flags = m.status_flags
<1>1. CASE m.init_state # IDLE
  BY <1>1 DEF EnterRecovery
<1>2. CASE m.init_state = IDLE
  <2> DEFINE resume == Resumable(m)
             n == [m EXCEPT !.init_state = POLL_STATUS,
                            !.playback_state = resume,
                            !.data_ready_pending = FALSE]
  <2>1. EnterRecovery(m) = n
    BY <1>2 DEF EnterRecovery
  <2> HIDE DEF resume
  <2>2. /\ SameQueue(m, n) /\ SameStep(m, n) /\ SameSlots(m, n)
        /\ n.audio_enabled = m.audio_enabled
        /\ n.status_flags = m.status_flags /\ n.init_state = POLL_STATUS
    BY DEF SameQueue, SameStep, SameSlots, MachineType
  <2>3. n.data_ready_pending = m.data_ready_pending
    <3>1. n.data_ready_pending = FALSE
      BY DEF MachineType
    <3> QED BY <3>1 DEF Roles, DataQueued
  <2> HIDE DEF n
  <2>4. m.init_state \notin Started /\ n.init_state \notin 2..8
    BY <1>2, <2>2, StateNumbers
  <2>5. Roles(n)
    BY <2>2, <2>3, <2>4, MovedOnRoles
  <2> QED BY <2>1, <2>2, <2>5
<1> QED BY <1>1, <1>2

(* What a poll finds after its status request. *)
LEMMA PolledRoles ==
    ASSUME RolesInv, Recovering
    PROVE  /\ Polled \in MachineType /\ Roles(Polled)
           /\ "RECOVERY_PENDING" \notin Polled.status_flags
<1> DEFINE m == EnterRecovery(cd)
<1>1. cd \in MachineType /\ Roles(cd) /\ "RECOVERY_PENDING" \notin cd.status_flags
  BY DEF RolesInv, TypeOK, Agreed, Recovering
<1>2. m \in MachineType /\ Roles(m) /\ m.status_flags = cd.status_flags
  BY <1>1, EnterRecoveryType, EnterRecoveryRoles
<1>3. Polled = BlockingNop(m)
  BY DEF Polled
<1> HIDE DEF m
<1>4. Polled \in MachineType /\ Kept(m, Polled)
  BY <1>2, <1>3, BlockingNopType, SyncCallbackKept DEF BlockingNop
<1> QED BY <1>1, <1>2, <1>4 DEF Kept, Follows

LEMMA AbandonRoles ==
    ASSUME NEW m \in MachineType, Roles(m), "RECOVERY_PENDING" \notin m.status_flags
    PROVE  Roles(Abandon(m))
<1> DEFINE paused == BlockingPause(m)
           off == Disarm(paused)
           stopped == [off EXCEPT !.init_command = 0, !.init_retry = FALSE]
<1>1. m.init_state \in InitStates
  BY DEF MachineType
<1>2. CASE m.init_state < SET_MODE
  <2> DEFINE flags == (m.status_flags \cup {"SYNC_ERROR"}) \ {"INVALID_DISC", "NO_DISC"}
             n == [m EXCEPT !.init_state = POLL_STATUS, !.status_flags = flags]
  <2>1. Abandon(m) = n
    BY <1>2 DEF Abandon
  <2>2. "RECOVERY_PENDING" \notin flags
    OBVIOUS
  <2> HIDE DEF flags
  <2>3. /\ SameQueue(m, n) /\ SameStep(m, n) /\ SameSlots(m, n)
        /\ n.audio_enabled = m.audio_enabled /\ n.data_ready_pending = m.data_ready_pending
        /\ n.status_flags = flags /\ n.init_state = POLL_STATUS
    BY DEF SameQueue, SameStep, SameSlots, MachineType
  <2> HIDE DEF n
  <2>4. m.init_state \notin Started /\ n.init_state \notin 2..8
    BY <1>1, <1>2, <2>3, StateNumbers DEF InitStates
  <2> QED BY <2>1, <2>2, <2>3, <2>4, MovedOnRoles
<1>3. CASE ~(m.init_state < SET_MODE)
  <2> DEFINE flags == (stopped.status_flags \cup {"SYNC_ERROR"}) \ {"INVALID_DISC", "NO_DISC"}
             n == [stopped EXCEPT !.init_state = POLL_STATUS, !.status_flags = flags]
  <2>1. Abandon(m) = n
    BY <1>3 DEF Abandon
  <2>2. paused \in MachineType /\ off \in MachineType
    BY BlockingPauseType, DisarmType
  <2>3. /\ SameQueue(m, paused) /\ SameMode(m, paused)
        /\ paused.current_command = m.current_command
    BY DEF BlockingPause, SameQueue, SameMode, MachineType
  <2> HIDE DEF paused
  <2>4. /\ SameQueue(m, off) /\ SameMode(m, off)
        /\ off.current_command = m.current_command
        /\ off.sync_callback = "none" /\ off.ready_callback = "none"
    BY <2>2, <2>3 DEF Disarm, SameQueue, SameMode, MachineType
  <2> HIDE DEF off
  <2>5. stopped \in MachineType
    BY <2>2, StepValues, ZenonT(30) DEF MachineType
  <2>6. /\ SameQueue(m, stopped) /\ SameMode(m, stopped)
        /\ stopped.current_command = m.current_command
        /\ stopped.sync_callback = "none" /\ stopped.ready_callback = "none"
        /\ stopped.init_command = 0 /\ stopped.init_retry = FALSE
    BY <2>2, <2>4 DEF SameQueue, SameMode, MachineType
  <2> HIDE DEF stopped
  <2>7. "RECOVERY_PENDING" \notin flags
    BY <2>6 DEF SameMode
  <2> HIDE DEF flags
  <2>8. /\ SameQueue(m, n)
        /\ n.audio_enabled = m.audio_enabled /\ n.data_ready_pending = m.data_ready_pending
        /\ n.current_command = m.current_command
        /\ n.sync_callback = "none" /\ n.ready_callback = "none"
        /\ n.status_flags = flags /\ n.init_state = POLL_STATUS
    BY <2>5, <2>6 DEF SameQueue, SameMode, MachineType
  <2>9. n.init_command = 0 /\ n.init_retry = FALSE
    BY <2>5, <2>6 DEF MachineType
  <2> HIDE DEF n
  <2>10. DataQueued(n)
    <3>1. n.audio_enabled = FALSE /\ n.data_ready_pending = FALSE
      BY <2>8 DEF Roles, DataQueued
    <3> QED BY <2>8, <3>1, DataQueuedSame DEF Roles
  <2>11. n.current_command # "None" => ~IsEmpty(n)
    BY <2>8, QueueSame DEF Roles, Commanding
  <2>12. n.init_state \notin 2..8
    BY <2>8, StateNumbers
  <2> QED BY <2>1, <2>7, <2>8, <2>9, <2>10, <2>11, <2>12, LetGoRoles
<1> QED BY <1>2, <1>3

(* The checks of the disc and of the drive, before recovery gives a command. *)
LEMMA AskingRoles ==
    ASSUME RolesInv,
           \/ \E spinning \in BOOLEAN : RecoveryCheckDisc(spinning)
           \/ RecoveryWaitForDisc \/ RecoveryWaitForDrive \/ RecoveryDiscType
    PROVE  Roles(cd')
<1>1. Recovering
  BY DEF RecoveryCheckDisc, RecoveryWaitForDisc, RecoveryWaitForDrive, RecoveryDiscType, PollAt
<1>2. /\ Polled \in MachineType /\ Roles(Polled)
      /\ "RECOVERY_PENDING" \notin Polled.status_flags
  BY <1>1, PolledRoles
<1>3. PICK m : m = Polled
  OBVIOUS
<1>4. m.init_state \in 2..8 => DiscUnknown \subseteq m.status_flags
  BY <1>2, <1>3 DEF Roles, Recording
<1>5. CASE \E spinning \in BOOLEAN : RecoveryCheckDisc(spinning)
  <2> DEFINE flags == IF m.init_state = POLL_STATUS
                      THEN (m.status_flags \ {"SYNC_ERROR"}) \cup {"INVALID_DISC", "NO_DISC"}
                      ELSE m.status_flags
             found == FoundClosed
  <2>1. /\ m.init_state \in {POLL_STATUS, CHECK_DISC}
        /\ \/ cd' = [found EXCEPT !.init_state = WAIT_FOR_DISC, !.retry_counter = 0]
           \/ cd' = [found EXCEPT !.init_state = CHECK_DISC]
    <3>1. PICK spinning \in BOOLEAN : RecoveryCheckDisc(spinning)
      BY <1>5
    <3>2. m.init_state \in {POLL_STATUS, CHECK_DISC}
      BY <1>3, <3>1 DEF RecoveryCheckDisc, PollAt
    <3>3. \/ cd' = [FoundClosed EXCEPT !.init_state = WAIT_FOR_DISC, !.retry_counter = 0]
          \/ cd' = [FoundClosed EXCEPT !.init_state = CHECK_DISC]
      <4>1. CASE spinning
        BY <3>1, <4>1 DEF RecoveryCheckDisc
      <4>2. CASE ~spinning
        BY <3>1, <4>2 DEF RecoveryCheckDisc
      <4> QED BY <4>1, <4>2
    <3> QED BY <3>2, <3>3
  <2>2. found \in MachineType
    BY FoundClosedType DEF RolesInv, TypeOK
  <2>3. /\ SameQueue(m, found) /\ SameStep(m, found) /\ SameSlots(m, found)
        /\ found.audio_enabled = m.audio_enabled
        /\ found.data_ready_pending = m.data_ready_pending
        /\ found.status_flags = flags
    BY <1>2, <1>3 DEF FoundClosed, SameQueue, SameStep, SameSlots, MachineType
  <2>4. "RECOVERY_PENDING" \notin flags /\ DiscUnknown \subseteq flags
    <3>1. CASE m.init_state = POLL_STATUS
      BY <1>2, <1>3, <3>1 DEF DiscUnknown
    <3>2. CASE m.init_state # POLL_STATUS
      BY <1>2, <1>3, <1>4, <2>1, <3>2, StateNumbers
    <3> QED BY <3>1, <3>2
  <2> HIDE DEF flags, found
  <2>5. /\ SameQueue(m, cd') /\ SameStep(m, cd') /\ SameSlots(m, cd')
        /\ cd'.audio_enabled = m.audio_enabled
        /\ cd'.data_ready_pending = m.data_ready_pending
        /\ cd'.status_flags = flags
    <3>1. CASE cd' = [found EXCEPT !.init_state = WAIT_FOR_DISC, !.retry_counter = 0]
      BY <2>2, <2>3, <3>1 DEF SameQueue, SameStep, SameSlots, MachineType
    <3>2. CASE cd' = [found EXCEPT !.init_state = CHECK_DISC]
      BY <2>2, <2>3, <3>2 DEF SameQueue, SameStep, SameSlots, MachineType
    <3> QED BY <2>1, <3>1, <3>2
  <2>6. m.init_state \notin Started
    BY <2>1, StateNumbers
  <2> QED BY <1>2, <1>3, <2>4, <2>5, <2>6, MovedOnRoles
<1>6. CASE RecoveryWaitForDisc
  <2> DEFINE count == m.retry_counter + 2
             state == IF m.retry_counter + 1 >= DiscReadyRetryLimit
                      THEN WAIT_FOR_DRIVE ELSE m.init_state
  <2>1. /\ m.init_state = WAIT_FOR_DISC
        /\ \/ cd' = [m EXCEPT !.init_state = WAIT_FOR_DRIVE]
           \/ cd' = [m EXCEPT !.retry_counter = count, !.init_state = state]
    BY <1>3, <1>6 DEF RecoveryWaitForDisc, PollAt
  <2> HIDE DEF count, state
  <2>2. /\ SameQueue(m, cd') /\ SameStep(m, cd') /\ SameSlots(m, cd')
        /\ cd'.audio_enabled = m.audio_enabled
        /\ cd'.data_ready_pending = m.data_ready_pending
        /\ cd'.status_flags = m.status_flags
    <3>1. CASE cd' = [m EXCEPT !.init_state = WAIT_FOR_DRIVE]
      BY <1>2, <1>3, <3>1 DEF SameQueue, SameStep, SameSlots, MachineType
    <3>2. CASE cd' = [m EXCEPT !.retry_counter = count, !.init_state = state]
      BY <1>2, <1>3, <3>2 DEF SameQueue, SameStep, SameSlots, MachineType
    <3> QED BY <2>1, <3>1, <3>2
  <2>3. m.init_state \notin Started /\ DiscUnknown \subseteq m.status_flags
    BY <1>4, <2>1, StateNumbers
  <2> QED BY <1>2, <1>3, <2>2, <2>3, MovedOnRoles
<1>7. CASE RecoveryWaitForDrive
  <2>1. /\ m.init_state = WAIT_FOR_DRIVE
        /\ \/ cd' = [m EXCEPT !.init_state = CHECK_DISC_TYPE]
           \/ cd' = [m EXCEPT !.init_state = POLL_STATUS]
    BY <1>3, <1>7 DEF RecoveryWaitForDrive, PollAt
  <2>2. /\ SameQueue(m, cd') /\ SameStep(m, cd') /\ SameSlots(m, cd')
        /\ cd'.audio_enabled = m.audio_enabled
        /\ cd'.data_ready_pending = m.data_ready_pending
        /\ cd'.status_flags = m.status_flags
    <3>1. CASE cd' = [m EXCEPT !.init_state = CHECK_DISC_TYPE]
      BY <1>2, <1>3, <3>1 DEF SameQueue, SameStep, SameSlots, MachineType
    <3>2. CASE cd' = [m EXCEPT !.init_state = POLL_STATUS]
      BY <1>2, <1>3, <3>2 DEF SameQueue, SameStep, SameSlots, MachineType
    <3> QED BY <2>1, <3>1, <3>2
  <2>3. m.init_state \notin Started /\ DiscUnknown \subseteq m.status_flags
    BY <1>4, <2>1, StateNumbers
  <2> QED BY <1>2, <1>3, <2>2, <2>3, MovedOnRoles
<1>8. CASE RecoveryDiscType
  <2> DEFINE flags == m.status_flags \ {"INVALID_DISC"}
  <2>1. /\ m.init_state = CHECK_DISC_TYPE
        /\ \/ cd' = [m EXCEPT !.init_state = ERROR_PAUSE, !.status_flags = flags]
           \/ cd' = [m EXCEPT !.init_state = SET_MODE]
           \/ cd' = m
    BY <1>3, <1>8 DEF RecoveryDiscType, PollAt
  <2>2. "RECOVERY_PENDING" \notin flags
    BY <1>2, <1>3
  <2> HIDE DEF flags
  <2>3. m.init_state \notin Started /\ DiscUnknown \subseteq m.status_flags
    BY <1>4, <2>1, StateNumbers
  <2>4. CASE cd' = [m EXCEPT !.init_state = ERROR_PAUSE, !.status_flags = flags]
    <3>1. /\ SameQueue(m, cd') /\ SameStep(m, cd') /\ SameSlots(m, cd')
          /\ cd'.audio_enabled = m.audio_enabled
          /\ cd'.data_ready_pending = m.data_ready_pending
          /\ cd'.status_flags = flags /\ cd'.init_state = ERROR_PAUSE
      BY <1>2, <1>3, <2>4 DEF SameQueue, SameStep, SameSlots, MachineType
    <3>2. cd'.init_state \notin 2..8
      BY <3>1, StateNumbers
    <3> QED BY <1>2, <1>3, <2>2, <2>3, <3>1, <3>2, MovedOnRoles
  <2>5. CASE cd' = [m EXCEPT !.init_state = SET_MODE]
    <3>1. /\ SameQueue(m, cd') /\ SameStep(m, cd') /\ SameSlots(m, cd')
          /\ cd'.audio_enabled = m.audio_enabled
          /\ cd'.data_ready_pending = m.data_ready_pending
          /\ cd'.status_flags = m.status_flags
      BY <1>2, <1>3, <2>5 DEF SameQueue, SameStep, SameSlots, MachineType
    <3> QED BY <1>2, <1>3, <2>3, <3>1, MovedOnRoles
  <2>6. CASE cd' = m
    BY <1>2, <1>3, <2>6
  <2> QED BY <2>1, <2>4, <2>5, <2>6
<1> QED BY <1>5, <1>6, <1>7, <1>8

(* A poll that has found a state in which recovery has given commands. *)
LEMMA StepsRoles ==
    ASSUME RolesInv,
           \/ RecoverySetMode \/ RecoveryReadDiscId \/ RecoveryWaitForRead \/ RecoveryReadTimeout
           \/ RecoveryStopDrive \/ RecoveryRests
    PROVE  Roles(cd')
<1>1. Recovering
  BY DEF RecoverySetMode, RecoveryReadDiscId, RecoveryWaitForRead, RecoveryReadTimeout,
     RecoveryStopDrive, RecoveryRests, PollAt
<1>2. /\ Polled \in MachineType /\ Roles(Polled)
      /\ "RECOVERY_PENDING" \notin Polled.status_flags
  BY <1>1, PolledRoles
<1>3. PICK m : m = Polled
  OBVIOUS
<1>4. m \in MachineType /\ Roles(m) /\ "RECOVERY_PENDING" \notin m.status_flags
  BY <1>2, <1>3
<1>5. /\ m.init_state \in 2..8 => DiscUnknown \subseteq m.status_flags
      /\ DataQueued(m) /\ (m.current_command # "None" => ~IsEmpty(m))
  BY <1>4 DEF Roles, Recording, Commanding
<1>6. CASE RecoverySetMode
  <2>1. m.init_state = SET_MODE /\ cd' = Issue(m, "none", RECOVERY_SET_MODE, "Setmode", 0)
    BY <1>3, <1>6 DEF RecoverySetMode, PollAt
  <2>2. m.init_state \in Started /\ DiscUnknown \subseteq m.status_flags
        /\ RECOVERY_SET_MODE \in RecoverySteps
    BY <1>5, <2>1, StateNumbers, StepNumbers
  <2> QED BY <1>4, <1>5, <2>1, <2>2, IssueRoles
<1>7. CASE RecoveryReadDiscId
  <2> DEFINE p == [m EXCEPT !.init_state = WAIT_FOR_READ]
  <2>1. m.init_state = READ_DISC_ID
        /\ cd' = Issue(p, "verify_disc", RECOVERY_READ_DISC_ID, "ReadN", ValidationLocation)
    BY <1>3, <1>7 DEF RecoveryReadDiscId, PollAt
  <2>2. p \in MachineType
    BY <1>4, StateNumbers DEF MachineType, InitStates
  <2>3. /\ SameQueue(m, p) /\ p.audio_enabled = m.audio_enabled
        /\ p.data_ready_pending = m.data_ready_pending
        /\ p.status_flags = m.status_flags /\ p.init_state = WAIT_FOR_READ
        /\ p.current_command = m.current_command
    BY <1>4, StateNumbers DEF SameQueue, MachineType
  <2> HIDE DEF p
  <2>4. DataQueued(p)
    <3>1. p.audio_enabled = FALSE /\ p.data_ready_pending = FALSE
      BY <1>5, <2>3 DEF DataQueued
    <3> QED BY <1>5, <2>3, <3>1, DataQueuedSame
  <2>5. p.current_command # "None" => ~IsEmpty(p)
    BY <1>5, <2>3, QueueSame
  <2>6. /\ DiscUnknown \subseteq p.status_flags /\ p.init_state \in Started
        /\ "RECOVERY_PENDING" \notin p.status_flags
        /\ RECOVERY_READ_DISC_ID \in RecoverySteps
    BY <1>4, <1>5, <2>1, <2>3, StateNumbers, StepNumbers
  <2> QED BY <2>1, <2>2, <2>3, <2>4, <2>5, <2>6, IssueRoles
<1>8. CASE RecoveryWaitForRead
  <2>1. cd' = [m EXCEPT !.sync_complete = FALSE]
    BY <1>3, <1>8 DEF RecoveryWaitForRead, Collect
  <2> QED BY <1>4, <2>1, OtherFields, ViewRoles
<1>9. CASE RecoveryReadTimeout
  <2> DEFINE p == [m EXCEPT !.sync_callback = "handle_recovery_sync"]
  <2>1. m.init_state = WAIT_FOR_READ
    BY <1>3, <1>9 DEF RecoveryReadTimeout, PollAt
  <2>2. \/ m.init_command = RECOVERY_RETRY_READ /\ cd' = CdControlF(p, "Pause", 0)
        \/ m.init_command = RECOVERY_COMPLETE /\ cd' = CdControlF(p, "Setmode", 0)
        \/ cd' = Issue(p, "verify_disc", RECOVERY_READ_DISC_ID, "ReadN", ValidationLocation)
    BY <1>3, <1>9 DEF RecoveryReadTimeout
  <2>3. ASSUME m.init_command \in {RECOVERY_RETRY_READ, RECOVERY_COMPLETE}
        PROVE  m.init_command # 0 /\ m.ready_callback # "handle_ready_intr"
    BY <1>4, <2>3, StepNumbers DEF Roles, Receiving, Commanding
  <2>4. CASE m.init_command = RECOVERY_RETRY_READ /\ cd' = CdControlF(p, "Pause", 0)
    BY <1>4, <2>3, <2>4, RepeatRoles
  <2>5. CASE m.init_command = RECOVERY_COMPLETE /\ cd' = CdControlF(p, "Setmode", 0)
    BY <1>4, <2>3, <2>5, RepeatRoles
  <2>6. CASE cd' = Issue(p, "verify_disc", RECOVERY_READ_DISC_ID, "ReadN", ValidationLocation)
    <3>1. p \in MachineType
      BY <1>4, FieldUpdates
    <3>2. /\ SameQueue(m, p) /\ SameMode(m, p)
          /\ p.current_command = m.current_command
      BY <1>4 DEF SameQueue, SameMode, MachineType
    <3> HIDE DEF p
    <3>3. DataQueued(p)
      <4>1. p.audio_enabled = FALSE /\ p.data_ready_pending = FALSE
        BY <1>5, <3>2 DEF DataQueued, SameMode
      <4> QED BY <1>5, <3>2, <4>1, DataQueuedSame
    <3>4. p.current_command # "None" => ~IsEmpty(p)
      BY <1>5, <3>2, QueueSame
    <3>5. /\ DiscUnknown \subseteq p.status_flags /\ p.init_state = WAIT_FOR_READ
          /\ p.init_state \in Started
          /\ "RECOVERY_PENDING" \notin p.status_flags
          /\ RECOVERY_READ_DISC_ID \in RecoverySteps
      BY <1>4, <1>5, <2>1, <3>2, StateNumbers, StepNumbers DEF SameMode
    <3> QED BY <2>6, <3>1, <3>3, <3>4, <3>5, IssueRoles
  <2> QED BY <2>2, <2>4, <2>5, <2>6
<1>10. CASE RecoveryStopDrive
  <2> DEFINE paused == BlockingPause(m)
             n == [paused EXCEPT !.init_state = RETRY_READ]
  <2>1. m.init_state = ERROR_PAUSE /\ cd' = n
    BY <1>3, <1>10 DEF RecoveryStopDrive, PollAt
  <2>2. paused \in MachineType
    BY <1>4, BlockingPauseType
  <2>3. SameView(m, paused)
    BY <1>4 DEF BlockingPause, SameView, SameQueue, SameMode, SameStep, SameSlots, MachineType
  <2> HIDE DEF paused
  <2>4. /\ SameQueue(m, n) /\ SameStep(m, n) /\ SameSlots(m, n)
        /\ n.audio_enabled = m.audio_enabled /\ n.data_ready_pending = m.data_ready_pending
        /\ n.status_flags = m.status_flags /\ n.init_state = RETRY_READ
    BY <2>2, <2>3, StateNumbers
       DEF SameView, SameQueue, SameMode, SameStep, SameSlots, MachineType
  <2> HIDE DEF n
  <2>5. DataQueued(n)
    <3>1. n.audio_enabled = FALSE /\ n.data_ready_pending = FALSE
      BY <1>5, <2>4 DEF DataQueued
    <3> QED BY <1>5, <2>4, <3>1, DataQueuedSame
  <2>6. Commanding(n) /\ Receiving(n)
    BY <1>4, <2>4, QueueSame DEF SameStep, SameSlots, Roles, Commanding, Receiving
  <2>7. Exclusive(n) /\ Stepped(n)
    BY <1>4, <2>4 DEF SameStep, SameSlots, Roles, Exclusive, Stepped
  <2>8. Recording(n)
    BY <1>4, <2>1, <2>4, StateNumbers DEF SameStep, SameSlots, Roles, Recording
  <2>9. Strayed(n)
    BY <1>4, <2>4 DEF SameStep, Roles, Strayed, Astray
  <2>10. Reconfigures(n)
    BY <1>4, <2>4 DEF SameStep, Roles, Reconfigures
  <2> QED BY <2>1, <2>5, <2>6, <2>7, <2>8, <2>9, <2>10 DEF Roles
<1>11. CASE RecoveryRests
  BY <1>2, <1>11 DEF RecoveryRests
<1> QED BY <1>6, <1>7, <1>8, <1>9, <1>10, <1>11

LEMMA RecoveryAgreed ==
    ASSUME RolesInv, RecoveryWait \/ RecoveryPoll
    PROVE  Agreed(cd', fg', lid')
<1>1. fg' = fg /\ fg.at = "idle" /\ Recovering
  BY DEF RecoveryWait, RecoveryPoll, RecoveryAbandon, RecoveryCheckDisc, RecoveryWaitForDisc,
     RecoveryWaitForDrive, RecoveryDiscType, RecoverySetMode, RecoveryReadDiscId,
     RecoveryWaitForRead, RecoveryReadTimeout, RecoveryStopDrive, RecoveryRests,
     PollAt, Recovering, Running
<1>2. cd \in MachineType /\ Roles(cd) /\ "RECOVERY_PENDING" \notin cd.status_flags
  BY <1>1 DEF RolesInv, TypeOK, Agreed, Recovering
<1>3. CASE RecoveryWait
  BY <1>1, <1>2, <1>3, EnterRecoveryRoles, RestedAgreed DEF RecoveryWait
<1>4. CASE RecoveryAbandon
  <2>1. cd' = Abandon(Polled) \/ cd' = Abandon(EnterRecovery(cd))
    BY <1>4 DEF RecoveryAbandon, Polled
  <2>2. /\ EnterRecovery(cd) \in MachineType /\ Roles(EnterRecovery(cd))
        /\ "RECOVERY_PENDING" \notin EnterRecovery(cd).status_flags
    BY <1>2, EnterRecoveryType, EnterRecoveryRoles
  <2> QED BY <1>1, <2>1, <2>2, PolledRoles, AbandonRoles, RestedAgreed
<1>5. CASE \/ \E spinning \in BOOLEAN : RecoveryCheckDisc(spinning)
           \/ RecoveryWaitForDisc \/ RecoveryWaitForDrive \/ RecoveryDiscType
  BY <1>1, <1>5, AskingRoles, RestedAgreed
<1>6. CASE \/ RecoverySetMode \/ RecoveryReadDiscId \/ RecoveryWaitForRead \/ RecoveryReadTimeout
           \/ RecoveryStopDrive \/ RecoveryRests
  BY <1>1, <1>6, StepsRoles, RestedAgreed
<1> QED BY <1>3, <1>4, <1>5, <1>6 DEF RecoveryPoll

-----------------------------------------------------------------------------
(* Reconfiguration. *)

(* What holds of the machine while it is reconfigured. *)
LEMMA ReconfiguringKnows ==
    ASSUME NEW m, Roles(m), "RECOVERY_PENDING" \in m.status_flags
    PROVE  /\ DataQueued(m) /\ ~Failing(m) /\ ~Astray(m)
           /\ m.sync_callback # "complete_command" /\ m.ready_callback = "none"
           /\ m.current_command = "None"
           /\ m.init_command \in Reconfiguration \cup {0}
           /\ m.init_state \in 0..3
BY DEF Roles, Reconfigures, Strayed

(* Reconfiguration goes on to another state. *)
LEMMA ReconfiguredRoles ==
    ASSUME NEW m, NEW n, Roles(m), "RECOVERY_PENDING" \in m.status_flags,
           SameQueue(m, n), SameStep(m, n), SameSlots(m, n),
           n.audio_enabled = m.audio_enabled, n.data_ready_pending = m.data_ready_pending,
           n.status_flags = m.status_flags, n.init_state \in 0..3
    PROVE  Roles(n)
<1>1. /\ DataQueued(m) /\ ~Failing(m) /\ ~Astray(m)
      /\ m.sync_callback # "complete_command" /\ m.ready_callback = "none"
      /\ m.current_command = "None" /\ m.init_command \in Reconfiguration \cup {0}
  BY ReconfiguringKnows
<1>2. DataQueued(n)
  <2>1. n.audio_enabled = FALSE /\ n.data_ready_pending = FALSE
    BY <1>1 DEF DataQueued
  <2> QED BY <1>1, <2>1, DataQueuedSame
<1>3. Commanding(n) /\ Receiving(n)
  BY <1>1 DEF SameSlots, Commanding, Receiving
<1>4. Exclusive(n) /\ Stepped(n)
  BY DEF SameStep, SameSlots, Roles, Exclusive, Stepped
<1>5. Recording(n)
  BY <1>1, StepNumbers DEF SameStep, SameSlots, Recording
<1>6. Strayed(n)
  BY <1>1 DEF SameStep, Strayed, Astray
<1>7. Reconfigures(n)
  BY <1>1, ViewFailing DEF SameStep, SameSlots, Reconfigures
<1> QED BY <1>2, <1>3, <1>4, <1>5, <1>6, <1>7 DEF Roles

LEMMA ReconfigurationAgreed ==
    ASSUME RolesInv, Recover
    PROVE  Agreed(cd', fg', lid')
<1> USE DEF environment
<1>1. fg' = fg /\ fg.at = "idle" /\ "RECOVERY_PENDING" \in cd.status_flags
  BY DEF Recover, RecoverFlush, RecoverSetMode, RecoverSetFilter, RecoverActivity,
     RecoverTimeout, Reconfiguring, Running
<1>2. cd \in MachineType /\ Roles(cd)
  BY DEF RolesInv, TypeOK, Agreed
<1>3. /\ DataQueued(cd) /\ ~Failing(cd)
      /\ cd.ready_callback = "none" /\ cd.current_command = "None"
      /\ cd.init_state \in 0..3
  BY <1>1, <1>2, ReconfiguringKnows
<1>4. /\ STEP_SET_FILTER \in Reconfiguration /\ STEP_DEMUTE \in Reconfiguration
      /\ STEP_PAUSE \in Reconfiguration
      /\ STEP_DEMUTE # 0 /\ STEP_PAUSE # 0
  BY StepNumbers
<1>5. CASE RecoverFlush
  <2>1. cd' = [cd EXCEPT !.init_state = RECONF_SET_MODE, !.issued = "None", !.filtered = FALSE]
    BY <1>5 DEF RecoverFlush
  <2>2. /\ SameQueue(cd, cd') /\ SameStep(cd, cd') /\ SameSlots(cd, cd')
        /\ cd'.audio_enabled = cd.audio_enabled
        /\ cd'.data_ready_pending = cd.data_ready_pending
        /\ cd'.status_flags = cd.status_flags /\ cd'.init_state = RECONF_SET_MODE
    BY <1>2, <2>1 DEF SameQueue, SameStep, SameSlots, MachineType
  <2>3. cd'.init_state \in 0..3
    BY <2>2, StateNumbers
  <2>4. Roles(cd')
    BY <1>1, <1>2, <2>2, <2>3, ReconfiguredRoles
  <2> QED BY <1>1, <2>4, RestedAgreed
<1>6. CASE RecoverSetMode
  <2>1. cd' = Issue(cd, "none", STEP_SET_FILTER, "Setmode", 0)
    BY <1>6 DEF RecoverSetMode
  <2>2. Roles(cd')
    BY <1>1, <1>2, <1>3, <1>4, <2>1, ReissueRoles
  <2> QED BY <1>1, <2>2, RestedAgreed
<1>7. CASE RecoverSetFilter
  <2> DEFINE p == [cd EXCEPT !.init_state = RECONF_WAIT]
  <2>1. cd' = Issue(p, "none", STEP_DEMUTE, "Setfilter", 0)
    BY <1>3, <1>7 DEF RecoverSetFilter
  <2>2. p \in MachineType
    <3>1. RECONF_WAIT \in InitStates
      BY StateNumbers DEF InitStates
    <3> QED BY <1>2, <3>1, FieldUpdates
  <2>3. /\ SameQueue(cd, p) /\ p.audio_enabled = cd.audio_enabled
        /\ p.data_ready_pending = cd.data_ready_pending
        /\ p.status_flags = cd.status_flags /\ p.init_state = RECONF_WAIT
        /\ p.current_command = cd.current_command
    BY <1>2, StateNumbers DEF SameQueue, MachineType
  <2> HIDE DEF p
  <2>4. DataQueued(p)
    <3>1. p.audio_enabled = FALSE /\ p.data_ready_pending = FALSE
      BY <1>3, <2>3 DEF DataQueued
    <3> QED BY <1>3, <2>3, <3>1, DataQueuedSame
  <2>5. ~Failing(p) /\ p.init_state \in 0..3
    BY <1>3, <2>3, ViewFailing, StateNumbers
  <2>6. Roles(cd')
    BY <1>1, <1>3, <1>4, <2>1, <2>2, <2>3, <2>4, <2>5, ReissueRoles
  <2> QED BY <1>1, <2>6, RestedAgreed
<1>8. CASE RecoverActivity
  <2>1. cd' = [cd EXCEPT !.sync_complete = FALSE]
    BY <1>8 DEF RecoverActivity, Collect
  <2>2. Roles(cd')
    BY <1>2, <2>1, OtherFields, ViewRoles
  <2> QED BY <1>1, <2>2, RestedAgreed
<1>9. CASE RecoverTimeout
  <2> DEFINE p == [cd EXCEPT !.sync_callback = "handle_recovery_sync"]
             step == IF cd.init_retry THEN 0 ELSE cd.init_command
  <2>1. \/ step = STEP_DEMUTE /\ cd' = CdControlF(p, "Demute", 0)
        \/ step = STEP_PAUSE /\ cd' = CdControlF(p, "Pause", 0)
        \/ cd' = Issue(p, p.ready_callback, STEP_SET_FILTER, "Setfilter", 0)
    BY <1>9 DEF RecoverTimeout
  <2>2. step \in {STEP_DEMUTE, STEP_PAUSE} =>
          cd.init_command # 0 /\ cd.init_command \in Reconfiguration
    BY <1>4
  <2> HIDE DEF step
  <2>3. CASE step = STEP_DEMUTE /\ cd' = CdControlF(p, "Demute", 0)
    <3>1. Roles(cd')
      BY <1>2, <1>3, <2>2, <2>3, RepeatRoles
    <3> QED BY <1>1, <3>1, RestedAgreed
  <2>4. CASE step = STEP_PAUSE /\ cd' = CdControlF(p, "Pause", 0)
    <3>1. Roles(cd')
      BY <1>2, <1>3, <2>2, <2>4, RepeatRoles
    <3> QED BY <1>1, <3>1, RestedAgreed
  <2>5. CASE cd' = Issue(p, p.ready_callback, STEP_SET_FILTER, "Setfilter", 0)
    <3>1. p \in MachineType
      BY <1>2, FieldUpdates
    <3>2. /\ SameQueue(cd, p) /\ SameMode(cd, p)
          /\ p.current_command = cd.current_command /\ p.ready_callback = cd.ready_callback
      BY <1>2 DEF SameQueue, SameMode, MachineType
    <3> HIDE DEF p
    <3>3. DataQueued(p)
      <4>1. p.audio_enabled = FALSE /\ p.data_ready_pending = FALSE
        BY <1>3, <3>2 DEF DataQueued, SameMode
      <4> QED BY <1>3, <3>2, <4>1, DataQueuedSame
    <3>4. ~Failing(p) /\ p.init_state \in 0..3 /\ "RECOVERY_PENDING" \in p.status_flags
      BY <1>1, <1>3, <3>2, ViewFailing DEF SameMode
    <3>5. cd' = Issue(p, "none", STEP_SET_FILTER, "Setfilter", 0)
      BY <1>3, <2>5, <3>2
    <3>6. Roles(cd')
      BY <1>3, <1>4, <3>1, <3>2, <3>3, <3>4, <3>5, ReissueRoles
    <3> QED BY <1>1, <3>6, RestedAgreed
  <2> QED BY <2>1, <2>3, <2>4, <2>5
<1> QED BY <1>5, <1>6, <1>7, <1>8, <1>9 DEF Recover

-----------------------------------------------------------------------------
(* The drive. *)

(* A handler runs at a point of the foreground at which it may. *)
LEMMA InterruptAgreed ==
    ASSUME NEW m, NEW n, TypeOK, Interrupt, Agreed(m, fg, lid), Kept(m, n),
           m.waiting = cd.waiting,
           fg.at \in {"published", "checking"} /\ fg.open =>
             n.waiting = "None" \/ (lid' = "open" /\ Stuck(n)),
           fg.at \in {"published", "checking"} /\ ~fg.open =>
             lid' = "open" /\ Stuck(n) /\ (IsEmpty(n) <=> IsEmpty(m)),
           fg.at = "observed" /\ fg.open => n.waiting = "None"
    PROVE  Agreed(n, fg', lid')
<1>1. fg'.at = fg.at /\ fg'.open = FALSE
  BY DEF Interrupt, TypeOK
<1>2. EntryKept(m, fg, lid) /\ ServiceKnows(m, fg) /\ Follows(m, n) /\ Roles(n)
  BY DEF Agreed, Kept
<1>3. EntryKept(n, fg', lid')
  <2> SUFFICES ASSUME fg.at \in {"published", "checking"}
               PROVE  ~IsEmpty(n) /\ (n.waiting # "None" => lid' = "open" /\ Stuck(n))
    BY <1>1 DEF EntryKept
  <2>1. CASE fg.open
    <3>1. ~IsEmpty(m) /\ (m.current_command # "None" => Spare(m))
      BY <1>2, <2>1 DEF EntryKept
    <3>2. ~IsEmpty(n)
      BY <1>2, <3>1 DEF Follows
    <3> QED BY <2>1, <3>2
  <2>2. CASE ~fg.open
    BY <1>2, <2>2 DEF EntryKept
  <2> QED BY <2>1, <2>2
<1>4. ServiceKnows(n, fg')
  <2> SUFFICES ASSUME fg.at \in {"observed", "watch_command", "watch_step"}
               PROVE  /\ fg.at = "observed" /\ n.waiting = "None"
                      /\ "RECOVERY_PENDING" \notin n.status_flags /\ ~Astray(n)
    BY <1>1 DEF ServiceKnows
  <2>1. fg.at = "observed" /\ fg.open
    BY <1>2 DEF ServiceKnows, Interrupt
  <2>2. ~Failing(m) /\ ~Astray(m) /\ "RECOVERY_PENDING" \notin m.status_flags
    BY <1>2, <2>1 DEF ServiceKnows
  <2>3. "INVALID_DISC" \notin m.status_flags
    BY <2>2 DEF Failing, HasFlag, ErrorFlags
  <2> QED BY <1>2, <2>1, <2>2, <2>3 DEF Follows
<1> QED BY <1>2, <1>3, <1>4 DEF Agreed

(* An answer reaches the sync callback. *)
LEMMA AnsweredAgreed ==
    ASSUME RolesInv, Interrupt, NEW m \in MachineType, SameView(cd, m),
           m.waiting = cd.waiting, m.issued = "None", NEW complete \in BOOLEAN,
           lid = "open" => lid' = "open"
    PROVE  Agreed(SyncCallback(m, complete), fg', lid')
<1> DEFINE n == SyncCallback(m, complete)
<1>1. TypeOK /\ Agreed(cd, fg, lid)
  BY DEF RolesInv
<1>2. Agreed(m, fg, lid)
  BY <1>1, ViewAgreed
<1>3. Kept(m, n)
  BY <1>2, SyncCallbackKept DEF Agreed
<1>4. n.waiting = cd.waiting
  BY <1>3 DEF Kept, Follows
<1>5. Stuck(m) /\ ShellOpen => Stuck(n) /\ (IsEmpty(n) <=> IsEmpty(m))
  BY <1>2, SyncCallbackStuck DEF Agreed
<1> HIDE DEF n
<1>6. fg.at \in {"published", "checking"} /\ fg.open => n.waiting = "None"
  BY <1>1, <1>4 DEF Agreed, EntryKept
<1>7. ASSUME fg.at \in {"published", "checking"}, ~fg.open
      PROVE  lid' = "open" /\ Stuck(n) /\ (IsEmpty(n) <=> IsEmpty(m))
  <2>1. m.waiting # "None"
    BY <1>7 DEF Interrupt
  <2>2. lid = "open" /\ Stuck(m)
    BY <1>2, <1>7, <2>1 DEF Agreed, EntryKept
  <2>3. ShellOpen
    BY <2>2 DEF ShellOpen
  <2> QED BY <1>5, <2>2, <2>3
<1>8. fg.at = "observed" /\ fg.open => n.waiting = "None"
  BY <1>1, <1>4 DEF Agreed, ServiceKnows
<1>9. Agreed(n, fg', lid')
  <2>1. fg.at \in {"published", "checking"} /\ fg.open =>
          n.waiting = "None" \/ (lid' = "open" /\ Stuck(n))
    BY <1>6
  <2>2. fg.at \in {"published", "checking"} /\ ~fg.open =>
          lid' = "open" /\ Stuck(n) /\ (IsEmpty(n) <=> IsEmpty(m))
    BY <1>7
  <2> QED BY <1>1, <1>2, <1>3, <1>8, <2>1, <2>2, InterruptAgreed
<1> QED BY <1>9 DEF n

(* A handler takes a sector, or is told of none, while libcd does not wait. *)
LEMMA TakenAgreed ==
    ASSUME RolesInv, Interrupt, NEW m, NEW n, SameView(cd, m), m.waiting = cd.waiting,
           cd.waiting = "None", Kept(m, n), n.waiting = "None"
    PROVE  Agreed(n, fg', lid')
<1>1. TypeOK /\ Agreed(cd, fg, lid)
  BY DEF RolesInv
<1>2. Agreed(m, fg, lid)
  BY <1>1, ViewAgreed
<1>3. fg.at \in {"published", "checking"} /\ fg.open =>
        n.waiting = "None" \/ (lid' = "open" /\ Stuck(n))
  OBVIOUS
<1>4. fg.at \in {"published", "checking"} /\ ~fg.open =>
        lid' = "open" /\ Stuck(n) /\ (IsEmpty(n) <=> IsEmpty(m))
  BY DEF Interrupt
<1>5. fg.at = "observed" /\ fg.open => n.waiting = "None"
  OBVIOUS
<1> QED BY <1>1, <1>2, <1>3, <1>4, <1>5, InterruptAgreed

LEMMA NextSectorView ==
    ASSUME cd \in MachineType
    PROVE  /\ NextSector \in MachineType /\ SameView(cd, NextSector) /\ SameLine(cd, NextSector)
<1>1. NextSector \in MachineType
  BY NextSectorType
<1>2. SameView(cd, NextSector) /\ SameLine(cd, NextSector)
  BY DEF NextSector, SameView, SameQueue, SameMode, SameStep, SameSlots, SameLine, MachineType
<1> QED BY <1>1, <1>2

LEMMA ExecutedView ==
    ASSUME NEW m \in MachineType
    PROVE  /\ SameView(m, Executed(m))
           /\ Executed(m).waiting = m.waiting /\ Executed(m).issued = "None"
<1> DEFINE turns == IF m.issued \in {"ReadN", "ReadS"} THEN TRUE
                    ELSE m.issued \notin {"Pause", "SeekL"} /\ m.reading
           at == IF m.issued \in {"ReadN", "ReadS"} THEN m.issued_location ELSE m.head
           passes == m.filtered \/ m.issued = "Setfilter"
<1>1. Executed(m) = [m EXCEPT !.issued = "None", !.reading = turns, !.head = at,
                              !.filtered = passes]
  BY DEF Executed
<1> HIDE DEF turns, at, passes
<1> QED BY <1>1 DEF SameView, SameQueue, SameMode, SameStep, SameSlots, MachineType

LEMMA NoOverlap ==
    ASSUME DataInTurn, NEW kinds, Faults(kinds \cup Overlap)
    PROVE  cd.ready_callback # "none" => cd.issued = "None"
BY DEF DataInTurn, Faults, Overlap

LEMMA DriveAgreed ==
    ASSUME DataInTurn, RolesInv, Drive
    PROVE  Agreed(cd', fg', lid')
<1> USE DEF environment
<1>1. cd \in MachineType /\ Roles(cd) /\ TypeOK /\ Agreed(cd, fg, lid)
  BY DEF RolesInv, TypeOK, Agreed
<1>2. CASE CommandDone
  <2> DEFINE m == Executed(cd)
  <2>1. /\ Interrupt /\ cd' = SyncCallback(m, TRUE)
        /\ lid = "open" => lid' = "open"
    BY <1>2 DEF CommandDone, StatusRead
  <2>2. m \in MachineType /\ SameView(cd, m) /\ m.waiting = cd.waiting /\ m.issued = "None"
    BY <1>1, ExecutedType, ExecutedView
  <2> HIDE DEF m
  <2> QED BY <2>1, <2>2, AnsweredAgreed
<1>3. CASE CommandFailed
  <2> DEFINE m == [cd EXCEPT !.issued = "None"]
  <2>1. /\ Interrupt /\ cd' = SyncCallback(m, FALSE)
        /\ lid = "open" => lid' = "open"
    BY <1>3 DEF CommandFailed, StatusRead
  <2>2. m \in MachineType
    BY <1>1, CommandValues DEF MachineType
  <2>3. SameView(cd, m) /\ m.waiting = cd.waiting /\ m.issued = "None"
    BY <1>1, OtherFields DEF MachineType
  <2> HIDE DEF m
  <2> QED BY <2>1, <2>2, <2>3, AnsweredAgreed
<1>4. CASE SendWaiting
  <2>1. /\ cd' = [cd EXCEPT !.issued = cd.waiting, !.issued_location = cd.waiting_location,
                            !.waiting = "None"]
        /\ fg' = fg /\ lid' = lid
    BY <1>4 DEF SendWaiting
  <2>2. SameView(cd, cd') /\ cd'.waiting = "None"
    BY <1>1, <2>1 DEF SameView, SameQueue, SameMode, SameStep, SameSlots, MachineType
  <2> QED BY <1>1, <2>1, <2>2, ViewAgreed
<1>5. CASE CommandLost
  <2>1. /\ cd' = Executed(cd) \/ cd' = [cd EXCEPT !.issued = "None"]
        /\ fg' = fg /\ lid' = lid
    BY <1>5 DEF CommandLost
  <2>2. SameView(cd, cd') /\ cd'.waiting = cd.waiting
    <3>1. CASE cd' = Executed(cd)
      BY <1>1, <3>1, ExecutedView
    <3>2. CASE cd' = [cd EXCEPT !.issued = "None"]
      BY <1>1, <3>2, OtherFields DEF MachineType
    <3> QED BY <2>1, <3>1, <3>2
  <2> QED BY <1>1, <2>1, <2>2, ViewAgreed
<1>6. CASE SectorLost
  <2>1. cd' = NextSector /\ fg' = fg /\ lid' = lid
    BY <1>6 DEF SectorLost
  <2>2. SameView(cd, cd') /\ cd'.waiting = cd.waiting
    BY <1>1, <2>1, NextSectorView DEF SameLine
  <2> QED BY <1>1, <2>1, <2>2, ViewAgreed
<1>7. CASE \E accept, decoding \in BOOLEAN : SectorReady(accept, decoding)
  <2>1. PICK accept \in BOOLEAN, decoding \in BOOLEAN : SectorReady(accept, decoding)
    BY <1>7
  <2> DEFINE m == NextSector
             n == ReadyCallback(m, TRUE, accept, decoding)
  <2>2. /\ Interrupt /\ cd.waiting = "None" /\ cd' = n
        /\ Faults(Refusal(accept) \cup Overlap)
    <3>1. Overlap \cup Refusal(accept) = Refusal(accept) \cup Overlap
      OBVIOUS
    <3> QED BY <2>1, <3>1 DEF SectorReady, Delivering
  <2>3. m \in MachineType /\ SameView(cd, m) /\ SameLine(cd, m) /\ Roles(m)
    BY <1>1, NextSectorView, ViewRoles
  <2> HIDE DEF m
  <2>4. Kept(m, n)
    BY <2>3, ReadyCallbackKept
  <2>5. m.ready_callback = cd.ready_callback /\ m.issued = cd.issued /\ m.waiting = cd.waiting
    BY <2>3 DEF SameView, SameSlots, SameLine
  <2>6. n.waiting = "None"
    <3>1. CASE cd.ready_callback = "none"
      <4>1. n = m
        BY <2>5, <3>1 DEF ReadyCallback
      <4> QED BY <2>2, <2>5, <4>1
    <3>2. CASE cd.ready_callback # "none"
      BY <2>2, <2>4, <2>5, <3>2, NoOverlap DEF Kept, Follows
    <3> QED BY <3>1, <3>2
  <2> HIDE DEF n
  <2> QED BY <2>2, <2>3, <2>4, <2>5, <2>6, TakenAgreed
<1>8. CASE SectorFailed
  <2> DEFINE n == ReadyCallback(cd, FALSE, TRUE, FALSE)
  <2>1. /\ Interrupt /\ cd.waiting = "None" /\ cd' = n
        /\ Faults({"sector"} \cup Overlap)
    BY <1>8 DEF SectorFailed, Delivering
  <2>2. Kept(cd, n)
    BY <1>1, ReadyCallbackKept
  <2>3. n.waiting = "None"
    <3>1. CASE cd.ready_callback = "none"
      BY <2>1, <3>1 DEF ReadyCallback
    <3>2. CASE cd.ready_callback # "none"
      BY <2>1, <2>2, <3>2, NoOverlap DEF Kept, Follows
    <3> QED BY <3>1, <3>2
  <2> HIDE DEF n
  <2>4. SameView(cd, cd)
    BY DEF SameView, SameQueue, SameMode, SameStep, SameSlots
  <2> QED BY <2>1, <2>2, <2>3, <2>4, TakenAgreed
<1>9. CASE \E accept \in BOOLEAN : MdecOut(accept)
  BY <1>1, <1>9 DEF MdecOut, Roles, DataQueued
<1>10. CASE OpenLid
  <2> DEFINE m == [cd EXCEPT !.reading = FALSE]
             n == ReadyCallback(m, FALSE, TRUE, FALSE)
  <2>1. /\ Interrupt /\ lid # "open" /\ lid' = "open"
        /\ cd' = m \/ cd' = n
    BY <1>10 DEF OpenLid
  <2>2. m \in MachineType
    BY <1>1 DEF MachineType
  <2>3. SameView(cd, m) /\ SameLine(cd, m)
    BY <1>1, OtherFields
  <2> HIDE DEF m
  <2>4. Roles(m) /\ m.waiting = cd.waiting /\ Agreed(m, fg, lid)
    BY <1>1, <2>3, ViewRoles, ViewAgreed DEF SameLine
  <2>5. fg.at \in {"published", "checking"} => fg.open /\ cd.waiting = "None"
    BY <1>1, <2>1 DEF Agreed, EntryKept, Interrupt
  <2>6. fg.at = "observed" => cd.waiting = "None"
    BY <1>1 DEF Agreed, ServiceKnows
  <2>7. Agreed(m, fg', lid')
    <3>1. Kept(m, m)
      BY <2>4 DEF Kept, Follows, Spare
    <3>2. fg.at \in {"published", "checking"} /\ fg.open =>
            m.waiting = "None" \/ (lid' = "open" /\ Stuck(m))
      BY <2>4, <2>5
    <3>3. fg.at \in {"published", "checking"} /\ ~fg.open =>
            lid' = "open" /\ Stuck(m) /\ (IsEmpty(m) <=> IsEmpty(m))
      BY <2>5
    <3>4. fg.at = "observed" /\ fg.open => m.waiting = "None"
      BY <2>4, <2>6
    <3> QED BY <1>1, <2>1, <2>4, <3>1, <3>2, <3>3, <3>4, InterruptAgreed
  <2>8. Agreed(n, fg', lid')
    <3>1. CASE m.ready_callback = "none"
      <4>1. n = m
        BY <3>1 DEF ReadyCallback
      <4> QED BY <2>7, <4>1
    <3>2. CASE m.ready_callback # "none"
      <4>1. Kept(m, n) /\ Stuck(n)
        <5>1. Kept(m, n)
          BY <2>2, <2>4, ReadyCallbackKept
        <5>2. Stuck(n)
          BY <2>2, <2>4, <3>2, ReadErrorStuck
        <5> QED BY <5>1, <5>2
      <4> HIDE DEF n
      <4>2. fg.at \in {"published", "checking"} /\ fg.open =>
              n.waiting = "None" \/ (lid' = "open" /\ Stuck(n))
        BY <2>1, <4>1
      <4>3. fg.at \in {"published", "checking"} /\ ~fg.open =>
              lid' = "open" /\ Stuck(n) /\ (IsEmpty(n) <=> IsEmpty(m))
        BY <2>5
      <4>4. fg.at = "observed" /\ fg.open => n.waiting = "None"
        <5> SUFFICES ASSUME fg.at = "observed", fg.open PROVE FALSE
          OBVIOUS
        <5>1. m.current_command = "None" /\ ~Failing(m)
          BY <2>4 DEF Agreed, ServiceKnows
        <5>2. m.ready_callback # "handle_ready_intr"
          BY <2>4, <5>1 DEF Roles, Receiving, Commanding
        <5>3. m.ready_callback # "verify_disc"
          BY <2>4, <5>1, StateNumbers
             DEF Roles, Recording, DiscUnknown, Failing, HasFlag, ErrorFlags
        <5> QED BY <2>2, <3>2, <5>2, <5>3 DEF MachineType
      <4> QED BY <1>1, <2>1, <2>4, <4>1, <4>2, <4>3, <4>4, InterruptAgreed
    <3> QED BY <3>1, <3>2
  <2> QED BY <2>1, <2>7, <2>8
<1>11. CASE \E inserted \in Inserted : CloseLid(inserted)
  <2>1. cd' = cd /\ fg' = fg /\ fg.at = "idle"
    BY <1>11 DEF CloseLid, Running
  <2> QED BY <1>1, <2>1, RestedAgreed
<1> QED BY <1>2, <1>3, <1>4, <1>5, <1>6, <1>7, <1>8, <1>9, <1>10, <1>11 DEF Drive

-----------------------------------------------------------------------------
(* The invariant. *)

LEMMA RolesInit == Init => RolesInv
<1> SUFFICES ASSUME Init PROVE RolesInv
  OBVIOUS
<1>1. TypeOK /\ cd = InitialMachine /\ fg.at = "idle"
  BY TypeInit DEF Init, At
<1>2. /\ Resigned(cd) /\ cd.queue_read_index = 0 /\ cd.queue_write_index = 0
      /\ cd.audio_enabled = FALSE /\ cd.data_ready_pending = FALSE
      /\ cd.init_state = 0 /\ cd.status_flags = {}
  BY <1>1 DEF InitialMachine, Resigned, IDLE
<1>3. DataQueued(cd)
  <2>1. ASSUME NEW i \in Slots PROVE ~IsPending(cd, i)
    <3>1. (i - 0) % QueueSize \in Nat
      BY QueueAssumption DEF Slots
    <3>2. (0 - 0) % QueueSize = 0
      BY QueueAssumption
    <3> QED BY <1>2, <3>1, <3>2 DEF IsPending, PendingCount
  <2> QED BY <1>2, <2>1 DEF DataQueued
<1>4. cd.init_state \notin 2..8 /\ "RECOVERY_PENDING" \notin cd.status_flags
  BY <1>2
<1>5. Roles(cd)
  BY <1>2, <1>3, <1>4, ResignedRoles
<1>6. Agreed(cd, fg, lid)
  BY <1>1, <1>5, RestedAgreed
<1> QED BY <1>1, <1>6 DEF RolesInv

LEMMA AgreedStep ==
    ASSUME DataInTurn, RolesInv, [Next]_vars
    PROVE  Agreed(cd', fg', lid')
<1>1. CASE ProcessState
  BY <1>1, ServiceAgreed, RecoveryAgreed DEF ProcessState
<1>2. CASE UNCHANGED vars
  BY <1>2 DEF vars, RolesInv
<1> QED BY <1>1, <1>2, GameAgreed, QueueingAgreed, ReconfigurationAgreed, DriveAgreed DEF Next

LEMMA RolesStep ==
    ASSUME DataInTurn
    PROVE  RolesInv /\ [Next]_vars => RolesInv'
<1> SUFFICES ASSUME RolesInv, [Next]_vars PROVE RolesInv'
  OBVIOUS
<1>1. TypeOK'
  BY TypeStep DEF RolesInv
<1>2. Roles(cd)' /\ EntryKept(cd, fg, lid)' /\ ServiceKnows(cd, fg)'
  <2>1. Roles(cd') /\ EntryKept(cd', fg', lid') /\ ServiceKnows(cd', fg')
    BY AgreedStep DEF Agreed
  <2>2. Roles(cd)'
    BY <2>1 DEF Roles, DataQueued, Commanding, Receiving, Exclusive, Stepped, Recording, Strayed,
       Reconfigures, IsPending, PendingCount, IsEmpty, HeadItem, Astray, Failing, HasFlag
  <2>3. EntryKept(cd, fg, lid)'
    BY <2>1 DEF EntryKept, IsEmpty, Spare, Stuck
  <2>4. ServiceKnows(cd, fg)'
    BY <2>1 DEF ServiceKnows, Astray, Failing, HasFlag
  <2> QED BY <2>2, <2>3, <2>4
<1> QED BY <1>1, <1>2 DEF RolesInv, Agreed

LEMMA RolesEnough == RolesInv => CallbackRoles /\ QuietWhenIdle
<1> SUFFICES ASSUME RolesInv PROVE CallbackRoles /\ QuietWhenIdle
  OBVIOUS
<1>1. cd \in MachineType /\ Roles(cd) /\ cd.init_retry \in BOOLEAN
  BY DEF RolesInv, TypeOK, Agreed, MachineType
<1>2. CallbackRoles
  BY <1>1 DEF Roles, Commanding, Exclusive, Receiving, Recording, CallbackRoles, Stepping
<1>3. QuietWhenIdle
  <2> SUFFICES ASSUME Resting PROVE cd.sync_callback = "none" /\ cd.ready_callback = "none"
    BY DEF QuietWhenIdle
  <2>1. /\ cd.current_command = "None" /\ cd.init_command = 0 /\ cd.init_retry = FALSE
        /\ ~Failing(cd)
    BY <1>1, FlaglessKnows DEF Resting, IsBusy
  <2> QED BY <1>1, <2>1, IdleIsResigned DEF Resigned
<1> QED BY <1>2, <1>3

(***************************************************************************)
(* The two callback slots, the current command, the step of recovery, the  *)
(* status flags and the queue agree in every state, and what a foreground  *)
(* call has seen of them still holds when it acts on it (cdrom.c as a      *)
(* whole: cdrom_queue_command, cdrom_process_state, cdrom_recover and the  *)
(* five handlers), while the game reads data files.                        *)
(***************************************************************************)
THEOREM RolesHold ==
    ASSUME DataInTurn
    PROVE  Spec => []RolesInv
<1>1. RolesInv /\ [Next]_vars => RolesInv'
  BY RolesStep
<1> QED BY <1>1, RolesInit, PTL DEF Spec

(***************************************************************************)
(* The table of callback roles of cdrom.md: each slot holds the handler of *)
(* the operation under way, for every size of the ring, every disc, every  *)
(* order of interrupts and service, and any number of refused or lost      *)
(* commands, failed or lost sectors, late answers and opened shells.       *)
(***************************************************************************)
THEOREM CallbackRolesKept ==
    ASSUME DataInTurn
    PROVE  Spec => []CallbackRoles
BY RolesHold, RolesEnough, PTL

(***************************************************************************)
(* When no command, no step and no error is left (cdrom_is_busy reports    *)
(* the controller idle), no handler is installed that a stray interrupt    *)
(* could reach (cdrom_complete_command, cdrom_handle_recovery_sync).       *)
(***************************************************************************)
THEOREM IdleIsQuiet ==
    ASSUME DataInTurn
    PROVE  Spec => []QuietWhenIdle
BY RolesHold, RolesEnough, PTL
=============================================================================
