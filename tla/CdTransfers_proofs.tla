-------------------------- MODULE CdTransfers_proofs --------------------------
(***************************************************************************)
(* What the command queue promises its callers, for every queue size,      *)
(* every disc and any number of faults: requests are served first in first *)
(* out, each once, each read whole and where it belongs (ServedInOrder),   *)
(* an interrupted transfer is resumed where it stopped (ResumePoint), and  *)
(* no handler goes through a null pointer (NoNullAccess).  The conditions  *)
(* are those of ReadsInTurn; what the callbacks, the command and the step  *)
(* say about each other is taken from CdRoles_proofs.                      *)
(***************************************************************************)
EXTENDS CdTransfers, CdRoles_proofs, Sequences

-----------------------------------------------------------------------------
(* The ring, once more. *)

(* Going on twice is going on once. *)
LEMMA AheadTwice ==
    ASSUME NEW r \in Slots, NEW a \in Nat, NEW b \in Nat, a + b <= QueueSize - 1
    PROVE  (((r + a) % QueueSize) + b) % QueueSize = (r + (a + b)) % QueueSize
<1> DEFINE s == (r + a) % QueueSize
<1>1. QueueSize \in Nat /\ QueueSize >= 2 /\ r \in Nat /\ r < QueueSize
  BY QueueAssumption DEF Slots
<1>2. a \in 0..QueueSize - 1 /\ b \in 0..QueueSize - 1 /\ a + b \in 0..QueueSize - 1
  BY <1>1
<1>3. /\ s \in Slots
      /\ r + a < QueueSize => s = r + a
      /\ r + a >= QueueSize => s = r + a - QueueSize
  BY <1>2, Further
<1> HIDE DEF s
<1>4. s \in Nat
  BY <1>1, <1>3 DEF Slots
<1>5. /\ s + b < QueueSize => (s + b) % QueueSize = s + b
      /\ s + b >= QueueSize => (s + b) % QueueSize = s + b - QueueSize
  BY <1>2, <1>3, Further
<1>6. /\ r + (a + b) < QueueSize => (r + (a + b)) % QueueSize = r + (a + b)
      /\ r + (a + b) >= QueueSize => (r + (a + b)) % QueueSize = r + (a + b) - QueueSize
  BY <1>2, Further
<1>7. (s + b) % QueueSize = (r + (a + b)) % QueueSize
  BY <1>1, <1>2, <1>3, <1>4, <1>5, <1>6, SMTT(30)
<1> QED BY <1>7 DEF s

(* Each entry that is passed is one fewer. *)
LEMMA CountMoved ==
    ASSUME NEW r \in Slots, NEW w \in Slots, NEW k \in 0..((w - r) % QueueSize)
    PROVE  /\ (r + k) % QueueSize \in Slots
           /\ (w - ((r + k) % QueueSize)) % QueueSize = ((w - r) % QueueSize) - k
<1> DEFINE s == (r + k) % QueueSize
<1>1. /\ QueueSize \in Nat /\ r \in Int /\ w \in Int
      /\ 0 <= r /\ r < QueueSize /\ 0 <= w /\ w < QueueSize
  BY QueueAssumption DEF Slots
<1>2. (w - r) % QueueSize \in 0..QueueSize - 1
  BY Behind
<1>3. k \in Int /\ 0 <= k /\ k <= (w - r) % QueueSize /\ k \in 0..QueueSize - 1
  BY <1>1, <1>2
<1>4. /\ s \in Slots
      /\ r + k < QueueSize => s = r + k
      /\ r + k >= QueueSize => s = r + k - QueueSize
  BY <1>3, Further
<1> HIDE DEF s
<1>5. s \in Int /\ 0 <= s /\ s < QueueSize
  BY <1>1, <1>4 DEF Slots
<1>6. /\ w >= s => (w - s) % QueueSize = w - s
      /\ w < s => (w - s) % QueueSize = w - s + QueueSize
      /\ w >= r => (w - r) % QueueSize = w - r
      /\ w < r => (w - r) % QueueSize = w - r + QueueSize
  BY <1>4, Behind
<1>7. (w - s) % QueueSize = ((w - r) % QueueSize) - k
  BY <1>1, <1>3, <1>4, <1>5, <1>6, SMTT(30)
<1> QED BY <1>4, <1>7 DEF s

(* How many entries are pending. *)
LEMMA CountType ==
    ASSUME NEW m \in MachineType
    PROVE  /\ m.queue_read_index \in Slots /\ m.queue_write_index \in Slots
           /\ PendingCount(m) \in 0..QueueSize - 1
           /\ ~IsEmpty(m) => PendingCount(m) >= 1 /\ LastPending(m) = PendingCount(m) - 1
           /\ IsEmpty(m) => PendingCount(m) = 0
<1> DEFINE r == m.queue_read_index
           w == m.queue_write_index
<1>1. r \in Slots /\ w \in Slots
  BY IndexType
<1>2. /\ PendingCount(m) = (w - r) % QueueSize /\ LastPending(m) = (w - r - 1) % QueueSize
      /\ IsEmpty(m) <=> r = w
  BY DEF PendingCount, LastPending, IsEmpty
<1> HIDE DEF r, w
<1>3. /\ QueueSize \in Nat /\ QueueSize >= 2 /\ r \in Int /\ w \in Int
      /\ 0 <= r /\ r < QueueSize /\ 0 <= w /\ w < QueueSize
  BY <1>1, QueueAssumption DEF Slots
<1>4. /\ w >= r => (w - r) % QueueSize = w - r
      /\ w < r => (w - r) % QueueSize = w - r + QueueSize
      /\ (w - r) % QueueSize \in 0..QueueSize - 1
  BY <1>1, Behind
<1>5. w - r - 1 \in Int
  BY <1>3
<1>6. /\ 0 <= w - r - 1 => (w - r - 1) % QueueSize = w - r - 1
      /\ w - r - 1 < 0 => (w - r - 1) % QueueSize = w - r - 1 + QueueSize
  BY <1>3, <1>5, ModCases
<1>7. w # r => (w - r) % QueueSize >= 1 /\ (w - r - 1) % QueueSize = ((w - r) % QueueSize) - 1
  BY <1>3, <1>4, <1>6
<1>8. w = r => (w - r) % QueueSize = 0
  BY <1>3, <1>4
<1> QED BY <1>1, <1>2, <1>4, <1>7, <1>8 DEF r, w

-----------------------------------------------------------------------------
(* What a handler may do to the queue and to the memory. *)

(* The entry k places behind the read index. *)
Ahead(m, k) == (m.queue_read_index + k) % QueueSize

(* k entries are done with, and no other has changed. *)
Passes(m, n, k) ==
    /\ n.items = m.items /\ n.queue_write_index = m.queue_write_index
    /\ n.queue_read_index = Ahead(m, k)
    /\ PendingCount(n) = PendingCount(m) - k

(* Behind the first of them only seeks that a pending entry supersedes. *)
OnlySeeks(m, k) ==
    \A i \in 1..k - 1 : m.items[Ahead(m, i)].command = "SeekL" /\ i < PendingCount(m) - 1

(* A sector of the read at the read index reaches its place. *)
PutsOne(m, n) ==
    /\ ~IsEmpty(m) /\ HeadItem(m).command = "ReadN"
    /\ \E o \in 0..HeadExtent(m).size - 1 :
         n.memory = [m.memory EXCEPT ![SinkOf(HeadItem(m))][o] = HeadExtent(m).loc + o]

(* All of it is there. *)
AllPut(m, n) ==
    \A o \in 0..HeadExtent(m).size - 1 :
        n.memory[SinkOf(HeadItem(m))][o] = HeadExtent(m).loc + o

Serves(m, n) ==
    \E k \in 0..PendingCount(m) :
        /\ Passes(m, n, k) /\ OnlySeeks(m, k)
        /\ n.memory = m.memory \/ PutsOne(m, n)
        /\ k > 0 /\ HeadItem(m).command = "ReadN" => AllPut(m, n)

(* What a handler is to leave behind. *)
Advances(m, n) == Transfers(n) /\ Serves(m, n)

(* The counters, the position and the memory. *)
SameTransfer(m, n) ==
    /\ n.total_data = m.total_data /\ n.read_remaining = m.read_remaining
    /\ n.current_location = m.current_location
    /\ n.write_ptr = m.write_ptr
    /\ n.memory = m.memory /\ n.trap = m.trap

(***************************************************************************)
(* The transfer is left as it is: interrupted, forgotten or to be resumed, *)
(* but neither advanced nor another one.                                   *)
(***************************************************************************)
Leaves(m, n) ==
    /\ SameQueue(m, n) /\ SameTransfer(m, n)
    /\ n.transfer_callback \in {m.transfer_callback, NULL}
    /\ Resumed(m) => Resumed(n)
    /\ n.ready_callback = "handle_ready_intr" =>
         m.ready_callback = "handle_ready_intr" /\ n.transfer_callback = m.transfer_callback
    /\ n.current_command \in {m.current_command, "None", "Nop"}

LEMMA LeavesItself ==
    ASSUME NEW m
    PROVE  Leaves(m, m)
BY DEF Leaves, SameQueue, SameTransfer

LEMMA LeavesTransitive ==
    ASSUME NEW m, NEW n, NEW p, Leaves(m, n), Leaves(n, p)
    PROVE  Leaves(m, p)
BY DEF Leaves, SameQueue, SameTransfer

LEMMA QueueLeft ==
    ASSUME NEW m, NEW n, SameQueue(m, n)
    PROVE  /\ IsEmpty(n) <=> IsEmpty(m)
           /\ HeadItem(n) = HeadItem(m)
           /\ HeadExtent(n) = HeadExtent(m)
           /\ PendingCount(n) = PendingCount(m)
           /\ \A k : Ahead(n, k) = Ahead(m, k)
BY DEF SameQueue, IsEmpty, HeadItem, HeadExtent, PendingCount, Ahead

LEMMA CountedSame ==
    ASSUME NEW m, NEW n, SameQueue(m, n), SameTransfer(m, n), Counted(m), Filled(m),
           n.transfer_callback = m.transfer_callback
    PROVE  Counted(n) /\ Filled(n) /\ Moved(n) = Moved(m)
<1>1. Moved(n) = Moved(m)
  BY DEF Moved, SameTransfer
<1>2. Counted(n)
  BY <1>1, QueueLeft DEF Counted, SameTransfer
<1>3. Filled(n)
  BY <1>1, QueueLeft DEF Filled, SameTransfer
<1> QED BY <1>1, <1>2, <1>3

LEMMA LeavesTransfers ==
    ASSUME NEW m, NEW n, Transfers(m), Leaves(m, n)
    PROVE  Transfers(n)
<1>1. SameQueue(m, n) /\ SameTransfer(m, n)
  BY DEF Leaves
<1>2. Readable(n)
  BY <1>1 DEF Transfers, Readable, SameQueue
<1>3. Streaming(n)
  <2>1. ASSUME n.transfer_callback # NULL
        PROVE  Counted(n) /\ Filled(n)
    <3>1. n.transfer_callback = m.transfer_callback
      BY <2>1 DEF Leaves
    <3>2. Counted(m) /\ Filled(m)
      BY <2>1, <3>1 DEF Transfers, Streaming
    <3> QED BY <1>1, <3>1, <3>2, CountedSame
  <2> QED BY <2>1 DEF Streaming
<1>4. Listening(n)
  <2>1. ASSUME n.ready_callback = "handle_ready_intr"
        PROVE  /\ Counted(n) /\ Filled(n)
               /\ n.transfer_callback = NULL =>
                    n.write_ptr = [buffer |-> HeadItem(n).dst, offset |-> Moved(n)]
    <3>1. n.transfer_callback = m.transfer_callback /\ m.ready_callback = "handle_ready_intr"
      BY <2>1 DEF Leaves
    <3>2. /\ Counted(m) /\ Filled(m)
          /\ m.transfer_callback = NULL =>
               m.write_ptr = [buffer |-> HeadItem(m).dst, offset |-> Moved(m)]
      BY <3>1 DEF Transfers, Listening
    <3>3. Counted(n) /\ Filled(n) /\ Moved(n) = Moved(m)
      BY <1>1, <3>1, <3>2, CountedSame
    <3>4. HeadItem(n) = HeadItem(m) /\ n.write_ptr = m.write_ptr
      BY <1>1, QueueLeft DEF SameTransfer
    <3> QED BY <3>1, <3>2, <3>3, <3>4
  <2> QED BY <2>1 DEF Listening
<1>5. Resumed(n)
  BY DEF Transfers, Leaves
<1>6. Seeking(n)
  BY <1>1, QueueLeft DEF Transfers, Leaves, Seeking
<1>7. n.trap = {}
  BY <1>1 DEF SameTransfer, Transfers
<1> QED BY <1>2, <1>3, <1>4, <1>5, <1>6, <1>7 DEF Transfers

(* What is left alone is served by nobody. *)
LEMMA LeavesServes ==
    ASSUME NEW m \in MachineType, NEW n, Leaves(m, n)
    PROVE  Serves(m, n)
<1>1. SameQueue(m, n) /\ n.memory = m.memory
  BY DEF Leaves, SameTransfer
<1>2. PendingCount(n) = PendingCount(m) /\ PendingCount(m) \in Nat
  BY <1>1, QueueLeft, CountType
<1>3. Ahead(m, 0) = m.queue_read_index
  <2>1. m.queue_read_index \in Nat /\ m.queue_read_index < QueueSize
    BY CountType, QueueAssumption DEF Slots
  <2>2. m.queue_read_index + 0 = m.queue_read_index /\ m.queue_read_index % QueueSize = m.queue_read_index
    BY <2>1, ModCases
  <2> QED BY <2>2 DEF Ahead
<1>4. Passes(m, n, 0)
  BY <1>1, <1>2, <1>3 DEF Passes, SameQueue
<1>5. OnlySeeks(m, 0)
  BY DEF OnlySeeks
<1>6. 0 \in 0..PendingCount(m)
  BY <1>2
<1> QED BY <1>1, <1>4, <1>5, <1>6 DEF Serves

LEMMA LeavesAdvances ==
    ASSUME NEW m \in MachineType, NEW n, Transfers(m), Leaves(m, n)
    PROVE  Advances(m, n)
BY LeavesTransfers, LeavesServes DEF Advances

LEMMA ServesAfter ==
    ASSUME NEW m, NEW p, NEW n, SameQueue(m, p), p.memory = m.memory, Serves(p, n)
    PROVE  Serves(m, n)
<1>1. PICK k \in 0..PendingCount(p) :
        /\ Passes(p, n, k) /\ OnlySeeks(p, k)
        /\ n.memory = p.memory \/ PutsOne(p, n)
        /\ k > 0 /\ HeadItem(p).command = "ReadN" => AllPut(p, n)
  BY DEF Serves
<1>2. /\ HeadItem(p) = HeadItem(m) /\ HeadExtent(p) = HeadExtent(m)
      /\ PendingCount(p) = PendingCount(m) /\ (IsEmpty(p) <=> IsEmpty(m))
      /\ \A i : Ahead(p, i) = Ahead(m, i)
  BY QueueLeft
<1>3. Passes(m, n, k)
  BY <1>1, <1>2 DEF Passes, SameQueue
<1>4. OnlySeeks(m, k)
  BY <1>1, <1>2 DEF OnlySeeks, SameQueue
<1>5. PutsOne(p, n) => PutsOne(m, n)
  BY <1>2 DEF PutsOne
<1>6. AllPut(p, n) => AllPut(m, n)
  BY <1>2 DEF AllPut
<1> QED BY <1>1, <1>2, <1>3, <1>4, <1>5, <1>6 DEF Serves

LEMMA ServesBefore ==
    ASSUME NEW m, NEW p, NEW n, Serves(m, p), SameQueue(p, n), n.memory = p.memory
    PROVE  Serves(m, n)
<1>1. PICK k \in 0..PendingCount(m) :
        /\ Passes(m, p, k) /\ OnlySeeks(m, k)
        /\ p.memory = m.memory \/ PutsOne(m, p)
        /\ k > 0 /\ HeadItem(m).command = "ReadN" => AllPut(m, p)
  BY DEF Serves
<1>2. Passes(m, n, k)
  BY <1>1, QueueLeft DEF Passes, SameQueue
<1>3. PutsOne(m, p) => PutsOne(m, n)
  BY DEF PutsOne
<1>4. AllPut(m, p) => AllPut(m, n)
  BY DEF AllPut
<1> QED BY <1>1, <1>2, <1>3, <1>4 DEF Serves

LEMMA AdvancesAfter ==
    ASSUME NEW m, NEW p, NEW n, Leaves(m, p), Advances(p, n)
    PROVE  Advances(m, n)
BY ServesAfter DEF Advances, Leaves, SameTransfer

LEMMA AdvancesBefore ==
    ASSUME NEW m, NEW p, NEW n, Advances(m, p), Leaves(p, n)
    PROVE  Advances(m, n)
BY ServesBefore, LeavesTransfers DEF Advances, Leaves, SameTransfer

-----------------------------------------------------------------------------
(* The handlers that leave the transfer as it is. *)

(* Fields a transfer does not look at. *)
LEMMA FieldsLeft ==
    ASSUME NEW m \in MachineType, NEW v
    PROVE  /\ Leaves(m, [m EXCEPT !.sync_complete = v])
           /\ Leaves(m, [m EXCEPT !.retry_count = v])
           /\ Leaves(m, [m EXCEPT !.retry_counter = v])
           /\ Leaves(m, [m EXCEPT !.status_flags = v])
           /\ Leaves(m, [m EXCEPT !.init_state = v])
           /\ Leaves(m, [m EXCEPT !.init_command = v])
           /\ Leaves(m, [m EXCEPT !.init_retry = v])
           /\ Leaves(m, [m EXCEPT !.sync_callback = v])
           /\ Leaves(m, [m EXCEPT !.issued = v])
           /\ Leaves(m, [m EXCEPT !.reading = v])
           /\ Leaves(m, [m EXCEPT !.ready_callback = "none"])
           /\ Leaves(m, [m EXCEPT !.current_command = "Nop"])
<1> USE DEF Leaves, SameQueue, SameTransfer, Resumed
<1>1. Leaves(m, [m EXCEPT !.sync_complete = v])
  BY DEF MachineType
<1>2. Leaves(m, [m EXCEPT !.retry_count = v])
  BY DEF MachineType
<1>3. Leaves(m, [m EXCEPT !.retry_counter = v])
  BY DEF MachineType
<1>4. Leaves(m, [m EXCEPT !.status_flags = v])
  BY DEF MachineType
<1>5. Leaves(m, [m EXCEPT !.init_state = v])
  BY DEF MachineType
<1>6. Leaves(m, [m EXCEPT !.init_command = v])
  BY DEF MachineType
<1>7. Leaves(m, [m EXCEPT !.init_retry = v])
  BY DEF MachineType
<1>8. Leaves(m, [m EXCEPT !.sync_callback = v])
  BY DEF MachineType
<1>9. Leaves(m, [m EXCEPT !.issued = v])
  BY DEF MachineType
<1>10. Leaves(m, [m EXCEPT !.reading = v])
  BY DEF MachineType
<1>11. Leaves(m, [m EXCEPT !.ready_callback = "none"])
  BY DEF MachineType
<1>12. Leaves(m, [m EXCEPT !.current_command = "Nop"])
  BY DEF MachineType
<1> QED BY <1>1, <1>2, <1>3, <1>4, <1>5, <1>6, <1>7, <1>8, <1>9, <1>10, <1>11, <1>12

LEMMA CdControlFLeaves ==
    ASSUME NEW m \in MachineType, NEW command, NEW location
    PROVE  Leaves(m, CdControlF(m, command, location))
<1>1. CASE m.issued = "None"
  BY <1>1 DEF CdControlF, Leaves, SameQueue, SameTransfer, Resumed, MachineType
<1>2. CASE m.issued # "None"
  BY <1>2 DEF CdControlF, Leaves, SameQueue, SameTransfer, Resumed, MachineType
<1> QED BY <1>1, <1>2

LEMMA DisarmLeaves ==
    ASSUME NEW m \in MachineType
    PROVE  Leaves(m, Disarm(m)) /\ Disarm(m).ready_callback = "none"
BY DEF Disarm, Leaves, SameQueue, SameTransfer, Resumed, MachineType

LEMMA HandleSyncErrorLeaves ==
    ASSUME NEW m \in MachineType
    PROVE  Leaves(m, HandleSyncError(m))
<1> DEFINE off == Disarm(m)
           n == HandleSyncError(m)
<1>1. off \in MachineType /\ Leaves(m, off)
  BY DisarmType, DisarmLeaves
<1>2. n = [off EXCEPT !.init_state = IDLE,
                      !.status_flags = @ \cup {"SYNC_ERROR"},
                      !.current_command = "None",
                      !.init_command = 0,
                      !.init_retry = FALSE,
                      !.retry_count = 0,
                      !.retry_counter = 0]
  BY DEF HandleSyncError
<1> HIDE DEF off, n
<1>3. Leaves(off, n)
  BY <1>1, <1>2 DEF Leaves, SameQueue, SameTransfer, Resumed, MachineType
<1> QED BY <1>1, <1>3, LeavesTransitive DEF n

LEMMA ExecutedLeaves ==
    ASSUME NEW m \in MachineType
    PROVE  Leaves(m, Executed(m))
BY DEF Executed, Leaves, SameQueue, SameTransfer, Resumed, MachineType

LEMMA BlockingPauseLeaves ==
    ASSUME NEW m \in MachineType
    PROVE  Leaves(m, BlockingPause(m))
BY DEF BlockingPause, Leaves, SameQueue, SameTransfer, Resumed, MachineType

LEMMA EndStepLeaves ==
    ASSUME NEW m \in MachineType
    PROVE  Leaves(m, EndStep(m))
BY DEF EndStep, Leaves, SameQueue, SameTransfer, Resumed, MachineType

LEMMA EndStepAtLeaves ==
    ASSUME NEW m \in MachineType, NEW state
    PROVE  Leaves(m, EndStepAt(m, state))
<1> DEFINE ended == EndStep(m)
<1>1. ended \in MachineType /\ Leaves(m, ended)
  BY EndStepType, EndStepLeaves
<1> HIDE DEF ended
<1>2. Leaves(ended, [ended EXCEPT !.init_state = state])
  BY <1>1, FieldsLeft
<1>3. EndStepAt(m, state) = [ended EXCEPT !.init_state = state]
  BY DEF EndStepAt, ended
<1> QED BY <1>1, <1>2, <1>3, LeavesTransitive

LEMMA FinishReconfigurationLeaves ==
    ASSUME NEW m \in MachineType
    PROVE  Leaves(m, FinishReconfiguration(m))
<1> DEFINE at == EndStepAt(m, IDLE)
<1>1. IDLE \in InitStates
  BY StateValues
<1>2. at \in MachineType /\ Leaves(m, at)
  BY <1>1, EndStepAtType, EndStepAtLeaves
<1> HIDE DEF at
<1>3. FinishReconfiguration(m) = [at EXCEPT !.status_flags = at.status_flags \ {"RECOVERY_PENDING"}]
  BY DEF FinishReconfiguration, at
<1>4. Leaves(at, FinishReconfiguration(m))
  BY <1>2, <1>3, FieldsLeft
<1> QED BY <1>2, <1>4, LeavesTransitive

LEMMA NextStepLeaves ==
    ASSUME NEW m \in MachineType, NEW command, m.init_command + 1 \in InitCommands
    PROVE  Leaves(m, NextStep(m, command))
<1> DEFINE p == [m EXCEPT !.init_command = m.init_command + 1]
<1>1. p \in MachineType /\ Leaves(m, p)
  BY FieldUpdates, FieldsLeft
<1>2. NextStep(m, command) = CdControlF(p, command, 0)
  BY DEF NextStep
<1> HIDE DEF p
<1>3. Leaves(p, CdControlF(p, command, 0))
  BY <1>1, CdControlFLeaves
<1> QED BY <1>1, <1>2, <1>3, LeavesTransitive

LEMMA FinishRecoveryLeaves ==
    ASSUME NEW m \in MachineType
    PROVE  Leaves(m, FinishRecovery(m))
<1> DEFINE cleared == ClearErrors(m)
           clean == [cleared EXCEPT !.init_command = 0, !.init_state = IDLE, !.retry_counter = 0]
           quiet == [clean EXCEPT !.sync_callback = "none"]
           restarted == [clean EXCEPT !.current_command = "Nop", !.sync_callback = "complete_command"]
<1>1. cleared \in MachineType
  BY ClearErrorsType
<1>2. Leaves(m, cleared)
  BY FieldsLeft DEF ClearErrors
<1>3. FinishRecovery(m) = IF IsEmpty(m) THEN quiet ELSE CdControlF(restarted, "Nop", 0)
  BY DEF FinishRecovery
<1> HIDE DEF cleared
<1>4. clean \in MachineType
  BY <1>1, StepValues, StateValues, NumberValues, ZenonT(30) DEF MachineType
<1>5. Leaves(cleared, clean)
  BY <1>1 DEF Leaves, SameQueue, SameTransfer, Resumed, MachineType
<1> HIDE DEF clean
<1>6. Leaves(clean, quiet)
  BY <1>4, FieldsLeft
<1>7. restarted \in MachineType
  BY <1>4, CommandValues, ZenonT(30) DEF MachineType
<1>8. Leaves(clean, restarted)
  BY <1>4 DEF Leaves, SameQueue, SameTransfer, Resumed, MachineType
<1> HIDE DEF quiet, restarted
<1>9. Leaves(restarted, CdControlF(restarted, "Nop", 0))
  BY <1>7, CdControlFLeaves
<1> QED BY <1>2, <1>3, <1>5, <1>6, <1>8, <1>9, LeavesTransitive

LEMMA StepFailedTwiceLeaves ==
    ASSUME NEW m \in MachineType
    PROVE  Leaves(m, StepFailedTwice(m))
<1>1. \A command, location : Leaves(m, CdControlF(m, command, location))
  BY CdControlFLeaves
<1>2. \A state : Leaves(m, EndStepAt(m, state))
  BY EndStepAtLeaves
<1>3. Leaves(m, m)
  BY LeavesItself
<1> HIDE DEF Leaves
<1> QED BY <1>1, <1>2, <1>3 DEF StepFailedTwice

LEMMA PauseDriveLeaves ==
    ASSUME NEW m \in MachineType, NEW step \in InitCommands
    PROVE  LET n == PauseDrive(m, step)
           IN /\ Leaves(m, n)
              /\ n.ready_callback # "handle_ready_intr" /\ n.current_command # "SeekL"
<1> DEFINE p == [m EXCEPT !.init_command = step,
                          !.init_retry = FALSE,
                          !.sync_callback = "handle_recovery_sync",
                          !.ready_callback = "none",
                          !.current_command = "None",
                          !.retry_counter = 0]
<1>1. p \in MachineType
  BY CommandValues, NumberValues, ZenonT(30) DEF MachineType
<1>2. Leaves(m, p)
  BY DEF Leaves, SameQueue, SameTransfer, Resumed, MachineType
<1>3. p.ready_callback = "none" /\ p.current_command = "None"
  BY DEF MachineType
<1>4. PauseDrive(m, step) = CdControlF(p, "Pause", 0)
  BY DEF PauseDrive
<1> HIDE DEF p
<1>5. Leaves(p, CdControlF(p, "Pause", 0))
  BY <1>1, CdControlFLeaves
<1>6. LET n == CdControlF(p, "Pause", 0)
      IN n.ready_callback # "handle_ready_intr" /\ n.current_command # "SeekL"
  BY <1>5, <1>3 DEF Leaves
<1> QED BY <1>2, <1>4, <1>5, <1>6, LeavesTransitive

LEMMA RetrySectorLeaves ==
    ASSUME NEW m \in MachineType
    PROVE  Leaves(m, RetrySector(m))
<1>1. CASE GivesUp(m)
  <2> DEFINE resume == Resumable(m)
             p == [m EXCEPT !.retry_exhausted = TRUE,
                            !.retry_count = 0,
                            !.playback_state = resume,
                            !.current_command = "Nop"]
  <2>1. resume \in BOOLEAN /\ (resume => m.transfer_callback # NULL)
    BY DEF Resumable
  <2>2. RetrySector(m) = CdControlF(p, "Nop", 0)
    BY <1>1 DEF RetrySector, GiveUpSector
  <2> HIDE DEF resume
  <2>3. p \in MachineType
    BY <2>1, CommandValues, NumberValues, ZenonT(30) DEF MachineType
  <2>4. Leaves(m, p)
    BY <2>1 DEF Leaves, SameQueue, SameTransfer, Resumed, MachineType
  <2> HIDE DEF p
  <2>5. Leaves(p, CdControlF(p, "Nop", 0))
    BY <2>3, CdControlFLeaves
  <2> QED BY <2>2, <2>4, <2>5, LeavesTransitive
<1>2. CASE ~GivesUp(m)
  <2> DEFINE p == [m EXCEPT !.retry_count = m.retry_count + 1]
  <2>1. p \in MachineType
    BY <1>2, RetryCountType
  <2>2. Leaves(m, p)
    BY FieldsLeft
  <2>3. RetrySector(m) = CdControlF(p, m.current_command, m.current_location)
    BY <1>2 DEF RetrySector
  <2> HIDE DEF p
  <2>4. Leaves(p, CdControlF(p, m.current_command, m.current_location))
    BY <2>1, CdControlFLeaves
  <2> QED BY <2>2, <2>3, <2>4, LeavesTransitive
<1> QED BY <1>1, <1>2

LEMMA VerifyDiscLeaves ==
    ASSUME NEW m \in MachineType, NEW dataReady, NEW genuine
    PROVE  Leaves(m, VerifyDisc(m, dataReady, genuine))
<1> DEFINE seen == [m EXCEPT !.sync_complete = TRUE, !.ready_callback = "none"]
           stepping(step) == [seen EXCEPT !.init_command = step,
                                          !.init_retry = FALSE,
                                          !.sync_callback = "handle_recovery_sync"]
           wrong == [seen EXCEPT !.init_state = ERROR_PAUSE, !.status_flags = @ \ {"NO_DISC"}]
           n == VerifyDisc(m, dataReady, genuine)
<1>1. seen \in MachineType
  BY ZenonT(30) DEF MachineType
<1>2. Leaves(m, seen)
  BY DEF Leaves, SameQueue, SameTransfer, Resumed, MachineType
<1>3. \/ n = CdControlF(stepping(RECOVERY_RETRY_READ), "Pause", 0)
      \/ n = CdControlF(stepping(RECOVERY_COMPLETE), "Setmode", 0)
      \/ n = wrong
  BY DEF VerifyDisc
<1> HIDE DEF seen, n
<1>4. ASSUME NEW step \in InitCommands, NEW command
      PROVE  Leaves(seen, CdControlF(stepping(step), command, 0))
  <2>1. stepping(step) \in MachineType
    BY <1>1, ZenonT(30) DEF MachineType
  <2>2. Leaves(seen, stepping(step))
    BY <1>1 DEF Leaves, SameQueue, SameTransfer, Resumed, MachineType
  <2> HIDE DEF stepping
  <2> QED BY <2>1, <2>2, CdControlFLeaves, LeavesTransitive
<1>5. Leaves(seen, wrong)
  BY <1>1 DEF Leaves, SameQueue, SameTransfer, Resumed, MachineType
<1>6. RECOVERY_RETRY_READ \in InitCommands /\ RECOVERY_COMPLETE \in InitCommands
  BY StepValues
<1> HIDE DEF stepping, wrong
<1>7. Leaves(seen, n)
  BY <1>3, <1>4, <1>5, <1>6
<1> QED BY <1>2, <1>7, LeavesTransitive DEF n

-----------------------------------------------------------------------------
(* Dispatch. *)

(* What a dispatch needs of the transfer before it. *)
Ready(m) == Readable(m) /\ Streaming(m) /\ Resumed(m) /\ m.trap = {}

LEMMA ReadableSame ==
    ASSUME NEW m, NEW n, n.items = m.items, Readable(m)
    PROVE  Readable(n)
BY DEF Readable

(* The read at the read index has been loaded or goes on. *)
LEMMA LoadedTransfers ==
    ASSUME NEW m, Readable(m), m.trap = {}, Counted(m), Filled(m), m.playback_state = FALSE,
           m.current_command = "ReadN",
           m.transfer_callback = NULL =>
             m.write_ptr = [buffer |-> HeadItem(m).dst, offset |-> Moved(m)]
    PROVE  Transfers(m)
BY DEF Transfers, Streaming, Listening, Resumed, Seeking

(* A read that starts. *)
LEMMA DispatchReadFresh ==
    ASSUME NEW m \in MachineType, Readable(m), m.trap = {}, ~IsEmpty(m),
           HeadItem(m).command = "ReadN", ~m.playback_state, NEW mode
    PROVE  LET n == DispatchRead(m, "ReadN", mode)
           IN Transfers(n) /\ SameQueue(m, n) /\ n.memory = m.memory
<1> DEFINE item == HeadItem(m)
           extent == Extent[item.resource]
           loaded == [m EXCEPT !.current_location = extent.loc,
                               !.current_command = "ReadN",
                               !.playback_state = FALSE,
                               !.total_data = extent.size,
                               !.read_remaining = extent.size,
                               !.write_ptr = [buffer |-> item.dst, offset |-> 0],
                               !.transfer_callback = item.callback]
           hearing == [loaded EXCEPT !.data_ready_pending = FALSE,
                                     !.ready_callback = "handle_ready_intr"]
           armed == IF mode # "ASYNC" THEN loaded ELSE hearing
           n == DispatchRead(m, "ReadN", mode)
<1>1. m.trap \cup {} = m.trap
  OBVIOUS
<1>2. n = CdControlF(armed, "ReadN", armed.current_location)
  <2> DEFINE located == [m EXCEPT !.current_location = extent.loc,
                                  !.current_command = "ReadN",
                                  !.playback_state = FALSE]
             filled == [located EXCEPT
                          !.total_data = extent.size,
                          !.read_remaining = extent.size,
                          !.write_ptr = [buffer |-> item.dst, offset |-> 0],
                          !.transfer_callback = item.callback,
                          !.trap = m.trap]
             heard == [filled EXCEPT !.data_ready_pending = FALSE,
                                     !.ready_callback = "handle_ready_intr"]
             sent == IF mode # "ASYNC" THEN filled ELSE heard
  <2>1. located.trap = m.trap
    BY DEF MachineType
  <2>2. n = CdControlF(sent, "ReadN", sent.current_location)
    BY <1>1, <2>1 DEF DispatchRead
  <2>3. filled = loaded
    BY DEF MachineType
  <2> HIDE DEF filled, loaded, n
  <2>4. sent = armed
    BY <2>3
  <2> HIDE DEF sent, armed
  <2> QED BY <2>2, <2>4
<1>3. /\ extent.size \in Nat /\ extent.loc \in Positions /\ extent.size # 0
      /\ item.callback \in Callbacks \cup {NULL}
      /\ [buffer |-> item.dst, offset |-> 0] \in [buffer : Buffers \cup {NULL}, offset : Nat]
  <2>1. extent.size # 0
    BY CountType DEF Readable, HeadItem
  <2> QED BY <2>1, HeadItemType, ExtentType
<1> HIDE DEF n
<1>4. loaded \in MachineType
  BY <1>3, CommandValues, ZenonT(30) DEF MachineType
<1>5. /\ SameQueue(m, loaded) /\ loaded.memory = m.memory /\ loaded.trap = m.trap
      /\ loaded.total_data = extent.size /\ loaded.read_remaining = extent.size
      /\ loaded.current_location = extent.loc
      /\ loaded.write_ptr = [buffer |-> item.dst, offset |-> 0]
      /\ loaded.transfer_callback = item.callback
      /\ loaded.playback_state = FALSE /\ loaded.current_command = "ReadN"
  BY DEF SameQueue, MachineType
<1> HIDE DEF loaded
<1>6. HeadItem(loaded) = item /\ HeadExtent(loaded) = extent /\ ~IsEmpty(loaded)
  BY <1>5, QueueLeft DEF HeadExtent
<1> HIDE DEF item, extent
<1>7. Moved(loaded) = 0
  BY <1>3, <1>5 DEF Moved
<1>8. Counted(loaded)
  <2>1. loaded.read_remaining \in 1..loaded.total_data
    BY <1>3, <1>5
  <2>2. loaded.current_location = HeadExtent(loaded).loc + Moved(loaded)
    BY <1>3, <1>5, <1>6, <1>7 DEF Positions
  <2> QED BY <1>5, <1>6, <2>1, <2>2 DEF Counted, item
<1>9. Filled(loaded)
  BY <1>7 DEF Filled
<1>10. Readable(loaded)
  BY <1>5, ReadableSame DEF SameQueue
<1>11. Transfers(loaded)
  BY <1>5, <1>6, <1>7, <1>8, <1>9, <1>10, LoadedTransfers
<1>12. hearing \in MachineType
  BY <1>4, ZenonT(30) DEF MachineType
<1>13. /\ SameQueue(loaded, hearing) /\ SameTransfer(loaded, hearing)
       /\ hearing.transfer_callback = loaded.transfer_callback
       /\ hearing.playback_state = FALSE /\ hearing.current_command = "ReadN"
  BY <1>4, <1>5 DEF SameQueue, SameTransfer, MachineType
<1> HIDE DEF hearing
<1>14. Transfers(hearing)
  <2>1. Counted(hearing) /\ Filled(hearing) /\ Moved(hearing) = Moved(loaded)
    BY <1>8, <1>9, <1>13, CountedSame
  <2>2. Readable(hearing) /\ HeadItem(hearing) = item
    BY <1>6, <1>10, <1>13, QueueLeft, ReadableSame DEF SameQueue
  <2>3. hearing.trap = {} /\ hearing.write_ptr = [buffer |-> HeadItem(hearing).dst, offset |-> Moved(hearing)]
    BY <1>5, <1>7, <1>13, <2>1, <2>2 DEF SameTransfer
  <2> QED BY <1>13, <2>1, <2>2, <2>3, LoadedTransfers
<1>15. /\ armed \in MachineType /\ Transfers(armed)
       /\ SameQueue(m, armed) /\ armed.memory = m.memory
  BY <1>4, <1>5, <1>11, <1>12, <1>13, <1>14 DEF SameQueue, SameTransfer
<1> HIDE DEF armed
<1>16. Leaves(armed, n)
  BY <1>2, <1>15, CdControlFLeaves
<1>17. Transfers(n) /\ SameQueue(m, n) /\ n.memory = m.memory
  BY <1>15, <1>16, LeavesTransfers DEF Leaves, SameQueue, SameTransfer
<1> QED BY <1>17 DEF n

(* A read that goes on where it was interrupted. *)
LEMMA DispatchReadAgain ==
    ASSUME NEW m \in MachineType, Ready(m), m.playback_state, NEW mode
    PROVE  LET n == DispatchRead(m, "ReadN", mode)
           IN Transfers(n) /\ SameQueue(m, n) /\ n.memory = m.memory
<1> DEFINE item == HeadItem(m)
           located == [m EXCEPT !.current_command = "ReadN", !.playback_state = FALSE]
           hearing == [located EXCEPT !.data_ready_pending = FALSE,
                                      !.ready_callback = "handle_ready_intr"]
           armed == IF mode # "ASYNC" THEN located ELSE hearing
           n == DispatchRead(m, "ReadN", mode)
<1>1. m.transfer_callback # NULL /\ Counted(m) /\ Filled(m) /\ Readable(m) /\ m.trap = {}
  BY DEF Ready, Resumed, Streaming
<1>2. item.callback # NULL
  BY <1>1 DEF Counted
<1>3. n = CdControlF(armed, "ReadN", armed.current_location)
  <2> DEFINE kept == [m EXCEPT !.current_location = m.current_location,
                               !.current_command = "ReadN",
                               !.playback_state = FALSE]
             heard == [kept EXCEPT !.data_ready_pending = FALSE,
                                   !.ready_callback = "handle_ready_intr"]
             sent == IF mode # "ASYNC" THEN kept ELSE heard
  <2>1. n = CdControlF(sent, "ReadN", sent.current_location)
    BY <1>2 DEF DispatchRead
  <2>2. kept = located
    BY DEF MachineType
  <2> HIDE DEF kept, located, n
  <2>3. sent = armed
    BY <2>2
  <2> HIDE DEF sent, armed
  <2> QED BY <2>1, <2>3
<1> HIDE DEF n, item
<1>4. located \in MachineType
  BY CommandValues, ZenonT(30) DEF MachineType
<1>5. /\ SameQueue(m, located) /\ SameTransfer(m, located)
      /\ located.transfer_callback = m.transfer_callback
      /\ located.playback_state = FALSE /\ located.current_command = "ReadN"
  BY DEF SameQueue, SameTransfer, MachineType
<1> HIDE DEF located
<1>6. hearing \in MachineType
  BY <1>4, ZenonT(30) DEF MachineType
<1>7. /\ SameQueue(located, hearing) /\ SameTransfer(located, hearing)
      /\ hearing.transfer_callback = located.transfer_callback
      /\ hearing.playback_state = FALSE /\ hearing.current_command = "ReadN"
  BY <1>4, <1>5 DEF SameQueue, SameTransfer, MachineType
<1> HIDE DEF hearing
<1>8. /\ armed \in MachineType
      /\ SameQueue(m, armed) /\ SameTransfer(m, armed)
      /\ armed.transfer_callback = m.transfer_callback
      /\ armed.playback_state = FALSE /\ armed.current_command = "ReadN"
  BY <1>4, <1>5, <1>6, <1>7 DEF SameQueue, SameTransfer
<1> HIDE DEF armed
<1>9. Transfers(armed)
  <2>1. Counted(armed) /\ Filled(armed)
    BY <1>1, <1>8, CountedSame
  <2>2. Readable(armed)
    BY <1>1, <1>8, ReadableSame DEF SameQueue
  <2> QED BY <1>1, <1>8, <2>1, <2>2, LoadedTransfers DEF SameTransfer
<1>10. Leaves(armed, n)
  BY <1>3, <1>8, CdControlFLeaves
<1>11. Transfers(n) /\ SameQueue(m, n) /\ n.memory = m.memory
  BY <1>8, <1>9, <1>10, LeavesTransfers DEF Leaves, SameQueue, SameTransfer
<1> QED BY <1>11 DEF n

LEMMA DispatchSeekTransfers ==
    ASSUME NEW m \in MachineType, Ready(m), HeadItem(m).command = "SeekL", NEW mode,
           mode = "COMMAND_THEN_READ" \/ m.ready_callback # "handle_ready_intr"
    PROVE  LET n == DispatchSeek(m, mode)
           IN Transfers(n) /\ SameQueue(m, n) /\ n.memory = m.memory
<1> DEFINE location == Extent[HeadItem(m).resource].loc
           ready == IF mode = "COMMAND_THEN_READ" THEN "none" ELSE m.ready_callback
           seeking == [m EXCEPT !.transfer_callback = NULL,
                                !.playback_state = FALSE,
                                !.current_location = location,
                                !.current_command = "SeekL",
                                !.ready_callback = ready]
           n == DispatchSeek(m, mode)
<1>1. n = CdControlF(seeking, "SeekL", location)
  BY DEF DispatchSeek
<1>2. /\ location \in Positions
      /\ ready \in {"none", "handle_ready_intr", "verify_disc"} /\ ready # "handle_ready_intr"
  BY HeadItemType, ExtentType DEF MachineType
<1> HIDE DEF n, location, ready
<1>3. seeking \in MachineType
  BY <1>2, CommandValues, ZenonT(30) DEF MachineType
<1>4. /\ SameQueue(m, seeking) /\ seeking.memory = m.memory /\ seeking.trap = m.trap
      /\ seeking.transfer_callback = NULL /\ seeking.playback_state = FALSE
      /\ seeking.ready_callback = ready
  BY DEF SameQueue, MachineType
<1> HIDE DEF seeking
<1>5. HeadItem(seeking) = HeadItem(m)
  BY <1>4, QueueLeft
<1>6. Transfers(seeking)
  <2>1. Readable(seeking) /\ seeking.trap = {}
    BY <1>4, ReadableSame DEF Ready, SameQueue
  <2> QED BY <1>2, <1>4, <1>5, <2>1 DEF Transfers, Streaming, Listening, Resumed, Seeking
<1>7. Leaves(seeking, n)
  BY <1>1, <1>3, CdControlFLeaves
<1>8. Transfers(n) /\ SameQueue(m, n) /\ n.memory = m.memory
  BY <1>4, <1>6, <1>7, LeavesTransfers DEF Leaves, SameQueue, SameTransfer
<1> QED BY <1>8 DEF n

(* Whatever is at the read index goes out. *)
LEMMA DispatchTransfers ==
    ASSUME NEW m \in MachineType, Ready(m), ~IsEmpty(m), NEW mode,
           HeadItem(m).command = "SeekL" =>
             mode = "COMMAND_THEN_READ" \/ m.ready_callback # "handle_ready_intr"
    PROVE  /\ HeadItem(m).command = "ReadN" =>
                LET n == DispatchRead(m, "ReadN", mode)
                IN Transfers(n) /\ SameQueue(m, n) /\ n.memory = m.memory
           /\ HeadItem(m).command = "SeekL" =>
                LET n == DispatchSeek(m, mode)
                IN Transfers(n) /\ SameQueue(m, n) /\ n.memory = m.memory
<1>1. m.playback_state \in BOOLEAN
  BY DEF MachineType
<1>2. Readable(m) /\ m.trap = {}
  BY DEF Ready
<1>3. ASSUME HeadItem(m).command = "ReadN"
      PROVE  LET n == DispatchRead(m, "ReadN", mode)
             IN Transfers(n) /\ SameQueue(m, n) /\ n.memory = m.memory
  <2>1. CASE m.playback_state
    BY <2>1, DispatchReadAgain
  <2>2. CASE ~m.playback_state
    BY <1>2, <1>3, <2>2, DispatchReadFresh
  <2> QED BY <1>1, <2>1, <2>2
<1>4. ASSUME HeadItem(m).command = "SeekL"
      PROVE  LET n == DispatchSeek(m, mode)
             IN Transfers(n) /\ SameQueue(m, n) /\ n.memory = m.memory
  BY <1>4, DispatchSeekTransfers
<1> QED BY <1>3, <1>4

(* Seeks that a pending entry supersedes are passed over. *)
Skips(m, n, k) ==
    /\ k \in 0..PendingCount(m) - 1
    /\ Passes(m, n, k)
    /\ \A i \in 0..k - 1 : m.items[Ahead(m, i)].command = "SeekL"
    /\ n.memory = m.memory

LEMMA MovedOn ==
    ASSUME NEW m \in MachineType, NEW k \in 0..PendingCount(m)
    PROVE  LET n == [m EXCEPT !.queue_read_index = Ahead(m, k)]
           IN /\ n \in MachineType /\ Passes(m, n, k) /\ n.memory = m.memory /\ n.trap = m.trap
              /\ n.playback_state = m.playback_state /\ n.transfer_callback = m.transfer_callback
              /\ n.ready_callback = m.ready_callback
<1> DEFINE r == m.queue_read_index
           w == m.queue_write_index
           s == (r + k) % QueueSize
           n == [m EXCEPT !.queue_read_index = Ahead(m, k)]
<1>1. r \in Slots /\ w \in Slots
  BY IndexType
<1>2. PendingCount(m) = (w - r) % QueueSize /\ Ahead(m, k) = s
  BY DEF PendingCount, Ahead
<1> HIDE DEF r, w, s
<1>3. s \in Slots /\ (w - s) % QueueSize = PendingCount(m) - k
  BY <1>1, <1>2, CountMoved DEF s
<1>4. n \in MachineType
  BY <1>2, <1>3, FieldUpdates
<1>5. /\ n.queue_read_index = s /\ n.queue_write_index = w /\ n.items = m.items
      /\ n.memory = m.memory /\ n.trap = m.trap
      /\ n.playback_state = m.playback_state /\ n.transfer_callback = m.transfer_callback
      /\ n.ready_callback = m.ready_callback
  BY <1>2 DEF MachineType, w
<1> HIDE DEF n
<1>6. PendingCount(n) = PendingCount(m) - k
  BY <1>3, <1>5 DEF PendingCount
<1>7. Passes(m, n, k)
  BY <1>2, <1>5, <1>6 DEF Passes, w
<1> QED BY <1>4, <1>5, <1>7 DEF n

(* A dispatch in place of the transfer before it. *)
LEMMA RunCommandTransfers ==
    ASSUME NEW m \in MachineType, DataQueued(m), Ready(m), ~IsEmpty(m),
           NEW mode \in {"ASYNC", "COMMAND_THEN_READ"},
           mode = "ASYNC" /\ m.ready_callback = "handle_ready_intr" => HeadItem(m).command = "ReadN"
    PROVE  LET n == RunCommand(m, HeadItem(m).command, mode)
           IN Transfers(n) /\ \E k \in 0..PendingCount(m) - 1 : Skips(m, n, k)
<1> DEFINE last == LastPending(m)
           command == HeadItem(m).command
           CommandAt(k) == IF k = 0 THEN command ELSE m.items[Ahead(m, k)].command
           stops == {k \in 0..last : k = last \/ CommandAt(k) # "SeekL"}
           skip == Min(stops)
           skipped == [m EXCEPT !.queue_read_index = Ahead(m, skip)]
           n == RunCommand(m, command, mode)
<1>1. last = PendingCount(m) - 1 /\ last \in Nat /\ PendingCount(m) \in Nat
  BY CountType
<1> HIDE DEF last
<1>2. skip \in stops /\ \A k \in stops : skip =< k
  <2>1. stops \in SUBSET Nat /\ last \in stops
    BY <1>1
  <2> HIDE DEF stops
  <2> QED BY <2>1, MinOfNats
<1>3. skip \in 0..last /\ skip \in Nat
  <2>1. skip \in 0..last
    <3>1. stops \subseteq 0..last
      OBVIOUS
    <3> HIDE DEF stops, skip
    <3> QED BY <1>2, <3>1
  <2> HIDE DEF skip
  <2> QED BY <1>1, <2>1
<1>4. n =
        CASE CommandAt(skip) \in {"ReadN", "ReadS"} -> DispatchRead(skipped, CommandAt(skip), mode)
          [] CommandAt(skip) = "SeekL" -> DispatchSeek(skipped, mode)
          [] OTHER -> DispatchOther(skipped, CommandAt(skip), mode)
  BY DEF RunCommand, Ahead, last
<1>5. command = "ReadN" => skip = 0
  <2>1. ASSUME command = "ReadN" PROVE 0 \in stops
    BY <1>1, <2>1
  <2> HIDE DEF stops, skip
  <2> QED BY <1>2, <1>3, <2>1
<1>6. \A i \in 0..skip - 1 : CommandAt(i) = "SeekL"
  <2>1. ASSUME NEW i \in 0..skip - 1
        PROVE  CommandAt(i) = "SeekL"
    <3> HIDE DEF skip, CommandAt
    <3>1. i \in 0..last /\ i < skip
      BY <1>1, <1>3
    <3>2. i \notin stops
      BY <1>1, <1>2, <1>3, <3>1
    <3> QED BY <1>1, <3>1, <3>2
  <2> QED BY <2>1
<1> HIDE DEF skip, stops, n
<1>7. skip \in 0..PendingCount(m) /\ skip \in 0..PendingCount(m) - 1
  BY <1>1, <1>3
<1>8. /\ skipped \in MachineType /\ Passes(m, skipped, skip)
      /\ skipped.memory = m.memory /\ skipped.trap = m.trap
      /\ skipped.playback_state = m.playback_state
      /\ skipped.transfer_callback = m.transfer_callback
      /\ skipped.ready_callback = m.ready_callback
  BY <1>7, MovedOn
<1>9. DataQueued(skipped)
  BY <1>7, SkippedQueued DEF Ahead
<1>10. skipped.items = m.items /\ skipped.queue_read_index = Ahead(m, skip)
  BY <1>8 DEF Passes
<1>11. ~IsEmpty(skipped)
  <2>1. PendingCount(skipped) >= 1
    BY <1>1, <1>3, <1>8 DEF Passes
  <2> QED BY <1>8, <2>1, CountType
<1> HIDE DEF skipped
<1>12. \A i \in 0..skip : i = 0 => Ahead(m, i) = m.queue_read_index
  <2>1. m.queue_read_index \in Nat /\ m.queue_read_index < QueueSize
    BY CountType, QueueAssumption DEF Slots
  <2>2. m.queue_read_index + 0 = m.queue_read_index
        /\ m.queue_read_index % QueueSize = m.queue_read_index
    BY <2>1, ModCases
  <2> QED BY <2>2 DEF Ahead
<1>13. \A i \in 0..skip : CommandAt(i) = m.items[Ahead(m, i)].command
  BY <1>12 DEF HeadItem
<1>14. CommandAt(skip) = HeadItem(skipped).command
  <2>1. skip \in 0..skip
    BY <1>3
  <2> HIDE DEF CommandAt
  <2> QED BY <1>10, <1>13, <2>1 DEF HeadItem
<1>15. HeadItem(skipped).command \in {"ReadN", "SeekL"}
  BY <1>8, <1>9, <1>11, HeadIsRequest
<1>16. Ready(skipped)
  <2>1. Readable(skipped) /\ skipped.trap = {} /\ Resumed(skipped)
    BY <1>8, <1>10, ReadableSame DEF Ready, Resumed
  <2>2. ASSUME skipped.transfer_callback # NULL
        PROVE  Counted(skipped) /\ Filled(skipped)
    <3>1. Counted(m) /\ Filled(m)
      BY <1>8, <2>2 DEF Ready, Streaming
    <3>2. skip = 0
      BY <1>5, <3>1 DEF Counted
    <3>3. skipped = m
      <4>1. Ahead(m, skip) = m.queue_read_index
        BY <1>3, <1>12, <3>2
      <4>2. skipped = [m EXCEPT !.queue_read_index = m.queue_read_index]
        BY <4>1 DEF skipped
      <4> QED BY <4>2 DEF MachineType
    <3> QED BY <3>1, <3>3
  <2> QED BY <2>1, <2>2 DEF Ready, Streaming
<1>17. HeadItem(skipped).command = "SeekL" =>
         mode = "COMMAND_THEN_READ" \/ skipped.ready_callback # "handle_ready_intr"
  <2>1. command = "ReadN" => HeadItem(skipped).command = "ReadN"
    BY <1>5, <1>14
  <2> QED BY <1>8, <2>1
<1> HIDE DEF CommandAt, command
<1>18. Transfers(n) /\ SameQueue(skipped, n) /\ n.memory = skipped.memory
  BY <1>4, <1>8, <1>11, <1>14, <1>15, <1>16, <1>17, DispatchTransfers
<1>19. Passes(m, n, skip)
  BY <1>8, <1>18, QueueLeft DEF Passes, SameQueue
<1>20. \A i \in 0..skip - 1 : m.items[Ahead(m, i)].command = "SeekL"
  <2>1. \A i \in 0..skip - 1 : i \in 0..skip
    BY <1>3
  <2> QED BY <1>6, <1>13, <2>1 DEF command
<1>21. Skips(m, n, skip)
  BY <1>7, <1>8, <1>18, <1>19, <1>20 DEF Skips
<1> QED BY <1>7, <1>18, <1>21 DEF n, command

LEMMA AheadNone ==
    ASSUME NEW m \in MachineType
    PROVE  Ahead(m, 0) = m.queue_read_index
<1>1. m.queue_read_index \in Nat /\ m.queue_read_index < QueueSize
  BY CountType, QueueAssumption DEF Slots
<1>2. m.queue_read_index + 0 = m.queue_read_index
      /\ m.queue_read_index % QueueSize = m.queue_read_index
  BY <1>1, ModCases
<1> QED BY <1>2 DEF Ahead

LEMMA SkipsServes ==
    ASSUME NEW m \in MachineType, NEW n, NEW k \in 0..PendingCount(m) - 1, Skips(m, n, k)
    PROVE  Serves(m, n)
<1>1. PendingCount(m) \in Nat
  BY CountType
<1>2. k \in 0..PendingCount(m) /\ k \in Nat
  BY <1>1
<1>3. OnlySeeks(m, k)
  <2>1. ASSUME NEW i \in 1..k - 1
        PROVE  m.items[Ahead(m, i)].command = "SeekL" /\ i < PendingCount(m) - 1
    <3>1. i \in 0..k - 1 /\ i < PendingCount(m) - 1
      BY <1>1, <1>2
    <3> QED BY <3>1 DEF Skips
  <2> QED BY <2>1 DEF OnlySeeks
<1>4. k > 0 => HeadItem(m).command = "SeekL"
  <2>1. ASSUME k > 0
        PROVE  HeadItem(m).command = "SeekL"
    <3>1. 0 \in 0..k - 1
      BY <1>2, <2>1
    <3> QED BY <3>1, AheadNone DEF Skips, HeadItem
  <2> QED BY <2>1
<1> QED BY <1>2, <1>3, <1>4 DEF Serves, Skips

(* The entry is retired, and superseded seeks behind it with it. *)
LEMMA RetiredServes ==
    ASSUME NEW m \in MachineType, ~IsEmpty(m), NEW p \in MachineType, Passes(m, p, 1), NEW n,
           SameQueue(p, n) \/ \E j \in 0..PendingCount(p) - 1 : Skips(p, n, j),
           n.memory = m.memory \/ PutsOne(m, n),
           HeadItem(m).command = "ReadN" => AllPut(m, n)
    PROVE  Serves(m, n)
<1>1. /\ PendingCount(m) \in Nat /\ PendingCount(m) >= 1 /\ PendingCount(m) <= QueueSize - 1
      /\ m.queue_read_index \in Slots
      /\ QueueSize \in Nat
  BY CountType, QueueAssumption
<1>2. /\ p.items = m.items /\ p.queue_write_index = m.queue_write_index
      /\ p.queue_read_index = Ahead(m, 1)
      /\ PendingCount(p) = PendingCount(m) - 1
  BY DEF Passes
<1>3. CASE SameQueue(p, n)
  <2>1. Passes(m, n, 1)
    BY <1>2, <1>3, QueueLeft DEF Passes, SameQueue
  <2>2. OnlySeeks(m, 1)
    BY DEF OnlySeeks
  <2>3. 1 \in 0..PendingCount(m)
    BY <1>1
  <2> QED BY <2>1, <2>2, <2>3 DEF Serves
<1>4. ASSUME NEW j \in 0..PendingCount(p) - 1, Skips(p, n, j)
      PROVE  Serves(m, n)
  <2> DEFINE k == 1 + j
  <2>1. k \in 0..PendingCount(m) /\ k \in Nat /\ j \in Nat /\ j <= PendingCount(m) - 2
    BY <1>1, <1>2
  <2>2. \A b \in 0..j : Ahead(p, b) = Ahead(m, 1 + b)
    <3>1. ASSUME NEW b \in 0..j
          PROVE  Ahead(p, b) = Ahead(m, 1 + b)
      <4>1. b \in Nat /\ 1 \in Nat /\ 1 + b <= QueueSize - 1
        BY <1>1, <2>1
      <4> QED BY <1>1, <1>2, <4>1, AheadTwice DEF Ahead
    <3> QED BY <3>1
  <2>3. Passes(p, n, j) /\ \A i \in 0..j - 1 : p.items[Ahead(p, i)].command = "SeekL"
    BY <1>4 DEF Skips
  <2>4. Passes(m, n, k)
    <3>1. PendingCount(n) = PendingCount(m) - k
      BY <1>1, <1>2, <2>1, <2>3 DEF Passes
    <3>2. n.queue_read_index = Ahead(m, k)
      BY <2>1, <2>2, <2>3 DEF Passes
    <3> QED BY <1>2, <2>3, <3>1, <3>2 DEF Passes
  <2>5. OnlySeeks(m, k)
    <3>1. ASSUME NEW i \in 1..k - 1
          PROVE  m.items[Ahead(m, i)].command = "SeekL" /\ i < PendingCount(m) - 1
      <4>1. i - 1 \in 0..j - 1 /\ i - 1 \in 0..j /\ 1 + (i - 1) = i /\ i < PendingCount(m) - 1
        BY <1>1, <2>1
      <4>2. Ahead(p, i - 1) = Ahead(m, i)
        BY <2>2, <4>1
      <4> QED BY <1>2, <2>3, <4>1, <4>2
    <3> QED BY <3>1 DEF OnlySeeks
  <2> HIDE DEF k
  <2> QED BY <2>1, <2>4, <2>5 DEF Serves
<1> QED BY <1>3, <1>4

LEMMA RetirePasses ==
    ASSUME NEW m \in MachineType, ~IsEmpty(m), Readable(m), m.trap = {}
    PROVE  LET n == Retire(m)
           IN /\ n \in MachineType /\ Passes(m, n, 1) /\ n.memory = m.memory
              /\ Ready(n) /\ n.transfer_callback = NULL /\ n.playback_state = FALSE
              /\ n.ready_callback = m.ready_callback /\ n.current_command = m.current_command
<1> DEFINE moved == [m EXCEPT !.queue_read_index = Ahead(m, 1)]
           n == Retire(m)
<1>1. 1 \in 0..PendingCount(m)
  BY CountType
<1>2. /\ moved \in MachineType /\ Passes(m, moved, 1) /\ moved.memory = m.memory
      /\ moved.trap = m.trap /\ moved.ready_callback = m.ready_callback
  BY <1>1, MovedOn
<1>3. moved.current_command = m.current_command
  BY DEF MachineType
<1>4. n = [moved EXCEPT !.playback_state = FALSE, !.transfer_callback = NULL]
  BY DEF Retire, Next1, Ahead
<1>5. n \in MachineType
  BY RetireType
<1> HIDE DEF moved, n
<1>6. /\ SameQueue(moved, n) /\ n.memory = moved.memory /\ n.trap = moved.trap
      /\ n.transfer_callback = NULL /\ n.playback_state = FALSE
      /\ n.ready_callback = moved.ready_callback /\ n.current_command = moved.current_command
  BY <1>2, <1>4 DEF SameQueue, MachineType
<1>7. Passes(m, n, 1)
  BY <1>2, <1>6, QueueLeft DEF Passes, SameQueue
<1>8. Ready(n)
  <2>1. Readable(n)
    BY <1>7, ReadableSame DEF Passes
  <2> QED BY <1>2, <1>6, <2>1 DEF Ready, Streaming, Resumed
<1> QED BY <1>2, <1>3, <1>5, <1>6, <1>7, <1>8 DEF n

-----------------------------------------------------------------------------
(* The sync callbacks. *)

LEMMA TransfersReady ==
    ASSUME NEW m, Transfers(m)
    PROVE  Ready(m)
BY DEF Transfers, Ready

LEMMA RetireSeekAdvances ==
    ASSUME NEW m \in MachineType, DataQueued(m), Transfers(m), ~IsEmpty(m),
           HeadItem(m).command = "SeekL", m.ready_callback # "handle_ready_intr"
    PROVE  Advances(m, RetireSeek(m))
<1> DEFINE retired == Retire(m)
           idle == [GoIdle(retired) EXCEPT !.init_command = 0, !.init_retry = FALSE]
           run == RunCommand(retired, HeadItem(retired).command, "ASYNC")
           n == RetireSeek(m)
<1>1. Readable(m) /\ m.trap = {}
  BY DEF Transfers
<1>2. /\ retired \in MachineType /\ Passes(m, retired, 1) /\ retired.memory = m.memory
      /\ Ready(retired) /\ retired.transfer_callback = NULL /\ retired.playback_state = FALSE
      /\ retired.ready_callback = m.ready_callback
  BY <1>1, RetirePasses
<1>3. DataQueued(retired)
  BY RetireFields
<1>4. n = IF IsEmpty(retired) THEN idle ELSE RunQueued(retired, HeadItem(retired).command)
  BY DEF RetireSeek
<1> HIDE DEF retired, n
<1>5. CASE IsEmpty(retired)
  <2> DEFINE rested == GoIdle(retired)
  <2>1. rested \in MachineType
    BY <1>2, GoIdleType
  <2>2. /\ SameQueue(retired, rested) /\ SameTransfer(retired, rested)
        /\ rested.transfer_callback = NULL /\ rested.playback_state = FALSE
        /\ rested.ready_callback = retired.ready_callback /\ rested.current_command = "None"
    BY <1>2 DEF GoIdle, SameQueue, SameTransfer, MachineType
  <2> HIDE DEF rested
  <2>3. /\ SameQueue(rested, idle) /\ SameTransfer(rested, idle)
        /\ idle.transfer_callback = rested.transfer_callback
        /\ idle.playback_state = rested.playback_state
        /\ idle.ready_callback = rested.ready_callback
        /\ idle.current_command = rested.current_command
    BY <2>1 DEF SameQueue, SameTransfer, MachineType, rested
  <2> HIDE DEF idle
  <2>4. Transfers(idle)
    <3>1. Readable(idle) /\ idle.trap = {}
      BY <1>2, <2>2, <2>3, ReadableSame DEF Ready, SameQueue, SameTransfer
    <3> QED BY <1>2, <2>2, <2>3, <3>1 DEF Transfers, Streaming, Listening, Resumed, Seeking
  <2>5. SameQueue(retired, idle) /\ idle.memory = m.memory
    BY <1>2, <2>2, <2>3 DEF SameQueue, SameTransfer
  <2>6. Serves(m, idle)
    BY <1>2, <2>5, RetiredServes
  <2> QED BY <1>4, <1>5, <2>4, <2>6 DEF Advances, n
<1>6. CASE ~IsEmpty(retired)
  <2>1. HeadItem(retired).command \in {"ReadN", "SeekL"}
    BY <1>2, <1>3, <1>6, HeadIsRequest
  <2>2. n = run
    BY <1>2, <1>3, <1>4, <1>6, <2>1, AsData
  <2>3. Transfers(run) /\ \E k \in 0..PendingCount(retired) - 1 : Skips(retired, run, k)
    BY <1>2, <1>3, <1>6, RunCommandTransfers
  <2> HIDE DEF run
  <2>4. run.memory = m.memory
    BY <1>2, <2>3 DEF Skips
  <2>5. Serves(m, run)
    BY <1>2, <2>3, <2>4, RetiredServes
  <2> QED BY <2>2, <2>3, <2>5 DEF Advances, n
<1> QED BY <1>5, <1>6

LEMMA RunCommandAdvances ==
    ASSUME NEW m \in MachineType, DataQueued(m), Ready(m), ~IsEmpty(m),
           NEW mode \in {"ASYNC", "COMMAND_THEN_READ"},
           mode = "ASYNC" /\ m.ready_callback = "handle_ready_intr" => HeadItem(m).command = "ReadN"
    PROVE  Advances(m, RunCommand(m, HeadItem(m).command, mode))
<1> DEFINE n == RunCommand(m, HeadItem(m).command, mode)
<1>1. Transfers(n) /\ \E k \in 0..PendingCount(m) - 1 : Skips(m, n, k)
  BY RunCommandTransfers
<1> HIDE DEF n
<1>2. Serves(m, n)
  BY <1>1, SkipsServes
<1> QED BY <1>1, <1>2 DEF Advances, n

LEMMA DispatchHeadAdvances ==
    ASSUME NEW m \in MachineType, DataQueued(m), Transfers(m), ~IsEmpty(m),
           m.ready_callback = "handle_ready_intr" => HeadItem(m).command = "ReadN"
    PROVE  Advances(m, DispatchHead(m))
<1>1. HeadItem(m).command \in {"ReadN", "SeekL"}
  BY HeadIsRequest
<1>2. DispatchHead(m) = RunQueued(m, HeadItem(m).command)
  BY <1>1 DEF DispatchHead
<1>3. DispatchHead(m) = RunCommand(m, HeadItem(m).command, "ASYNC")
  BY <1>1, <1>2, AsData
<1>4. Ready(m)
  BY TransfersReady
<1> QED BY <1>3, <1>4, RunCommandAdvances

LEMMA CompleteCommandAdvances ==
    ASSUME NEW m \in MachineType, Roles(m), Transfers(m), m.sync_callback = "complete_command",
           NEW complete \in BOOLEAN, NEW shellOpen \in BOOLEAN
    PROVE  Advances(m, CompleteCommand(m, complete, shellOpen))
<1> DEFINE seen == [m EXCEPT !.sync_complete = TRUE]
           head == HeadItem(m).command
           nop == [seen EXCEPT !.current_command = "Nop"]
           n == CompleteCommand(m, complete, shellOpen)
<1>1. seen \in MachineType
  BY FieldUpdates
<1>2. SameView(m, seen) /\ Leaves(m, seen)
  BY OtherFields, FieldsLeft
<1>3. Roles(seen) /\ Transfers(seen)
  BY <1>2, ViewRoles, LeavesTransfers
<1>4. HeadItem(seen) = HeadItem(m) /\ seen.current_command = m.current_command
      /\ seen.sync_callback = "complete_command"
  BY <1>2, QueueSame DEF SameView, SameSlots
<1>5. n = CASE ShellReported(m, shellOpen) -> HandleSyncError(seen)
            [] m.current_command = "Nop" /\ ~ShellReported(m, shellOpen) /\ ~complete ->
                 RunCommand(seen, head, "ASYNC")
            [] m.current_command # "Nop" /\ ~complete -> CdControlF(nop, "Nop", 0)
            [] complete /\ m.current_command \in {"ReadN", "ReadS"} -> seen
            [] complete /\ m.current_command = "SeekL" -> RetireSeek(seen)
            [] OTHER -> DispatchHead(seen)
  BY DEF CompleteCommand
<1> HIDE DEF n, seen
<1>6. nop \in MachineType /\ Leaves(seen, nop)
  BY <1>1, CommandValues, FieldUpdates, FieldsLeft
<1> HIDE DEF nop
<1>7. DataQueued(seen) /\ ~IsEmpty(seen) /\ seen.current_command # "None"
  BY <1>3, <1>4, WorkingFrom DEF Working
<1>8. /\ seen.ready_callback = "handle_ready_intr" => HeadItem(seen).command = "ReadN"
      /\ seen.current_command = "SeekL" =>
           seen.ready_callback # "handle_ready_intr" /\ HeadItem(seen).command = "SeekL"
  BY <1>3 DEF Roles, Receiving, Transfers, Seeking
<1>9. Advances(seen, HandleSyncError(seen))
  BY <1>1, <1>3, HandleSyncErrorLeaves, LeavesAdvances
<1>10. Advances(seen, RunCommand(seen, head, "ASYNC"))
  <2>1. Ready(seen)
    BY <1>3, TransfersReady
  <2> QED BY <1>1, <1>4, <1>7, <1>8, <2>1, RunCommandAdvances
<1>11. Advances(seen, CdControlF(nop, "Nop", 0))
  BY <1>1, <1>3, <1>6, CdControlFLeaves, LeavesTransitive, LeavesAdvances
<1>12. Advances(seen, seen)
  BY <1>1, <1>3, LeavesItself, LeavesAdvances
<1>13. seen.current_command = "SeekL" => Advances(seen, RetireSeek(seen))
  BY <1>1, <1>3, <1>7, <1>8, RetireSeekAdvances
<1>14. Advances(seen, DispatchHead(seen))
  BY <1>1, <1>3, <1>7, <1>8, DispatchHeadAdvances
<1>15. Advances(seen, n)
  <2>1. CASE ShellReported(m, shellOpen)
    BY <1>5, <1>9, <2>1 DEF ShellReported
  <2>2. CASE m.current_command = "Nop" /\ ~ShellReported(m, shellOpen) /\ ~complete
    BY <1>5, <1>10, <2>2
  <2>3. CASE m.current_command # "Nop" /\ ~complete /\ ~ShellReported(m, shellOpen)
    BY <1>5, <1>11, <2>3
  <2>4. CASE complete /\ ~ShellReported(m, shellOpen)
    BY <1>4, <1>5, <1>12, <1>13, <1>14, <2>4
  <2> QED BY <2>1, <2>2, <2>3, <2>4
<1> QED BY <1>2, <1>15, AdvancesAfter DEF n

(* The pause is over: what was queued meanwhile starts afresh. *)
LEMMA AfterPauseAdvances ==
    ASSUME NEW m \in MachineType, DataQueued(m), Transfers(m),
           m.ready_callback # "handle_ready_intr"
    PROVE  Advances(m, AfterPause(m))
<1> DEFINE command == HeadItem(m).command
           next == [m EXCEPT !.init_command = 0,
                             !.sync_callback = "complete_command",
                             !.playback_state = FALSE,
                             !.transfer_callback = NULL]
           n == RunCommand(next, HeadItem(next).command, "ASYNC")
<1>1. CASE IsEmpty(m)
  BY <1>1, EndStepLeaves, LeavesAdvances DEF AfterPause
<1>2. CASE ~IsEmpty(m)
  <2>1. command \in {"ReadN", "SeekL"}
    BY <1>2, HeadIsRequest
  <2>2. AsMovie(m, command) = m
    BY <2>1, AsData
  <2>3. AfterPause(m) = RunCommand(next, command, "ASYNC")
    BY <1>2, <2>2 DEF AfterPause
  <2>4. next \in MachineType
    BY StepValues, ZenonT(30) DEF MachineType
  <2>5. /\ SameQueue(m, next) /\ SameTransfer(m, next)
        /\ next.transfer_callback = NULL /\ next.playback_state = FALSE
        /\ next.ready_callback = m.ready_callback /\ next.current_command = m.current_command
        /\ next.audio_enabled = m.audio_enabled /\ next.data_ready_pending = m.data_ready_pending
    BY DEF SameQueue, SameTransfer, MachineType
  <2> HIDE DEF next
  <2>6. DataQueued(next)
    <3>1. next.audio_enabled = FALSE /\ next.data_ready_pending = FALSE
      BY <2>5 DEF DataQueued
    <3> QED BY <2>5, <3>1, DataQueuedSame
  <2>7. ~IsEmpty(next) /\ HeadItem(next) = HeadItem(m)
    BY <1>2, <2>5, QueueLeft
  <2>8. Leaves(m, next)
    BY <2>5 DEF Leaves, Resumed
  <2>9. Ready(next)
    BY <2>8, LeavesTransfers, TransfersReady
  <2>10. Advances(next, n)
    BY <2>4, <2>5, <2>6, <2>7, <2>9, RunCommandAdvances
  <2>11. AfterPause(m) = n
    BY <2>3, <2>7
  <2> HIDE DEF n
  <2> QED BY <2>8, <2>10, <2>11, AdvancesAfter
<1> QED BY <1>1, <1>2

LEMMA StepDoneAdvances ==
    ASSUME NEW m \in MachineType, DataQueued(m), Transfers(m),
           m.init_command \in Pausing => m.ready_callback # "handle_ready_intr"
    PROVE  Advances(m, StepDone(m))
<1>1. CASE m.init_command \in {PAUSE, RESTORE_MODE}
  <2>1. m.init_command \in Pausing /\ StepDone(m) = AfterPause(m)
    BY <1>1, StepNumbers DEF StepDone
  <2> QED BY <2>1, AfterPauseAdvances
<1>2. CASE m.init_command \in {AUDIO_PAUSE, STEP_DEMUTE, STEP_PAUSE}
  <2>1. m.init_command + 1 \in InitCommands
    BY <1>2, StepNumbers DEF InitCommands
  <2>2. StepDone(m) \in {NextStep(m, "Setmode"), NextStep(m, "Demute"), NextStep(m, "Pause")}
    BY <1>2, StepNumbers DEF StepDone
  <2> QED BY <2>1, <2>2, NextStepLeaves, LeavesAdvances
<1>3. CASE m.init_command \notin {PAUSE, RESTORE_MODE, AUDIO_PAUSE, STEP_DEMUTE, STEP_PAUSE}
  <2>1. StepDone(m) \in {EndStepAt(m, RECONF_SET_FILTER), FinishReconfiguration(m), EndStep(m),
                         EndStepAt(m, READ_DISC_ID), FinishRecovery(m), m}
    BY <1>3, StepNumbers DEF StepDone
  <2>2. \A n \in {EndStepAt(m, RECONF_SET_FILTER), FinishReconfiguration(m), EndStep(m),
                  EndStepAt(m, READ_DISC_ID), FinishRecovery(m), m} : Leaves(m, n)
    <3> HIDE DEF Leaves
    <3> QED BY EndStepAtLeaves, FinishReconfigurationLeaves, EndStepLeaves, FinishRecoveryLeaves,
               LeavesItself
  <2> QED BY <2>1, <2>2, LeavesAdvances
<1> QED BY <1>1, <1>2, <1>3

LEMMA HandleRecoverySyncAdvances ==
    ASSUME NEW m \in MachineType, Roles(m), Transfers(m),
           NEW complete \in BOOLEAN, NEW shellOpen \in BOOLEAN, NEW rejected \in BOOLEAN
    PROVE  Advances(m, HandleRecoverySync(m, complete, shellOpen, rejected))
<1> DEFINE seen == [m EXCEPT !.sync_complete = TRUE]
           off == Disarm(seen)
           refused == [off EXCEPT !.init_state = ERROR_PAUSE,
                                  !.init_command = 0,
                                  !.init_retry = FALSE,
                                  !.status_flags = @ \ {"NO_DISC"}]
           checked == IF m.init_command = RECOVERY_READ_DISC_ID /\ rejected THEN refused ELSE seen
           heard(retry) == [checked EXCEPT !.init_retry = retry]
           lidOpened == m.init_retry /\ "RECOVERY_PENDING" \notin m.status_flags /\ shellOpen
           n == HandleRecoverySync(m, complete, shellOpen, rejected)
<1>1. n = IF lidOpened THEN HandleSyncError(seen)
          ELSE IF complete THEN StepDone(heard(FALSE))
          ELSE IF checked.init_retry THEN StepFailedTwice(heard(FALSE))
          ELSE CdControlF(heard(TRUE), "Nop", 0)
  BY DEF HandleRecoverySync
<1>2. seen \in MachineType /\ SameView(m, seen) /\ Leaves(m, seen)
  BY FieldUpdates, OtherFields, FieldsLeft
<1> HIDE DEF n, seen
<1>3. off \in MachineType /\ Leaves(seen, off) /\ off.ready_callback = "none"
      /\ off.audio_enabled = seen.audio_enabled /\ off.data_ready_pending = seen.data_ready_pending
  <2>1. off.audio_enabled = seen.audio_enabled /\ off.data_ready_pending = seen.data_ready_pending
    BY <1>2 DEF Disarm, MachineType
  <2> QED BY <1>2, <2>1, DisarmType, DisarmLeaves
<1> HIDE DEF off
<1>4. refused \in MachineType
  <2>1. off.status_flags \ {"NO_DISC"} \in SUBSET Flags
    BY <1>3 DEF MachineType
  <2> QED BY <1>3, <2>1, StateValues, StepValues, ZenonT(30) DEF MachineType
<1>5. /\ Leaves(off, refused) /\ refused.ready_callback = "none"
      /\ refused.audio_enabled = seen.audio_enabled
      /\ refused.data_ready_pending = seen.data_ready_pending
  BY <1>3 DEF Leaves, SameQueue, SameTransfer, Resumed, MachineType
<1> HIDE DEF refused
<1>6. Roles(seen)
  BY <1>2, ViewRoles
<1>7. /\ checked \in MachineType /\ Leaves(m, checked)
      /\ DataQueued(checked)
      /\ checked.init_command \in Pausing => checked.ready_callback # "handle_ready_intr"
  <2>1. Leaves(seen, refused) /\ Leaves(m, refused)
    BY <1>2, <1>3, <1>5, LeavesTransitive
  <2>2. DataQueued(seen) /\ (seen.init_command \in Pausing => seen.ready_callback # "handle_ready_intr")
    BY <1>6 DEF Roles, Exclusive
  <2>3. DataQueued(refused)
    <3>1. refused.audio_enabled = FALSE /\ refused.data_ready_pending = FALSE
      BY <1>5, <2>2 DEF DataQueued
    <3>2. SameQueue(seen, refused)
      BY <2>1 DEF Leaves
    <3> QED BY <2>2, <3>1, <3>2, DataQueuedSame
  <2> QED BY <1>2, <1>4, <1>5, <2>1, <2>2, <2>3
<1> HIDE DEF checked
<1>8. ASSUME NEW retry \in BOOLEAN
      PROVE  /\ heard(retry) \in MachineType /\ Leaves(m, heard(retry))
             /\ DataQueued(heard(retry)) /\ Transfers(heard(retry))
             /\ heard(retry).init_command \in Pausing =>
                  heard(retry).ready_callback # "handle_ready_intr"
  <2>1. heard(retry) \in MachineType
    BY <1>7, FieldUpdates
  <2>2. Leaves(checked, heard(retry))
    BY <1>7, FieldsLeft
  <2>3. /\ heard(retry).init_command = checked.init_command
        /\ heard(retry).ready_callback = checked.ready_callback
        /\ heard(retry).audio_enabled = checked.audio_enabled
        /\ heard(retry).data_ready_pending = checked.data_ready_pending
    BY <1>7 DEF MachineType
  <2> HIDE DEF heard
  <2>4. Leaves(m, heard(retry))
    BY <1>7, <2>2, LeavesTransitive
  <2>5. DataQueued(heard(retry))
    <3>1. heard(retry).audio_enabled = FALSE /\ heard(retry).data_ready_pending = FALSE
      BY <1>7, <2>3 DEF DataQueued
    <3>2. SameQueue(checked, heard(retry))
      BY <2>2 DEF Leaves
    <3> QED BY <1>7, <3>1, <3>2, DataQueuedSame
  <2> QED BY <1>7, <2>1, <2>3, <2>4, <2>5, LeavesTransfers
<1> HIDE DEF heard
<1>9. Leaves(m, HandleSyncError(seen))
  BY <1>2, HandleSyncErrorLeaves, LeavesTransitive
<1>10. Advances(m, StepDone(heard(FALSE)))
  BY <1>8, StepDoneAdvances, AdvancesAfter
<1>11. Leaves(m, StepFailedTwice(heard(FALSE)))
  BY <1>8, StepFailedTwiceLeaves, LeavesTransitive
<1>12. Leaves(m, CdControlF(heard(TRUE), "Nop", 0))
  BY <1>8, CdControlFLeaves, LeavesTransitive
<1>13. Advances(m, n)
  BY <1>1, <1>9, <1>10, <1>11, <1>12, LeavesAdvances
<1> QED BY <1>13 DEF n

LEMMA SyncCallbackAdvances ==
    ASSUME NEW m \in MachineType, Roles(m), Transfers(m), NEW complete \in BOOLEAN
    PROVE  Advances(m, SyncCallback(m, complete))
<1>1. ShellOpen \in BOOLEAN /\ Rejected \in BOOLEAN
  BY DEF ShellOpen, Rejected
<1>2. CASE m.sync_callback = "complete_command"
  BY <1>1, <1>2, CompleteCommandAdvances DEF SyncCallback
<1>3. CASE m.sync_callback = "handle_recovery_sync"
  BY <1>1, <1>3, HandleRecoverySyncAdvances DEF SyncCallback
<1>4. CASE m.sync_callback \notin {"complete_command", "handle_recovery_sync"}
  BY <1>4, LeavesItself, LeavesAdvances DEF SyncCallback
<1> QED BY <1>2, <1>3, <1>4

-----------------------------------------------------------------------------
(* The ready callbacks. *)

(* Where the next sector of the transfer belongs, and what it says there. *)
LEMMA NextPlace ==
    ASSUME NEW m \in MachineType, Readable(m), Counted(m)
    PROVE  /\ SinkOf(HeadItem(m)) \in Sinks /\ SinkOf(HeadItem(m)) # NULL
           /\ Moved(m) \in Offsets /\ Moved(m) \in 0..HeadExtent(m).size - 1
           /\ HeadExtent(m).loc \in Nat /\ HeadExtent(m).size \in Nat
           /\ m.current_location \in Positions /\ m.read_remaining \in Nat
<1>1. /\ HeadItem(m) \in Request /\ HeadItem(m).dst \in Buffers \cup {NULL}
      /\ HeadItem(m).callback \in Callbacks \cup {NULL}
  BY HeadItemType
<1>2. SinkOf(HeadItem(m)) # NULL
  BY CountType DEF Readable, Counted, HeadItem
<1>3. SinkOf(HeadItem(m)) \in Sinks
  BY <1>1, <1>2 DEF SinkOf, Sinks
<1>4. /\ HeadExtent(m).loc \in Nat /\ HeadExtent(m).size \in Nat /\ LastPosition \in Nat
      /\ HeadExtent(m).loc + HeadExtent(m).size <= LastPosition + 1
  BY <1>1, DiscAssumption DEF Request, HeadExtent
<1>5. /\ m.read_remaining \in 1..m.total_data /\ m.total_data = HeadExtent(m).size
      /\ Moved(m) = m.total_data - m.read_remaining
      /\ m.read_remaining \in Nat /\ m.current_location \in Positions
  BY DEF Counted, Moved, MachineType
<1>6. Moved(m) \in 0..HeadExtent(m).size - 1
  BY <1>4, <1>5
<1>7. Moved(m) \in 0..LastPosition
  BY <1>4, <1>6
<1> QED BY <1>2, <1>3, <1>4, <1>5, <1>6, <1>7 DEF Offsets

(* The sector is copied to where cdrom_process_sector finds room for it. *)
Stored(m) ==
    IF m.transfer_callback = NULL THEN StoreSector(m, m.write_ptr.buffer, m.write_ptr.offset)
    ELSE StoreSector(m, m.transfer_callback, m.total_data - m.read_remaining)

LEMMA StoredInTurn ==
    ASSUME NEW m \in MachineType, Readable(m), Counted(m), Filled(m), m.sector = m.current_location,
           m.transfer_callback = NULL =>
             m.write_ptr = [buffer |-> HeadItem(m).dst, offset |-> Moved(m)]
    PROVE  LET n == Stored(m)
               sink == SinkOf(HeadItem(m))
               loc == HeadExtent(m).loc
           IN /\ n \in MachineType /\ SameQueue(m, n)
              /\ n = [m EXCEPT !.memory = n.memory]
              /\ n.memory = [m.memory EXCEPT ![sink][Moved(m)] = loc + Moved(m)]
              /\ \A o \in 0..Moved(m) : n.memory[sink][o] = loc + o
<1> DEFINE n == Stored(m)
           sink == SinkOf(HeadItem(m))
           loc == HeadExtent(m).loc
           k == Moved(m)
<1>1. /\ sink \in Sinks /\ sink # NULL /\ k \in Offsets /\ k \in 0..HeadExtent(m).size - 1
      /\ loc \in Nat
  BY NextPlace
<1>2. n = StoreSector(m, sink, k)
  <2>1. CASE m.transfer_callback = NULL
    <3>1. sink = HeadItem(m).dst
      BY <2>1 DEF Counted, SinkOf
    <3>2. m.write_ptr.buffer = HeadItem(m).dst /\ m.write_ptr.offset = k
      BY <2>1
    <3> QED BY <2>1, <3>1, <3>2 DEF Stored
  <2>2. CASE m.transfer_callback # NULL
    <3>1. sink = m.transfer_callback
      BY <2>2 DEF Counted, SinkOf
    <3> QED BY <2>2, <3>1 DEF Stored, Moved
  <2> QED BY <2>1, <2>2
<1>3. m.sector = loc + k
  BY DEF Counted
<1> HIDE DEF n, sink, loc, k
<1>4. n = [m EXCEPT !.memory = [m.memory EXCEPT ![sink][k] = m.sector]]
  BY <1>1, <1>2 DEF StoreSector
<1>5. n \in MachineType
  BY <1>2, StoreSectorType
<1>6. n.memory = [m.memory EXCEPT ![sink][k] = loc + k]
  BY <1>3, <1>4 DEF MachineType
<1>7. SameQueue(m, n) /\ n = [m EXCEPT !.memory = n.memory]
  BY <1>4 DEF SameQueue, MachineType
<1>8. \A o \in 0..k : n.memory[sink][o] = loc + o
  <2>1. m.memory \in [Sinks -> [Offsets -> Positions]]
    BY DEF MachineType
  <2>2. ASSUME NEW o \in 0..k
        PROVE  n.memory[sink][o] = loc + o
    <3>1. o = k \/ o \in 0..k - 1
      BY <1>1
    <3>2. CASE o = k
      BY <1>1, <1>6, <2>1, <3>2
    <3>3. CASE o \in 0..k - 1 /\ o # k
      <4>1. m.memory[sink][o] = loc + o
        BY <3>3 DEF Filled, sink, loc, k
      <4> QED BY <1>1, <1>6, <2>1, <3>3, <4>1
    <3> QED BY <3>1, <3>2, <3>3
  <2> QED BY <2>2
<1> QED BY <1>5, <1>6, <1>7, <1>8 DEF n, sink, loc, k

(* Nothing moves and nothing is to be resumed. *)
LEMMA NothingUnderWay ==
    ASSUME NEW m, Readable(m), m.trap = {}, m.transfer_callback = NULL, m.playback_state = FALSE,
           m.ready_callback # "handle_ready_intr", m.current_command # "SeekL"
    PROVE  Transfers(m)
BY DEF Transfers, Streaming, Listening, Resumed, Seeking

(* The transfer goes on with the next sector. *)
OneFurther(stored, offset) ==
    [stored EXCEPT !.current_location = @ + 1,
                   !.read_remaining = @ - 1,
                   !.write_ptr.offset = offset]

(* A sector in the middle of its request. *)
LEMMA FurtherSector ==
    ASSUME NEW m \in MachineType, Readable(m), Counted(m), m.sector = m.current_location,
           m.trap = {}, m.playback_state = FALSE \/ m.transfer_callback # NULL,
           m.current_command # "SeekL", MoreToCome(m),
           NEW stored \in MachineType, SameQueue(m, stored), stored = [m EXCEPT !.memory = stored.memory],
           \A o \in 0..Moved(m) :
             stored.memory[SinkOf(HeadItem(m))][o] = HeadExtent(m).loc + o,
           NEW offset, m.transfer_callback = NULL =>
             m.write_ptr = [buffer |-> HeadItem(m).dst, offset |-> Moved(m)] /\ offset = Moved(m) + 1
    PROVE  LET n == OneFurther(stored, offset)
           IN Transfers(n) /\ SameQueue(m, n) /\ n.memory = stored.memory
<1> DEFINE place == [stored.write_ptr EXCEPT !.offset = offset]
           n == [stored EXCEPT !.current_location = stored.current_location + 1,
                               !.read_remaining = stored.read_remaining - 1,
                               !.write_ptr = place]
<1>1. /\ stored.current_location = m.current_location /\ stored.read_remaining = m.read_remaining
      /\ stored.write_ptr = m.write_ptr /\ stored.total_data = m.total_data
      /\ stored.transfer_callback = m.transfer_callback /\ stored.trap = m.trap
      /\ stored.playback_state = m.playback_state /\ stored.current_command = m.current_command
  BY DEF MachineType
<1>2. /\ n.current_location = m.current_location + 1 /\ n.read_remaining = m.read_remaining - 1
      /\ n.write_ptr = place /\ n.total_data = m.total_data
      /\ n.transfer_callback = m.transfer_callback /\ n.trap = m.trap
      /\ n.playback_state = m.playback_state /\ n.current_command = m.current_command
      /\ SameQueue(stored, n) /\ n.memory = stored.memory
  BY <1>1 DEF SameQueue, MachineType
<1>3. place = [m.write_ptr EXCEPT !.offset = offset]
  BY <1>1
<1>4. OneFurther(stored, offset) = n
  BY DEF OneFurther, MachineType
<1> HIDE DEF n, place
<1>5. SameQueue(m, n)
  BY <1>2 DEF SameQueue
<1>6. /\ HeadItem(n) = HeadItem(m) /\ HeadExtent(n) = HeadExtent(m) /\ ~IsEmpty(n)
  BY <1>5, QueueLeft DEF Counted
<1>7. /\ m.read_remaining \in Nat /\ m.read_remaining >= 2 /\ m.total_data \in Nat
      /\ m.read_remaining <= m.total_data /\ Moved(m) = m.total_data - m.read_remaining
      /\ m.current_location = HeadExtent(m).loc + Moved(m) /\ HeadExtent(m).loc \in Nat
  BY NextPlace DEF MoreToCome, Counted, Moved, MachineType
<1>8. Moved(n) = Moved(m) + 1
  BY <1>2, <1>7 DEF Moved
<1>9. Counted(n)
  <2>1. n.read_remaining \in 1..n.total_data
    BY <1>2, <1>7
  <2>2. n.current_location = HeadExtent(n).loc + Moved(n)
    BY <1>2, <1>6, <1>7, <1>8
  <2> QED BY <1>2, <1>6, <2>1, <2>2 DEF Counted
<1>10. Filled(n)
  <2>1. Moved(n) - 1 = Moved(m)
    BY <1>7, <1>8
  <2> QED BY <1>2, <1>6, <2>1 DEF Filled
<1>11. n.transfer_callback = NULL =>
         n.write_ptr = [buffer |-> HeadItem(n).dst, offset |-> Moved(n)]
  BY <1>2, <1>3, <1>6, <1>8
<1>12. Readable(n)
  BY <1>5, ReadableSame DEF SameQueue
<1>13. Transfers(n)
  BY <1>2, <1>9, <1>10, <1>11, <1>12 DEF Transfers, Streaming, Listening, Resumed, Seeking
<1> QED BY <1>2, <1>4, <1>5, <1>13

(* The last sector of its request. *)
LEMMA RetireReadAdvances ==
    ASSUME NEW m \in MachineType, DataQueued(m), Readable(m), m.trap = {}, Counted(m),
           NEW stored \in MachineType, SameQueue(m, stored), stored = [m EXCEPT !.memory = stored.memory],
           PutsOne(m, stored), AllPut(m, stored)
    PROVE  Advances(m, RetireRead(stored, FALSE))
<1> DEFINE retired == Retire(stored)
           paused == PauseDrive(retired, PAUSE)
           run == RunCommand(retired, HeadItem(retired).command, "COMMAND_THEN_READ")
<1>1. RetireRead(stored, FALSE) = IF IsEmpty(retired) THEN paused ELSE run
  BY DEF RetireRead
<1>2. /\ stored.audio_enabled = m.audio_enabled /\ stored.trap = m.trap
      /\ stored.data_ready_pending = m.data_ready_pending
  BY DEF MachineType
<1>3. DataQueued(stored)
  <2>1. stored.audio_enabled = FALSE /\ stored.data_ready_pending = FALSE
    BY <1>2 DEF DataQueued
  <2> QED BY <2>1, DataQueuedSame
<1>4. ~IsEmpty(stored) /\ Readable(stored) /\ stored.trap = {}
  BY <1>2, QueueLeft, ReadableSame DEF Counted, SameQueue
<1>5. /\ retired \in MachineType /\ Passes(stored, retired, 1) /\ retired.memory = stored.memory
      /\ Ready(retired) /\ retired.transfer_callback = NULL /\ retired.playback_state = FALSE
  BY <1>4, RetirePasses
<1>6. DataQueued(retired)
  BY <1>3, <1>4, RetireFields
<1> HIDE DEF retired
<1>7. Passes(m, retired, 1)
  BY <1>5, QueueLeft DEF Passes, SameQueue
<1>8. ~IsEmpty(m)
  BY DEF Counted
<1>9. ASSUME NEW n, n.memory = stored.memory
      PROVE  PutsOne(m, n) /\ AllPut(m, n)
  BY <1>9 DEF PutsOne, AllPut
<1>10. CASE IsEmpty(retired)
  <2>1. Leaves(retired, paused) /\ paused.ready_callback # "handle_ready_intr"
        /\ paused.current_command # "SeekL"
    BY <1>5, StepValues, PauseDriveLeaves
  <2> HIDE DEF paused
  <2>2. /\ SameQueue(retired, paused) /\ paused.memory = stored.memory /\ paused.trap = {}
        /\ paused.transfer_callback = NULL /\ Resumed(paused)
    BY <1>5, <2>1 DEF Leaves, SameTransfer, Ready
  <2>3. Readable(paused)
    BY <1>5, <2>2, ReadableSame DEF Ready, SameQueue
  <2>4. Transfers(paused)
    BY <2>1, <2>2, <2>3 DEF Transfers, Streaming, Listening, Resumed, Seeking
  <2>5. Serves(m, paused)
    BY <1>5, <1>7, <1>8, <1>9, <2>2, RetiredServes
  <2> QED BY <1>1, <1>10, <2>4, <2>5 DEF Advances
<1>11. CASE ~IsEmpty(retired)
  <2>1. Transfers(run) /\ \E k \in 0..PendingCount(retired) - 1 : Skips(retired, run, k)
    BY <1>5, <1>6, <1>11, RunCommandTransfers
  <2> HIDE DEF run
  <2>2. run.memory = stored.memory
    BY <1>5, <2>1 DEF Skips
  <2>3. Serves(m, run)
    BY <1>5, <1>7, <1>8, <1>9, <2>1, <2>2, RetiredServes
  <2> QED BY <1>1, <1>11, <2>1, <2>3 DEF Advances
<1> QED BY <1>10, <1>11

LEMMA ProcessDataSectorAdvances ==
    ASSUME NEW m \in MachineType, DataQueued(m), Transfers(m), m.current_command # "SeekL",
           m.ready_callback = "handle_ready_intr", m.sector = m.current_location,
           NEW accept \in BOOLEAN
    PROVE  Advances(m, ProcessDataSector(m, FALSE, accept))
<1> DEFINE direct == m.transfer_callback = NULL
           stored == Stored(m)
           again == CdControlF(m, m.current_command, m.current_location)
           offset == IF direct THEN stored.write_ptr.offset + 1 ELSE stored.write_ptr.offset
           more == OneFurther(stored, offset)
           n == ProcessDataSector(m, FALSE, accept)
<1>1. n = IF ~direct /\ ~accept THEN again
          ELSE IF MoreToCome(m) THEN more ELSE RetireRead(stored, FALSE)
  BY DEF ProcessDataSector, Stored, OneFurther
<1>2. /\ Counted(m) /\ Filled(m) /\ Readable(m) /\ m.trap = {} /\ Resumed(m)
      /\ m.transfer_callback = NULL =>
           m.write_ptr = [buffer |-> HeadItem(m).dst, offset |-> Moved(m)]
  BY DEF Transfers, Listening
<1>3. /\ stored \in MachineType /\ SameQueue(m, stored)
      /\ stored = [m EXCEPT !.memory = stored.memory]
      /\ stored.memory = [m.memory EXCEPT ![SinkOf(HeadItem(m))][Moved(m)] = HeadExtent(m).loc + Moved(m)]
      /\ \A o \in 0..Moved(m) : stored.memory[SinkOf(HeadItem(m))][o] = HeadExtent(m).loc + o
  BY <1>2, StoredInTurn
<1>4. stored.write_ptr = m.write_ptr
  BY <1>3 DEF MachineType
<1>5. /\ Moved(m) \in 0..HeadExtent(m).size - 1 /\ HeadExtent(m).size \in Nat
      /\ m.read_remaining \in Nat
  BY <1>2, NextPlace
<1> HIDE DEF n, stored, again
<1>6. PutsOne(m, stored)
  BY <1>2, <1>3, <1>5 DEF PutsOne, Counted
<1>7. Advances(m, again)
  BY CdControlFLeaves, LeavesAdvances DEF again
<1>8. CASE MoreToCome(m)
  <2>1. m.transfer_callback = NULL => offset = Moved(m) + 1
    BY <1>2, <1>4
  <2>2. m.playback_state = FALSE \/ m.transfer_callback # NULL
    BY <1>2 DEF Resumed, MachineType
  <2> HIDE DEF offset
  <2>3. Transfers(more) /\ SameQueue(m, more) /\ more.memory = stored.memory
    <3>1. m.transfer_callback = NULL =>
            m.write_ptr = [buffer |-> HeadItem(m).dst, offset |-> Moved(m)]
            /\ offset = Moved(m) + 1
      BY <1>2, <2>1
    <3>2. /\ stored \in MachineType /\ SameQueue(m, stored)
          /\ stored = [m EXCEPT !.memory = stored.memory]
          /\ \A o \in 0..Moved(m) :
               stored.memory[SinkOf(HeadItem(m))][o] = HeadExtent(m).loc + o
      BY <1>3
    <3>3. Readable(m) /\ Counted(m) /\ m.trap = {}
      BY <1>2
    <3> HIDE DEF direct
    <3> QED BY <1>8, <2>2, <3>1, <3>2, <3>3, FurtherSector
  <2> HIDE DEF more
  <2>4. PutsOne(m, more)
    BY <1>6, <2>3 DEF PutsOne
  <2>5. Passes(m, more, 0)
    BY <2>3, QueueLeft, AheadNone, CountType DEF Passes, SameQueue
  <2>6. OnlySeeks(m, 0) /\ 0 \in 0..PendingCount(m)
    BY CountType DEF OnlySeeks
  <2>7. Advances(m, more)
    BY <2>3, <2>4, <2>5, <2>6 DEF Advances, Serves
  <2> QED BY <1>1, <1>7, <1>8, <2>7 DEF n
<1>9. CASE ~MoreToCome(m)
  <2>1. Moved(m) = HeadExtent(m).size - 1
    BY <1>2, <1>5, <1>9 DEF MoreToCome, Counted, Moved
  <2>2. AllPut(m, stored)
    BY <1>3, <2>1 DEF AllPut
  <2>3. Advances(m, RetireRead(stored, FALSE))
    BY <1>2, <1>3, <1>6, <2>2, RetireReadAdvances
  <2> QED BY <1>1, <1>7, <1>9, <2>3 DEF n
<1> QED BY <1>8, <1>9

LEMMA ProcessSectorAdvances ==
    ASSUME NEW m \in MachineType, DataQueued(m), Transfers(m), m.current_command # "SeekL",
           m.ready_callback = "handle_ready_intr", m.sector = m.current_location,
           NEW accept \in BOOLEAN
    PROVE  Advances(m, ProcessSector(m, FALSE, accept))
<1> DEFINE fresh == [m EXCEPT !.retry_count = 0,
                              !.retry_exhausted = FALSE,
                              !.data_ready_pending = FALSE]
<1>1. m.audio_enabled = FALSE /\ m.data_ready_pending = FALSE
  BY DEF DataQueued
<1>2. ProcessSector(m, FALSE, accept) = ProcessDataSector(fresh, FALSE, accept)
  BY <1>1 DEF ProcessSector
<1>3. fresh \in MachineType
  BY NumberValues, ZenonT(30) DEF MachineType
<1>4. Leaves(m, fresh)
  BY DEF Leaves, SameQueue, SameTransfer, Resumed, MachineType
<1>5. /\ fresh.current_command = m.current_command /\ fresh.ready_callback = m.ready_callback
      /\ fresh.sector = m.sector /\ fresh.current_location = m.current_location
      /\ fresh.audio_enabled = FALSE /\ fresh.data_ready_pending = FALSE
  BY <1>1 DEF MachineType
<1> HIDE DEF fresh
<1>6. DataQueued(fresh)
  BY <1>4, <1>5, DataQueuedSame DEF Leaves
<1>7. Transfers(fresh)
  BY <1>4, LeavesTransfers
<1>8. Advances(fresh, ProcessDataSector(fresh, FALSE, accept))
  BY <1>3, <1>5, <1>6, <1>7, ProcessDataSectorAdvances
<1> QED BY <1>2, <1>4, <1>8, AdvancesAfter

LEMMA HandleReadyIntrAdvances ==
    ASSUME NEW m \in MachineType, Roles(m), Transfers(m), m.ready_callback = "handle_ready_intr",
           NEW dataReady \in BOOLEAN, NEW accept \in BOOLEAN, NEW decoding
    PROVE  Advances(m, HandleReadyIntr(m, dataReady, accept, decoding))
<1> DEFINE seen == [m EXCEPT !.sync_complete = TRUE]
           retried == RetrySector(seen)
           usable == dataReady /\ ~seen.data_ready_pending /\ seen.sector = seen.current_location
           n == HandleReadyIntr(m, dataReady, accept, decoding)
<1>1. m.audio_enabled = FALSE
  BY DEF Roles, DataQueued
<1>2. n = IF usable THEN ProcessSector(seen, FALSE, accept)
          ELSE IF GivesUp(seen) THEN [retried EXCEPT !.ready_callback = "none"] ELSE retried
  BY <1>1 DEF HandleReadyIntr, HandleReadyData
<1>3. seen \in MachineType /\ SameView(m, seen) /\ Leaves(m, seen)
  BY FieldUpdates, OtherFields, FieldsLeft
<1> HIDE DEF seen, n
<1>4. Roles(seen) /\ Transfers(seen)
  BY <1>3, ViewRoles, LeavesTransfers
<1>5. seen.ready_callback = "handle_ready_intr"
  BY <1>3 DEF SameView, SameSlots
<1>6. DataQueued(seen) /\ seen.current_command # "SeekL"
  BY <1>4, <1>5 DEF Roles, Receiving
<1>7. retried \in MachineType /\ Leaves(seen, retried)
  BY <1>3, RetrySectorType, RetrySectorLeaves
<1> HIDE DEF retried
<1>8. Leaves(seen, [retried EXCEPT !.ready_callback = "none"])
  BY <1>7, FieldsLeft, LeavesTransitive
<1>9. usable => Advances(seen, ProcessSector(seen, FALSE, accept))
  BY <1>3, <1>4, <1>5, <1>6, ProcessSectorAdvances
<1>10. Advances(seen, n)
  BY <1>2, <1>3, <1>4, <1>7, <1>8, <1>9, LeavesAdvances
<1> QED BY <1>3, <1>10, AdvancesAfter DEF n

LEMMA ReadyCallbackAdvances ==
    ASSUME NEW m \in MachineType, Roles(m), Transfers(m),
           NEW dataReady \in BOOLEAN, NEW accept \in BOOLEAN, NEW decoding
    PROVE  Advances(m, ReadyCallback(m, dataReady, accept, decoding))
<1>1. CASE m.ready_callback = "handle_ready_intr"
  BY <1>1, HandleReadyIntrAdvances DEF ReadyCallback
<1>2. CASE m.ready_callback = "verify_disc"
  BY <1>2, VerifyDiscLeaves, LeavesAdvances DEF ReadyCallback
<1>3. CASE m.ready_callback \notin {"handle_ready_intr", "verify_disc"}
  BY <1>3, LeavesItself, LeavesAdvances DEF ReadyCallback
<1> QED BY <1>1, <1>2, <1>3

-----------------------------------------------------------------------------
(* The game. *)

(* A request is queued behind the others. *)
Accepts(m, n) ==
    /\ ~IsFull(m)
    /\ n.queue_read_index = m.queue_read_index
    /\ n.queue_write_index = Next1(m.queue_write_index)
    /\ \E req \in Request : n.items = [m.items EXCEPT ![m.queue_write_index] = req]
    /\ n.memory = m.memory

(* Every request is forgotten. *)
Clears(m, n) == IsEmpty(n) /\ n.memory = m.memory

(* What a step makes of the pending requests and of the sinks. *)
Progress(m, n) == Serves(m, n) \/ Accepts(m, n) \/ Clears(m, n)

LEMMA EnqueueTransfers ==
    ASSUME ReadsInTurn, NEW m \in MachineType, Roles(m), Transfers(m), ~IsFull(m),
           NEW req \in Offered, IsResource(req.resource)
    PROVE  Transfers(Enqueue(m, req)) /\ Accepts(m, Enqueue(m, req))
<1> DEFINE w == m.queue_write_index
           items == [m.items EXCEPT ![w] = req]
           n == Enqueue(m, req)
<1>1. req \in Request /\ w \in Slots
  BY OfferedAssumption, IndexType
<1>2. n = [m EXCEPT !.items = items, !.last_request = req, !.queue_write_index = Next1(w)]
  BY DEF Enqueue, MachineType
<1>3. /\ items[w] = req /\ \A i \in Slots : i # w => items[i] = m.items[i]
  BY <1>1 DEF MachineType
<1> HIDE DEF n, items
<1>4. /\ n.items = items /\ n.queue_read_index = m.queue_read_index
      /\ n.queue_write_index = Next1(w) /\ SameTransfer(m, n)
      /\ n.transfer_callback = m.transfer_callback /\ n.playback_state = m.playback_state
      /\ n.ready_callback = m.ready_callback /\ n.current_command = m.current_command
  BY <1>2 DEF SameTransfer, MachineType
<1>5. Accepts(m, n)
  BY <1>1, <1>4 DEF Accepts, SameTransfer, items
<1>6. Readable(n)
  <2>1. req.command = "ReadN" =>
          /\ Extent[req.resource].size # 0
          /\ SinkOf(req) # NULL
          /\ "checking" \in Windows => req.callback = NULL
    BY DEF ReadsInTurn, IsResource
  <2>2. ASSUME NEW i \in Slots, n.items[i].command = "ReadN"
        PROVE  /\ Extent[n.items[i].resource].size # 0
               /\ SinkOf(n.items[i]) # NULL
               /\ "checking" \in Windows => n.items[i].callback = NULL
    <3>1. CASE i = w
      BY <1>3, <1>4, <2>1, <2>2, <3>1
    <3>2. CASE i # w
      <4>1. n.items[i] = m.items[i]
        BY <1>3, <1>4, <3>2
      <4> QED BY <2>2, <4>1 DEF Transfers, Readable
    <3> QED BY <3>1, <3>2
  <2> QED BY <2>2 DEF Readable
<1>7. ~IsEmpty(m) => ~IsEmpty(n) /\ HeadItem(n) = HeadItem(m) /\ HeadExtent(n) = HeadExtent(m)
  <2>1. ASSUME ~IsEmpty(m)
        PROVE  ~IsEmpty(n) /\ HeadItem(n) = HeadItem(m)
    <3>1. m.queue_read_index \in Slots /\ m.queue_read_index # w
      BY <2>1, IndexType DEF IsEmpty
    <3>2. ~IsEmpty(n)
      BY <1>4 DEF IsEmpty, IsFull
    <3> QED BY <1>3, <1>4, <3>1, <3>2 DEF HeadItem
  <2> QED BY <2>1 DEF HeadExtent
<1>8. Moved(n) = Moved(m)
  BY <1>4 DEF Moved, SameTransfer
<1>9. Counted(m) => Counted(n)
  BY <1>4, <1>7, <1>8 DEF Counted, SameTransfer
<1>10. Counted(m) /\ Filled(m) => Filled(n)
  BY <1>4, <1>7, <1>8 DEF Counted, Filled, SameTransfer
<1>11. Streaming(n) /\ Resumed(n) /\ n.trap = {}
  BY <1>4, <1>9, <1>10 DEF Transfers, Streaming, Resumed, SameTransfer
<1>12. Listening(n)
  <2>1. ASSUME n.ready_callback = "handle_ready_intr"
        PROVE  /\ Counted(n) /\ Filled(n)
               /\ n.transfer_callback = NULL =>
                    n.write_ptr = [buffer |-> HeadItem(n).dst, offset |-> Moved(n)]
    <3>1. /\ Counted(m) /\ Filled(m)
          /\ m.transfer_callback = NULL =>
               m.write_ptr = [buffer |-> HeadItem(m).dst, offset |-> Moved(m)]
      BY <1>4, <2>1 DEF Transfers, Listening
    <3>2. HeadItem(n) = HeadItem(m)
      BY <1>7, <3>1 DEF Counted
    <3> QED BY <1>4, <1>8, <1>9, <1>10, <3>1, <3>2 DEF SameTransfer
  <2> QED BY <2>1 DEF Listening
<1>13. Seeking(n)
  BY <1>4, <1>7 DEF Transfers, Seeking, Roles, Commanding
<1>14. Transfers(n)
  BY <1>6, <1>11, <1>12, <1>13 DEF Transfers
<1> QED BY <1>5, <1>14 DEF n

LEMMA DropQueueTransfers ==
    ASSUME NEW m \in MachineType, Transfers(m)
    PROVE  LET n == DropQueue(m)
           IN /\ n \in MachineType /\ Transfers(n) /\ Clears(m, n)
              /\ n.ready_callback = "none" /\ n.current_command = "None"
<1> DEFINE paused == BlockingPause(m)
           off == Disarm(paused)
           n == DropQueue(m)
<1>1. paused \in MachineType /\ off \in MachineType
  BY BlockingPauseType, DisarmType
<1>2. Leaves(m, paused)
  BY BlockingPauseLeaves
<1> HIDE DEF paused
<1>3. Leaves(m, off) /\ off.ready_callback = "none"
  BY <1>1, <1>2, DisarmLeaves, LeavesTransitive
<1>4. n = [off EXCEPT !.current_command = "None",
                      !.init_command = 0,
                      !.init_retry = FALSE,
                      !.playback_state = FALSE,
                      !.transfer_callback = NULL,
                      !.retry_counter = 0,
                      !.queue_read_index = 0,
                      !.queue_write_index = 0]
  BY DEF DropQueue, paused
<1>5. n \in MachineType
  BY DropQueueType
<1> HIDE DEF off, n
<1>6. /\ n.items = off.items /\ n.memory = off.memory /\ n.trap = off.trap
      /\ n.transfer_callback = NULL /\ n.playback_state = FALSE
      /\ n.ready_callback = "none" /\ n.current_command = "None"
      /\ n.queue_read_index = n.queue_write_index
  BY <1>1, <1>3, <1>4 DEF MachineType
<1>7. n.items = m.items /\ n.memory = m.memory /\ n.trap = m.trap
  BY <1>3, <1>6 DEF Leaves, SameQueue, SameTransfer
<1>8. Readable(n) /\ n.trap = {}
  BY <1>7, ReadableSame DEF Transfers
<1>9. Transfers(n)
  BY <1>6, <1>8, NothingUnderWay
<1>10. Clears(m, n)
  BY <1>6, <1>7 DEF Clears, IsEmpty
<1> QED BY <1>5, <1>6, <1>9, <1>10 DEF n

(* Clearing and leaving is clearing. *)
LEMMA ClearsBefore ==
    ASSUME NEW m, NEW p, NEW n, Clears(m, p), Leaves(p, n)
    PROVE  Clears(m, n)
BY QueueLeft DEF Clears, Leaves, SameTransfer

LEMMA LeavesProgress ==
    ASSUME NEW m \in MachineType, NEW n, Transfers(m), Leaves(m, n)
    PROVE  Transfers(n) /\ Progress(m, n)
BY LeavesAdvances DEF Advances, Progress

LEMMA GameProgress ==
    ASSUME ReadsInTurn, RolesInv, TransferInv, Game
    PROVE  Transfers(cd') /\ Progress(cd, cd')
<1>1. cd \in MachineType /\ Roles(cd) /\ Transfers(cd)
  BY DEF RolesInv, TypeOK, Agreed, TransferInv
<1>2. CASE \E req \in Offered : QueueCommand(req)
  <2>1. PICK req \in Offered : QueueCommand(req)
    BY <1>2
  <2>2. CASE cd' = cd
    BY <1>1, <2>2, LeavesItself, LeavesProgress
  <2>3. CASE ~IsFull(cd) /\ IsResource(req.resource) /\ cd' = Enqueue(cd, req)
    BY <1>1, <2>3, EnqueueTransfers DEF Progress
  <2> QED BY <2>1, <2>2, <2>3 DEF QueueCommand
<1>3. CASE Reset \/ Stop
  <2> DEFINE dropped == DropQueue(cd)
             reset == [dropped EXCEPT !.audio_enabled = FALSE]
             stop == [dropped EXCEPT !.audio_enabled = FALSE,
                                     !.status_flags = @ \ {"QUEUE_LOCK"},
                                     !.last_request = NULL,
                                     !.retry_count = 0,
                                     !.data_ready_pending = FALSE]
  <2>1. cd' \in {reset, stop}
    BY <1>3 DEF Reset, Stop
  <2>2. dropped \in MachineType /\ Transfers(dropped) /\ Clears(cd, dropped)
    BY <1>1, DropQueueTransfers
  <2> HIDE DEF dropped
  <2>3. Leaves(dropped, reset) /\ Leaves(dropped, stop)
    BY <2>2 DEF Leaves, SameQueue, SameTransfer, Resumed, MachineType
  <2> HIDE DEF reset, stop
  <2> QED BY <2>1, <2>2, <2>3, LeavesTransfers, ClearsBefore DEF Progress
<1>4. CASE LockQueue \/ UnlockQueue
  <2>1. \E flags : cd' = [cd EXCEPT !.status_flags = flags]
    BY <1>4 DEF LockQueue, UnlockQueue
  <2>2. Leaves(cd, cd')
    BY <1>1, <2>1, FieldsLeft
  <2> QED BY <1>1, <2>2, LeavesProgress
<1>5. CASE EnterRecoveryMode
  <2>1. Leaves(cd, cd')
    BY <1>1, <1>5 DEF EnterRecoveryMode, Leaves, SameQueue, SameTransfer, Resumed, MachineType
  <2> QED BY <1>1, <2>1, LeavesProgress
<1> QED BY <1>2, <1>3, <1>4, <1>5 DEF Game

LEMMA QueueingProgress ==
    ASSUME RolesInv, TransferInv, Queueing
    PROVE  Transfers(cd') /\ Progress(cd, cd')
<1>1. cd \in MachineType /\ Roles(cd) /\ Transfers(cd)
  BY DEF RolesInv, TypeOK, Agreed, TransferInv
<1>2. CASE QueueCheckCommand
  BY <1>1, <1>2, LeavesItself, LeavesProgress DEF QueueCheckCommand
<1>3. CASE QueueCheckStep
  <2> DEFINE n == [cd EXCEPT !.current_command = "Nop",
                             !.playback_state = FALSE,
                             !.transfer_callback = NULL,
                             !.sync_callback = "complete_command"]
  <2>1. cd' \in {cd, n} /\ fg.at = "checking"
    BY <1>3 DEF QueueCheckStep, Running
  <2>2. cd.ready_callback = "handle_ready_intr" => cd.transfer_callback = NULL
    <3>1. CASE "checking" \in Windows
      <4>1. ASSUME cd.ready_callback = "handle_ready_intr"
            PROVE  cd.transfer_callback = NULL
        <5>1. Counted(cd) /\ Readable(cd)
          BY <1>1, <4>1 DEF Transfers, Listening
        <5>2. HeadItem(cd).callback = NULL
          BY <1>1, <3>1, <5>1, CountType DEF Counted, Readable, HeadItem
        <5> QED BY <5>1, <5>2 DEF Counted
      <4> QED BY <4>1
    <3>2. CASE "checking" \notin Windows
      <4>1. cd.current_command = "None"
        BY <2>1, <3>2 DEF TransferInv, Unhurried
      <4> QED BY <1>1, <4>1 DEF Roles, Receiving
    <3> QED BY <3>1, <3>2
  <2>3. Leaves(cd, n)
    BY <1>1, <2>2 DEF Leaves, SameQueue, SameTransfer, Resumed, MachineType
  <2> HIDE DEF n
  <2> QED BY <1>1, <2>1, <2>3, LeavesItself, LeavesProgress
<1>4. CASE StartNop
  BY <1>1, <1>4, CdControlFLeaves, LeavesProgress DEF StartNop
<1> QED BY <1>2, <1>3, <1>4 DEF Queueing

-----------------------------------------------------------------------------
(* The service. *)

(* The status is asked for; the drive works for the entry at the read index. *)
LEMMA WatchedLeaves ==
    ASSUME NEW m \in MachineType
    PROVE  Leaves(m, [m EXCEPT !.current_command = "Nop",
                               !.playback_state = Resumable(m),
                               !.sync_callback = "complete_command",
                               !.ready_callback = "none"])
<1> DEFINE resume == Resumable(m)
<1>1. resume => m.transfer_callback # NULL
  BY DEF Resumable
<1> HIDE DEF resume
<1>2. Leaves(m, [m EXCEPT !.current_command = "Nop",
                          !.playback_state = resume,
                          !.sync_callback = "complete_command",
                          !.ready_callback = "none"])
  BY <1>1 DEF Leaves, SameQueue, SameTransfer, Resumed, MachineType
<1> QED BY <1>2 DEF resume

(* With nothing queued no sector is waited for. *)
LEMMA RestLeaves ==
    ASSUME NEW m \in MachineType, Transfers(m), IsEmpty(m)
    PROVE  Leaves(m, Rest(m))
<1>1. m.ready_callback # "handle_ready_intr"
  BY DEF Transfers, Listening, Counted
<1> QED BY <1>1 DEF Rest, Leaves, SameQueue, SameTransfer, Resumed, MachineType

LEMMA CountersLeaves ==
    ASSUME NEW m \in MachineType, NEW v
    PROVE  Leaves(m, [m EXCEPT !.sync_complete = FALSE, !.retry_counter = v])
BY DEF Leaves, SameQueue, SameTransfer, Resumed, MachineType

LEMMA ServiceProgress ==
    ASSUME RolesInv, TransferInv,
           \/ ServiceCheckCommand \/ Supervise \/ WatchdogDue
           \/ WatchdogCommand \/ WatchdogStep \/ WatchdogNop
           \/ Restart \/ IdleQuiet \/ IdlePoll \/ IdlePollFails
    PROVE  Transfers(cd') /\ Progress(cd, cd')
<1> DEFINE rested == Rest(cd)
<1>1. cd \in MachineType /\ Roles(cd) /\ Transfers(cd)
  BY DEF RolesInv, TypeOK, Agreed, TransferInv
<1>2. rested \in MachineType /\ Roles(rested)
  BY <1>1, RestType, RestView, ViewRoles
<1>3. IsEmpty(cd) => Leaves(cd, rested)
  BY <1>1, RestLeaves
<1> HIDE DEF rested
<1>4. CASE ServiceCheckCommand \/ WatchdogDue
  BY <1>1, <1>4, LeavesItself, LeavesProgress DEF ServiceCheckCommand, WatchdogDue
<1>5. CASE Supervise
  BY <1>1, <1>5, FieldsLeft, LeavesProgress DEF Supervise, Collect
<1>6. CASE WatchdogCommand \/ Restart
  BY <1>1, <1>6, WatchedLeaves, LeavesProgress DEF WatchdogCommand, Restart
<1>7. CASE WatchdogStep
  <2>1. Leaves(cd, cd')
    BY <1>1, <1>7 DEF WatchdogStep, Leaves, SameQueue, SameTransfer, Resumed, MachineType
  <2> QED BY <1>1, <2>1, LeavesProgress
<1>8. CASE WatchdogNop
  BY <1>1, <1>8, SyncCallbackAdvances DEF WatchdogNop, BlockingNop, Advances, Progress
<1>9. CASE IdleQuiet
  BY <1>1, <1>3, <1>9, LeavesProgress DEF IdleQuiet, rested
<1>10. CASE IdlePoll
  <2> DEFINE polled == BlockingNop(rested)
             answered == IF ShellOpen THEN HandleSyncError(polled) ELSE polled
  <2>1. cd' = [answered EXCEPT !.sync_complete = FALSE, !.retry_counter = 0] /\ IsEmpty(cd)
    BY <1>10 DEF IdlePoll, rested
  <2>2. Transfers(rested)
    BY <1>1, <1>3, <2>1, LeavesTransfers
  <2>3. polled \in MachineType /\ Advances(rested, polled)
    BY <1>2, <2>2, BlockingNopType, SyncCallbackAdvances DEF BlockingNop
  <2> HIDE DEF polled
  <2>4. Leaves(polled, answered) /\ answered \in MachineType
    BY <2>3, LeavesItself, HandleSyncErrorLeaves, HandleSyncErrorType
  <2> HIDE DEF answered
  <2>5. Leaves(answered, cd')
    BY <2>1, <2>4, CountersLeaves
  <2>6. Advances(cd, cd')
    BY <1>3, <2>1, <2>3, <2>4, <2>5, AdvancesAfter, AdvancesBefore
  <2> QED BY <2>6 DEF Advances, Progress
<1>11. CASE IdlePollFails
  <2> DEFINE count == rested.retry_counter + 1
             counted == [rested EXCEPT !.retry_counter = count]
  <2>1. (cd' = HandleSyncError(rested) \/ cd' = counted) /\ IsEmpty(cd)
    BY <1>11 DEF IdlePollFails, rested
  <2> HIDE DEF count
  <2>2. Leaves(rested, HandleSyncError(rested)) /\ Leaves(rested, counted)
    BY <1>2, HandleSyncErrorLeaves, FieldsLeft
  <2> HIDE DEF counted
  <2>3. Leaves(cd, cd')
    BY <1>3, <2>1, <2>2, LeavesTransitive
  <2> QED BY <1>1, <2>3, LeavesProgress
<1> QED BY <1>4, <1>5, <1>6, <1>7, <1>8, <1>9, <1>10, <1>11

-----------------------------------------------------------------------------
(* Recovery and reconfiguration. *)

LEMMA EnterRecoveryLeaves ==
    ASSUME NEW m \in MachineType
    PROVE  Leaves(m, EnterRecovery(m))
<1>1. CASE m.init_state # IDLE
  BY <1>1, LeavesItself DEF EnterRecovery
<1>2. CASE m.init_state = IDLE
  <2> DEFINE resume == Resumable(m)
  <2>1. EnterRecovery(m) = [m EXCEPT !.init_state = POLL_STATUS,
                                     !.playback_state = resume,
                                     !.data_ready_pending = FALSE]
    BY <1>2 DEF EnterRecovery
  <2>2. resume => m.transfer_callback # NULL
    BY DEF Resumable
  <2> HIDE DEF resume
  <2> QED BY <2>1, <2>2 DEF Leaves, SameQueue, SameTransfer, Resumed, MachineType
<1> QED BY <1>1, <1>2

LEMMA AbandonLeaves ==
    ASSUME NEW m \in MachineType
    PROVE  Leaves(m, Abandon(m))
<1> DEFINE paused == BlockingPause(m)
           off == Disarm(paused)
           stopped == [off EXCEPT !.init_command = 0, !.init_retry = FALSE]
           quiet == IF m.init_state < SET_MODE THEN m ELSE stopped
<1>1. paused \in MachineType /\ off \in MachineType
  BY BlockingPauseType, DisarmType
<1>2. Leaves(m, paused)
  BY BlockingPauseLeaves
<1>3. Leaves(paused, off)
  BY <1>1, DisarmLeaves
<1>4. Abandon(m) = [quiet EXCEPT !.init_state = POLL_STATUS,
                      !.status_flags = (@ \cup {"SYNC_ERROR"}) \ {"INVALID_DISC", "NO_DISC"}]
  BY DEF Abandon
<1> HIDE DEF paused, off
<1>5. stopped \in MachineType /\ Leaves(off, stopped)
  <2>1. stopped \in MachineType
    BY <1>1, StepValues, ZenonT(30) DEF MachineType
  <2>2. Leaves(off, stopped)
    BY <1>1 DEF Leaves, SameQueue, SameTransfer, Resumed, MachineType
  <2> QED BY <2>1, <2>2
<1> HIDE DEF stopped
<1>6. quiet \in MachineType /\ Leaves(m, quiet)
  BY <1>2, <1>3, <1>5, LeavesItself, LeavesTransitive
<1> HIDE DEF quiet
<1>7. Leaves(quiet, Abandon(m))
  BY <1>4, <1>6 DEF Leaves, SameQueue, SameTransfer, Resumed, MachineType
<1> QED BY <1>6, <1>7, LeavesTransitive

LEMMA IssueLeaves ==
    ASSUME NEW m \in MachineType, NEW ready \in {"none", "verify_disc"},
           NEW step \in InitCommands, NEW command, NEW location
    PROVE  Leaves(m, Issue(m, ready, step, command, location))
<1> DEFINE p == [m EXCEPT !.sync_callback = "handle_recovery_sync",
                          !.ready_callback = ready,
                          !.init_command = step,
                          !.init_retry = FALSE]
<1>1. p \in MachineType
  BY ZenonT(30) DEF MachineType
<1>2. Leaves(m, p)
  BY DEF Leaves, SameQueue, SameTransfer, Resumed, MachineType
<1>3. Issue(m, ready, step, command, location) = CdControlF(p, command, location)
  BY DEF Issue
<1> HIDE DEF p
<1> QED BY <1>1, <1>2, <1>3, CdControlFLeaves, LeavesTransitive

(* The status request of a poll. *)
LEMMA PolledAdvances ==
    ASSUME RolesInv, TransferInv, Recovering
    PROVE  Polled \in MachineType /\ Roles(Polled) /\ Advances(cd, Polled)
<1> DEFINE m == EnterRecovery(cd)
<1>1. /\ cd \in MachineType /\ Roles(cd) /\ Transfers(cd)
      /\ "RECOVERY_PENDING" \notin cd.status_flags
  BY DEF RolesInv, TypeOK, Agreed, TransferInv, Recovering
<1>2. m \in MachineType /\ Roles(m) /\ Leaves(cd, m)
  BY <1>1, EnterRecoveryType, EnterRecoveryRoles, EnterRecoveryLeaves
<1>3. Polled = SyncCallback(m, TRUE)
  BY DEF Polled, BlockingNop
<1> HIDE DEF m
<1>4. Transfers(m)
  BY <1>1, <1>2, LeavesTransfers
<1>5. Advances(m, Polled)
  BY <1>2, <1>3, <1>4, SyncCallbackAdvances
<1>6. Advances(cd, Polled)
  BY <1>2, <1>5, AdvancesAfter
<1> QED BY <1>6, PolledRoles

LEMMA StateLeaves ==
    ASSUME NEW m \in MachineType, NEW state, NEW v
    PROVE  /\ Leaves(m, [m EXCEPT !.init_state = state, !.retry_counter = v])
           /\ Leaves(m, [m EXCEPT !.retry_counter = v, !.init_state = state])
           /\ Leaves(m, [m EXCEPT !.init_state = state, !.status_flags = v])
<1> USE DEF Leaves, SameQueue, SameTransfer, Resumed
<1>1. Leaves(m, [m EXCEPT !.init_state = state, !.retry_counter = v])
  BY DEF MachineType
<1>2. Leaves(m, [m EXCEPT !.retry_counter = v, !.init_state = state])
  BY DEF MachineType
<1>3. Leaves(m, [m EXCEPT !.init_state = state, !.status_flags = v])
  BY DEF MachineType
<1> QED BY <1>1, <1>2, <1>3

(* The checks of the disc and of the drive do not touch the transfer. *)
LEMMA AskingLeaves ==
    ASSUME RolesInv, Recovering,
           \/ \E spinning \in BOOLEAN : RecoveryCheckDisc(spinning)
           \/ RecoveryWaitForDisc \/ RecoveryWaitForDrive \/ RecoveryDiscType
    PROVE  Leaves(Polled, cd')
<1>1. PICK m : m = Polled
  OBVIOUS
<1>2. m \in MachineType
  BY <1>1, PolledRoles
<1>3. CASE \E spinning \in BOOLEAN : RecoveryCheckDisc(spinning)
  <2> DEFINE found == FoundClosed
  <2>1. \/ cd' = [found EXCEPT !.init_state = WAIT_FOR_DISC, !.retry_counter = 0]
        \/ cd' = [found EXCEPT !.init_state = CHECK_DISC]
    BY <1>3 DEF RecoveryCheckDisc
  <2>2. found \in MachineType
    BY FoundClosedType DEF RolesInv, TypeOK
  <2>3. Leaves(m, found)
    BY <1>1, <1>2, FieldsLeft, LeavesItself DEF FoundClosed
  <2> HIDE DEF found
  <2>4. Leaves(found, cd')
    <3>1. CASE cd' = [found EXCEPT !.init_state = WAIT_FOR_DISC, !.retry_counter = 0]
      BY <2>2, <3>1, StateLeaves
    <3>2. CASE cd' = [found EXCEPT !.init_state = CHECK_DISC]
      BY <2>2, <3>2, FieldsLeft
    <3> QED BY <2>1, <3>1, <3>2
  <2> QED BY <1>1, <2>3, <2>4, LeavesTransitive
<1>4. CASE RecoveryWaitForDisc
  <2> DEFINE count == m.retry_counter + 2
             state == IF m.retry_counter + 1 >= DiscReadyRetryLimit
                      THEN WAIT_FOR_DRIVE ELSE m.init_state
  <2>1. \/ cd' = [m EXCEPT !.init_state = WAIT_FOR_DRIVE]
        \/ cd' = [m EXCEPT !.retry_counter = count, !.init_state = state]
    BY <1>1, <1>4 DEF RecoveryWaitForDisc
  <2> HIDE DEF count, state
  <2>2. CASE cd' = [m EXCEPT !.init_state = WAIT_FOR_DRIVE]
    BY <1>1, <1>2, <2>2, FieldsLeft
  <2>3. CASE cd' = [m EXCEPT !.retry_counter = count, !.init_state = state]
    BY <1>1, <1>2, <2>3, StateLeaves
  <2> QED BY <2>1, <2>2, <2>3
<1>5. CASE RecoveryWaitForDrive
  BY <1>1, <1>2, <1>5, FieldsLeft DEF RecoveryWaitForDrive
<1>6. CASE RecoveryDiscType
  <2> DEFINE flags == m.status_flags \ {"INVALID_DISC"}
  <2>1. \/ cd' = [m EXCEPT !.init_state = ERROR_PAUSE, !.status_flags = flags]
        \/ cd' = [m EXCEPT !.init_state = SET_MODE]
        \/ cd' = m
    BY <1>1, <1>6 DEF RecoveryDiscType
  <2> HIDE DEF flags
  <2>2. CASE cd' = [m EXCEPT !.init_state = ERROR_PAUSE, !.status_flags = flags]
    BY <1>1, <1>2, <2>2, StateLeaves
  <2>3. CASE cd' = [m EXCEPT !.init_state = SET_MODE]
    BY <1>1, <1>2, <2>3, FieldsLeft
  <2>4. CASE cd' = m
    BY <1>1, <2>4, LeavesItself
  <2> QED BY <2>1, <2>2, <2>3, <2>4
<1> QED BY <1>3, <1>4, <1>5, <1>6

(* A poll that has found a state in which recovery has given commands. *)
LEMMA StepsLeaves ==
    ASSUME RolesInv, Recovering,
           \/ RecoverySetMode \/ RecoveryReadDiscId \/ RecoveryWaitForRead \/ RecoveryReadTimeout
           \/ RecoveryStopDrive \/ RecoveryRests
    PROVE  Leaves(Polled, cd')
<1>1. PICK m : m = Polled
  OBVIOUS
<1>2. m \in MachineType
  BY <1>1, PolledRoles
<1>3. {RECOVERY_SET_MODE, RECOVERY_READ_DISC_ID} \subseteq InitCommands /\ WAIT_FOR_READ \in InitStates
  BY StepValues, StateValues
<1>4. CASE RecoverySetMode
  BY <1>1, <1>2, <1>3, <1>4, IssueLeaves DEF RecoverySetMode
<1>5. CASE RecoveryReadDiscId
  <2> DEFINE p == [m EXCEPT !.init_state = WAIT_FOR_READ]
  <2>1. cd' = Issue(p, "verify_disc", RECOVERY_READ_DISC_ID, "ReadN", ValidationLocation)
    BY <1>1, <1>5 DEF RecoveryReadDiscId
  <2>2. p \in MachineType /\ Leaves(m, p)
    BY <1>2, <1>3, FieldUpdates, FieldsLeft
  <2> HIDE DEF p
  <2> QED BY <1>1, <1>3, <2>1, <2>2, IssueLeaves, LeavesTransitive
<1>6. CASE RecoveryWaitForRead
  BY <1>1, <1>2, <1>6, FieldsLeft DEF RecoveryWaitForRead, Collect
<1>7. CASE RecoveryReadTimeout
  <2> DEFINE p == [m EXCEPT !.sync_callback = "handle_recovery_sync"]
  <2>1. \/ cd' = CdControlF(p, "Pause", 0)
        \/ cd' = CdControlF(p, "Setmode", 0)
        \/ cd' = Issue(p, "verify_disc", RECOVERY_READ_DISC_ID, "ReadN", ValidationLocation)
    BY <1>1, <1>7 DEF RecoveryReadTimeout
  <2>2. p \in MachineType /\ Leaves(m, p)
    BY <1>2, FieldUpdates, FieldsLeft
  <2> HIDE DEF p
  <2>3. Leaves(p, cd')
    BY <1>3, <2>1, <2>2, IssueLeaves, CdControlFLeaves
  <2> QED BY <1>1, <2>2, <2>3, LeavesTransitive
<1>8. CASE RecoveryStopDrive
  <2> DEFINE paused == BlockingPause(m)
  <2>1. cd' = [paused EXCEPT !.init_state = RETRY_READ]
    BY <1>1, <1>8 DEF RecoveryStopDrive
  <2>2. paused \in MachineType /\ Leaves(m, paused)
    BY <1>2, BlockingPauseType, BlockingPauseLeaves
  <2> HIDE DEF paused
  <2> QED BY <1>1, <2>1, <2>2, FieldsLeft, LeavesTransitive
<1>9. CASE RecoveryRests
  BY <1>9, LeavesItself DEF RecoveryRests
<1> QED BY <1>4, <1>5, <1>6, <1>7, <1>8, <1>9

LEMMA RecoveryProgress ==
    ASSUME RolesInv, TransferInv, RecoveryWait \/ RecoveryPoll
    PROVE  Transfers(cd') /\ Progress(cd, cd')
<1>1. Recovering
  BY DEF RecoveryWait, RecoveryPoll, RecoveryAbandon, RecoveryCheckDisc, RecoveryWaitForDisc,
     RecoveryWaitForDrive, RecoveryDiscType, RecoverySetMode, RecoveryReadDiscId,
     RecoveryWaitForRead, RecoveryReadTimeout, RecoveryStopDrive, RecoveryRests, PollAt
<1>2. cd \in MachineType /\ Transfers(cd)
  BY DEF RolesInv, TypeOK, TransferInv
<1>3. Polled \in MachineType /\ Advances(cd, Polled)
  BY <1>1, PolledAdvances
<1>4. CASE RecoveryWait
  BY <1>2, <1>4, EnterRecoveryLeaves, LeavesProgress DEF RecoveryWait
<1>5. CASE RecoveryAbandon
  <2>1. cd' = Abandon(Polled) \/ cd' = Abandon(EnterRecovery(cd))
    BY <1>5 DEF RecoveryAbandon, Polled
  <2>2. CASE cd' = Abandon(Polled)
    BY <1>3, <2>2, AbandonLeaves, AdvancesBefore DEF Advances, Progress
  <2>3. CASE cd' = Abandon(EnterRecovery(cd))
    <3>1. EnterRecovery(cd) \in MachineType /\ Leaves(cd, EnterRecovery(cd))
      BY <1>2, EnterRecoveryType, EnterRecoveryLeaves
    <3>2. Leaves(cd, cd')
      BY <2>3, <3>1, AbandonLeaves, LeavesTransitive
    <3> QED BY <1>2, <3>2, LeavesProgress
  <2> QED BY <2>1, <2>2, <2>3
<1>6. CASE \/ \E spinning \in BOOLEAN : RecoveryCheckDisc(spinning)
           \/ RecoveryWaitForDisc \/ RecoveryWaitForDrive \/ RecoveryDiscType
  BY <1>1, <1>3, <1>6, AskingLeaves, AdvancesBefore DEF Advances, Progress
<1>7. CASE \/ RecoverySetMode \/ RecoveryReadDiscId \/ RecoveryWaitForRead \/ RecoveryReadTimeout
           \/ RecoveryStopDrive \/ RecoveryRests
  BY <1>1, <1>3, <1>7, StepsLeaves, AdvancesBefore DEF Advances, Progress
<1> QED BY <1>4, <1>5, <1>6, <1>7 DEF RecoveryPoll

LEMMA ReconfigurationLeaves ==
    ASSUME RolesInv, Recover
    PROVE  Leaves(cd, cd')
<1>1. cd \in MachineType /\ Roles(cd)
  BY DEF RolesInv, TypeOK, Agreed
<1>2. cd.ready_callback = "none"
  <2>1. "RECOVERY_PENDING" \in cd.status_flags
    BY DEF Recover, RecoverFlush, RecoverSetMode, RecoverSetFilter, RecoverActivity,
       RecoverTimeout, Reconfiguring
  <2> QED BY <1>1, <2>1, ReconfiguringKnows
<1>3. {STEP_SET_FILTER, STEP_DEMUTE} \subseteq InitCommands /\ RECONF_WAIT \in InitStates
  BY StepValues, StateValues
<1>4. CASE RecoverFlush
  BY <1>1, <1>4 DEF RecoverFlush, Leaves, SameQueue, SameTransfer, Resumed, MachineType
<1>5. CASE RecoverSetMode
  BY <1>1, <1>3, <1>5, IssueLeaves DEF RecoverSetMode
<1>6. CASE RecoverSetFilter
  <2> DEFINE p == [cd EXCEPT !.init_state = RECONF_WAIT]
  <2>1. cd' = Issue(p, "none", STEP_DEMUTE, "Setfilter", 0)
    BY <1>2, <1>6 DEF RecoverSetFilter
  <2>2. p \in MachineType /\ Leaves(cd, p)
    BY <1>1, <1>3, FieldUpdates, FieldsLeft
  <2> HIDE DEF p
  <2> QED BY <1>3, <2>1, <2>2, IssueLeaves, LeavesTransitive
<1>7. CASE RecoverActivity
  BY <1>1, <1>7, FieldsLeft DEF RecoverActivity, Collect
<1>8. CASE RecoverTimeout
  <2> DEFINE p == [cd EXCEPT !.sync_callback = "handle_recovery_sync"]
  <2>1. p.ready_callback = "none"
    BY <1>1, <1>2 DEF MachineType
  <2>2. \/ cd' = CdControlF(p, "Demute", 0)
        \/ cd' = CdControlF(p, "Pause", 0)
        \/ cd' = Issue(p, "none", STEP_SET_FILTER, "Setfilter", 0)
    BY <1>8, <2>1 DEF RecoverTimeout
  <2>3. p \in MachineType /\ Leaves(cd, p)
    BY <1>1, FieldUpdates, FieldsLeft
  <2> HIDE DEF p
  <2>4. Leaves(p, cd')
    BY <1>3, <2>2, <2>3, IssueLeaves, CdControlFLeaves
  <2> QED BY <2>3, <2>4, LeavesTransitive
<1> QED BY <1>4, <1>5, <1>6, <1>7, <1>8 DEF Recover

-----------------------------------------------------------------------------
(* The drive. *)

LEMMA NextSectorLeaves ==
    ASSUME cd \in MachineType
    PROVE  Leaves(cd, NextSector)
BY DEF NextSector, Leaves, SameQueue, SameTransfer, Resumed, MachineType

LEMMA DriveProgress ==
    ASSUME RolesInv, TransferInv, Drive
    PROVE  Transfers(cd') /\ Progress(cd, cd')
<1>1. cd \in MachineType /\ Roles(cd) /\ Transfers(cd)
  BY DEF RolesInv, TypeOK, Agreed, TransferInv
<1>2. ASSUME NEW m \in MachineType, SameView(cd, m), Leaves(cd, m), NEW complete \in BOOLEAN,
             cd' = SyncCallback(m, complete)
      PROVE  Transfers(cd') /\ Progress(cd, cd')
  <2>1. Roles(m) /\ Transfers(m)
    BY <1>1, <1>2, ViewRoles, LeavesTransfers
  <2>2. Advances(m, cd')
    BY <1>2, <2>1, SyncCallbackAdvances
  <2> QED BY <1>2, <2>2, AdvancesAfter DEF Advances, Progress
<1>3. ASSUME NEW m \in MachineType, SameView(cd, m), Leaves(cd, m),
             NEW dataReady \in BOOLEAN, NEW accept \in BOOLEAN, NEW decoding,
             cd' = ReadyCallback(m, dataReady, accept, decoding)
      PROVE  Transfers(cd') /\ Progress(cd, cd')
  <2>1. Roles(m) /\ Transfers(m)
    BY <1>1, <1>3, ViewRoles, LeavesTransfers
  <2>2. Advances(m, cd')
    BY <1>3, <2>1, ReadyCallbackAdvances
  <2> QED BY <1>3, <2>2, AdvancesAfter DEF Advances, Progress
<1>4. CASE CommandDone
  <2>1. /\ Executed(cd) \in MachineType
        /\ SameView(cd, Executed(cd)) /\ Leaves(cd, Executed(cd))
    BY <1>1, ExecutedType, ExecutedView, ExecutedLeaves
  <2> QED BY <1>2, <1>4, <2>1 DEF CommandDone
<1>5. CASE CommandFailed
  <2> DEFINE m == [cd EXCEPT !.issued = "None"]
  <2>1. cd' = SyncCallback(m, FALSE)
    BY <1>5 DEF CommandFailed
  <2>2. m \in MachineType
    BY <1>1, CommandValues DEF MachineType
  <2>3. SameView(cd, m) /\ Leaves(cd, m)
    BY <1>1, OtherFields, FieldsLeft
  <2> HIDE DEF m
  <2> QED BY <1>2, <2>1, <2>2, <2>3
<1>6. CASE SendWaiting
  <2>1. Leaves(cd, cd')
    BY <1>1, <1>6 DEF SendWaiting, Leaves, SameQueue, SameTransfer, Resumed, MachineType
  <2> QED BY <1>1, <2>1, LeavesProgress
<1>7. CASE CommandLost
  BY <1>1, <1>7, ExecutedLeaves, FieldsLeft, LeavesProgress DEF CommandLost
<1>8. CASE SectorLost
  BY <1>1, <1>8, NextSectorLeaves, LeavesProgress DEF SectorLost
<1>9. CASE \E accept, decoding \in BOOLEAN : SectorReady(accept, decoding)
  <2>1. PICK accept \in BOOLEAN, decoding \in BOOLEAN : SectorReady(accept, decoding)
    BY <1>9
  <2>2. cd' = ReadyCallback(NextSector, TRUE, accept, decoding)
    BY <2>1 DEF SectorReady
  <2> QED BY <1>1, <1>3, <2>2, NextSectorView, NextSectorLeaves
<1>10. CASE SectorFailed
  <2>1. SameView(cd, cd)
    BY DEF SameView, SameQueue, SameMode, SameStep, SameSlots
  <2> QED BY <1>1, <1>3, <1>10, <2>1, LeavesItself DEF SectorFailed
<1>11. CASE \E accept \in BOOLEAN : MdecOut(accept)
  BY <1>1, <1>11 DEF MdecOut, Roles, DataQueued
<1>12. CASE OpenLid
  <2> DEFINE m == [cd EXCEPT !.reading = FALSE]
  <2>1. cd' = m \/ cd' = ReadyCallback(m, FALSE, TRUE, FALSE)
    BY <1>12 DEF OpenLid
  <2>2. m \in MachineType
    BY <1>1 DEF MachineType
  <2>3. SameView(cd, m) /\ Leaves(cd, m)
    BY <1>1, OtherFields, FieldsLeft
  <2> HIDE DEF m
  <2> QED BY <1>1, <1>3, <2>1, <2>2, <2>3, LeavesProgress
<1>13. CASE \E inserted \in Inserted : CloseLid(inserted)
  BY <1>1, <1>13, LeavesItself, LeavesProgress DEF CloseLid
<1> QED BY <1>4, <1>5, <1>6, <1>7, <1>8, <1>9, <1>10, <1>11, <1>12, <1>13 DEF Drive

LEMMA StepProgress ==
    ASSUME ReadsInTurn, RolesInv, TransferInv, [Next]_vars
    PROVE  Transfers(cd') /\ Progress(cd, cd')
<1>1. cd \in MachineType /\ Transfers(cd)
  BY DEF RolesInv, TypeOK, TransferInv
<1>2. CASE ProcessState
  BY <1>2, ServiceProgress, RecoveryProgress DEF ProcessState
<1>3. CASE Recover
  BY <1>1, <1>3, ReconfigurationLeaves, LeavesProgress
<1>4. CASE UNCHANGED vars
  BY <1>1, <1>4, LeavesItself, LeavesProgress DEF vars
<1> QED BY <1>2, <1>3, <1>4, GameProgress, QueueingProgress, DriveProgress DEF Next

-----------------------------------------------------------------------------
(* The invariant. *)

(* No interrupt comes between the two looks of a call unless it may. *)
LEMMA UnhurriedStep ==
    ASSUME RolesInv, TransferInv, [Next]_vars,
           fg'.at = "checking", "checking" \notin Windows
    PROVE  fg'.open = FALSE /\ cd'.waiting = "None" /\ cd'.current_command = "None"
<1>1. cd \in MachineType /\ fg \in [at : Points, open : BOOLEAN] /\ Unhurried
  BY DEF RolesInv, TypeOK, TransferInv
<1>2. \A point : At(point).at = point
  BY DEF At
<1>3. CASE Game
  <2>1. fg.at = "idle" /\ (fg' = fg \/ fg' = At("published"))
    BY <1>3 DEF Game, QueueCommand, Reset, Stop, LockQueue, UnlockQueue, EnterRecoveryMode, Running
  <2> QED BY <1>2, <2>1
<1>4. CASE Queueing
  <2>1. CASE QueueCheckCommand
    <3>1. /\ cd' = cd /\ cd.waiting = "None"
          /\ fg' = At(IF cd.current_command = "None" THEN "checking" ELSE "idle")
      BY <2>1 DEF QueueCheckCommand, Running
    <3>2. cd.current_command = "None" /\ fg' = At("checking")
      BY <1>2, <3>1
    <3> QED BY <3>1, <3>2, ShutPoint
  <2>2. CASE QueueCheckStep \/ StartNop
    <3>1. fg' = At("starting") \/ fg' = At("idle")
      BY <2>2 DEF QueueCheckStep, StartNop
    <3> QED BY <1>2, <3>1
  <2> QED BY <1>4, <2>1, <2>2 DEF Queueing
<1>5. CASE ProcessState
  <2>1. CASE RecoveryWait \/ RecoveryPoll
    <3>1. fg' = fg /\ fg.at = "idle"
      BY <2>1 DEF RecoveryWait, RecoveryPoll, RecoveryAbandon, RecoveryCheckDisc,
         RecoveryWaitForDisc, RecoveryWaitForDrive, RecoveryDiscType, RecoverySetMode,
         RecoveryReadDiscId, RecoveryWaitForRead, RecoveryReadTimeout, RecoveryStopDrive,
         RecoveryRests, PollAt, Recovering, Running
    <3> QED BY <3>1
  <2>2. CASE WatchdogDue
    <3>1. fg' = At("watch_command") \/ fg' = At("watch_step")
      BY <2>2 DEF WatchdogDue
    <3> QED BY <1>2, <3>1
  <2>3. CASE \/ ServiceCheckCommand \/ Supervise \/ WatchdogCommand \/ WatchdogStep \/ WatchdogNop
             \/ Restart \/ IdleQuiet \/ IdlePoll \/ IdlePollFails
    <3>1. \/ fg' = At("observed") \/ fg' = At("idle") \/ fg' = At("blocking")
          \/ fg' = At("starting")
      BY <2>3 DEF ServiceCheckCommand, Supervise, WatchdogCommand, WatchdogStep, WatchdogNop,
         Restart, IdleQuiet, IdlePoll, IdlePollFails
    <3> QED BY <1>2, <3>1
  <2> QED BY <1>5, <2>1, <2>2, <2>3 DEF ProcessState
<1>6. CASE Recover
  <2>1. fg' = fg /\ fg.at = "idle"
    BY <1>6 DEF Recover, RecoverFlush, RecoverSetMode, RecoverSetFilter, RecoverActivity,
       RecoverTimeout, Reconfiguring, Running
  <2> QED BY <2>1
<1>7. CASE Drive
  <2>1. ASSUME Interrupt
        PROVE  FALSE
    <3>1. fg.at = "checking"
      BY <1>1, <2>1 DEF Interrupt
    <3> QED BY <1>1, <2>1, <3>1 DEF Unhurried, Interrupt
  <2>2. CASE SendWaiting
    BY <1>1, <2>2 DEF SendWaiting, Unhurried
  <2>3. CASE CommandLost
    <3>1. fg' = fg /\ (cd' = Executed(cd) \/ cd' = [cd EXCEPT !.issued = "None"])
      BY <2>3 DEF CommandLost
    <3>2. cd'.waiting = cd.waiting /\ cd'.current_command = cd.current_command
      BY <1>1, <3>1, ExecutedView DEF SameView, SameStep, SameSlots, MachineType
    <3> QED BY <1>1, <3>1, <3>2 DEF Unhurried
  <2>4. CASE SectorLost
    <3>1. fg' = fg /\ cd' = NextSector
      BY <2>4 DEF SectorLost
    <3>2. cd'.waiting = cd.waiting /\ cd'.current_command = cd.current_command
      BY <1>1, <3>1 DEF NextSector, MachineType
    <3> QED BY <1>1, <3>1, <3>2 DEF Unhurried
  <2>5. CASE \E inserted \in Inserted : CloseLid(inserted)
    BY <1>1, <2>5 DEF CloseLid, Unhurried
  <2> QED BY <1>7, <2>1, <2>2, <2>3, <2>4, <2>5 DEF Drive, CommandDone, CommandFailed,
          SectorReady, SectorFailed, MdecOut, OpenLid
<1>8. CASE UNCHANGED vars
  BY <1>1, <1>8 DEF vars, Unhurried
<1> QED BY <1>3, <1>4, <1>5, <1>6, <1>7, <1>8 DEF Next

LEMMA TransferInit == Init => TransferInv
<1> SUFFICES ASSUME Init PROVE TransferInv
  OBVIOUS
<1>1. cd = InitialMachine /\ fg.at = "idle"
  BY DEF Init, At
<1>2. /\ cd.transfer_callback = NULL /\ cd.playback_state = FALSE /\ cd.trap = {}
      /\ cd.ready_callback = "none" /\ cd.current_command = "None"
      /\ cd.items = InitialMachine.items
  BY <1>1 DEF InitialMachine
<1>3. Readable(cd)
  BY <1>2 DEF Readable, InitialMachine, BlankItem
<1>4. Transfers(cd)
  BY <1>2, <1>3, NothingUnderWay
<1> QED BY <1>1, <1>4 DEF TransferInv, Unhurried

LEMMA TransferStep ==
    ASSUME ReadsInTurn
    PROVE  RolesInv /\ TransferInv /\ [Next]_vars => TransferInv'
<1> SUFFICES ASSUME RolesInv, TransferInv, [Next]_vars PROVE TransferInv'
  OBVIOUS
<1>1. Transfers(cd')
  BY StepProgress
<1>2. Transfers(cd)'
  BY <1>1 DEF Transfers, Readable, Streaming, Listening, Resumed, Seeking, Counted, Filled, Moved,
     HeadExtent, HeadItem, IsEmpty
<1>3. Unhurried'
  BY UnhurriedStep DEF Unhurried
<1> QED BY <1>2, <1>3 DEF TransferInv

(***************************************************************************)
(* The counters, the position, the destination and the callback of a       *)
(* transfer that goes on or is to be resumed are those of the read at the  *)
(* read index, and what it has moved is in its place (the handlers of      *)
(* cdrom.c, from cdrom_run_command to cdrom_process_data_sector), for      *)
(* every size of the ring, every disc and any number of faults.            *)
(***************************************************************************)
THEOREM TransfersHold ==
    ASSUME ReadsInTurn
    PROVE  Spec => []TransferInv
<1>1. DataInTurn
  BY DEF ReadsInTurn
<1>2. Spec => []RolesInv
  BY <1>1, RolesHold
<1>3. RolesInv /\ TransferInv /\ [Next]_vars => TransferInv'
  BY TransferStep
<1> QED BY <1>2, <1>3, TransferInit, PTL DEF Spec

LEMMA TransfersEnough == TransferInv => NoNullAccess /\ ResumePoint
<1> SUFFICES ASSUME TransferInv PROVE NoNullAccess /\ ResumePoint
  OBVIOUS
<1>1. Transfers(cd)
  BY DEF TransferInv
<1>2. NoNullAccess
  BY <1>1 DEF Transfers, NoNullAccess
<1>3. ASSUME cd.playback_state
      PROVE  Counted(cd)
  BY <1>1, <1>3 DEF Transfers, Resumed, Streaming
<1>4. ResumePoint
  <2> SUFFICES ASSUME cd.playback_state
               PROVE  /\ ~IsEmpty(cd)
                      /\ cd.transfer_callback = HeadItem(cd).callback
                      /\ cd.current_location =
                           Extent[HeadItem(cd).resource].loc + cd.total_data - cd.read_remaining
    BY DEF ResumePoint
  <2>1. Counted(cd)
    BY <1>3
  <2> QED BY <2>1 DEF Counted, HeadExtent, Moved
<1> QED BY <1>2, <1>4

(***************************************************************************)
(* No handler goes through a null pointer (cdrom_process_sector,           *)
(* cdrom_run_command) as long as every read has a destination.             *)
(***************************************************************************)
THEOREM NoNullAccessEver ==
    ASSUME ReadsInTurn
    PROVE  Spec => []NoNullAccess
BY TransfersHold, TransfersEnough, PTL

(***************************************************************************)
(* A transfer that the watchdog or recovery has interrupted is the read at *)
(* the read index, and it resumes at the sector its callback has not had   *)
(* (playback_state, cdrom_run_command), after any number of faults.        *)
(***************************************************************************)
THEOREM ResumesInPlace ==
    ASSUME ReadsInTurn
    PROVE  Spec => []ResumePoint
BY TransfersHold, TransfersEnough, PTL

-----------------------------------------------------------------------------
(* The service that callers see. *)

(* The pending requests of a machine. *)
PendingOf(m) == [i \in 1..PendingCount(m) |-> m.items[(m.queue_read_index + i - 1) % QueueSize]]

LEMMA PendingShape ==
    ASSUME NEW m \in MachineType
    PROVE  /\ Len(PendingOf(m)) = PendingCount(m)
           /\ PendingOf(m) \in Seq(Request)
           /\ \A i \in 1..PendingCount(m) : PendingOf(m)[i] = m.items[Ahead(m, i - 1)]
           /\ ~IsEmpty(m) => PendingOf(m) # <<>> /\ Head(PendingOf(m)) = HeadItem(m)
<1> DEFINE r == m.queue_read_index
           count == PendingCount(m)
<1>1. /\ r \in Slots /\ count \in 0..QueueSize - 1
      /\ ~IsEmpty(m) => count >= 1
  BY CountType
<1>2. QueueSize \in Nat /\ r \in Nat /\ r < QueueSize /\ count \in Nat /\ m.items \in [Slots -> Request]
  BY <1>1, QueueAssumption DEF Slots, MachineType
<1> HIDE DEF r, count
<1>3. PendingOf(m) = [i \in 1..count |-> m.items[(r + i - 1) % QueueSize]]
  BY DEF PendingOf, r, count
<1>4. ASSUME NEW i \in 1..count
      PROVE  (r + i - 1) % QueueSize = Ahead(m, i - 1) /\ (r + i - 1) % QueueSize \in Slots
  <2>1. r + i - 1 = r + (i - 1) /\ r + i - 1 \in Int
    BY <1>2
  <2>2. (r + i - 1) % QueueSize \in Slots
    BY <2>1, SlotOf
  <2> QED BY <2>1, <2>2 DEF Ahead, r
<1>5. \A i \in 1..count : m.items[(r + i - 1) % QueueSize] \in Request
  BY <1>2, <1>4
<1>6. PendingOf(m) \in Seq(Request) /\ Len(PendingOf(m)) = count
  BY <1>2, <1>3, <1>5
<1>7. \A i \in 1..count : PendingOf(m)[i] = m.items[Ahead(m, i - 1)]
  BY <1>3, <1>4
<1>8. ASSUME ~IsEmpty(m)
      PROVE  PendingOf(m) # <<>> /\ Head(PendingOf(m)) = HeadItem(m)
  <2>1. 1 \in 1..count
    BY <1>1, <1>2, <1>8
  <2>2. PendingOf(m)[1] = m.items[Ahead(m, 1 - 1)]
    BY <1>7, <2>1
  <2>3. Ahead(m, 1 - 1) = r
    <3>1. r + (1 - 1) = r /\ r % QueueSize = r
      BY <1>2, ModCases
    <3> QED BY <3>1 DEF Ahead, r
  <2>4. PendingOf(m) # <<>> /\ Head(PendingOf(m)) = PendingOf(m)[1]
    BY <1>6, <2>1
  <2> QED BY <2>2, <2>3, <2>4 DEF HeadItem, r
<1> QED BY <1>6, <1>7, <1>8 DEF count

(* Requests that are passed leave the others in their order. *)
LEMMA PendingPassed ==
    ASSUME NEW m \in MachineType, NEW n \in MachineType, NEW k \in 0..PendingCount(m),
           Passes(m, n, k)
    PROVE  PendingOf(n) = SubSeq(PendingOf(m), k + 1, Len(PendingOf(m)))
<1> DEFINE count == PendingCount(m)
           rest == SubSeq(PendingOf(m), k + 1, count)
<1>1. /\ count \in 0..QueueSize - 1 /\ QueueSize \in Nat /\ k \in 0..count
      /\ m.queue_read_index \in Slots
  BY CountType, QueueAssumption
<1>2. /\ n.items = m.items /\ n.queue_read_index = Ahead(m, k)
      /\ PendingCount(n) = count - k
  BY DEF Passes
<1>3. /\ Len(PendingOf(m)) = count /\ PendingOf(m) \in Seq(Request)
      /\ \A i \in 1..count : PendingOf(m)[i] = m.items[Ahead(m, i - 1)]
  BY PendingShape
<1>4. /\ Len(PendingOf(n)) = count - k /\ PendingOf(n) \in Seq(Request)
      /\ \A i \in 1..count - k : PendingOf(n)[i] = n.items[Ahead(n, i - 1)]
  BY <1>2, PendingShape
<1>5. ASSUME NEW i \in 1..count - k
      PROVE  PendingOf(n)[i] = PendingOf(m)[i + k]
  <2>1. i - 1 \in Nat /\ k \in Nat /\ k + (i - 1) <= QueueSize - 1 /\ i + k \in 1..count
        /\ i + k - 1 = k + (i - 1)
    BY <1>1
  <2>2. Ahead(n, i - 1) = Ahead(m, i + k - 1)
    BY <1>1, <1>2, <2>1, AheadTwice DEF Ahead
  <2> QED BY <1>2, <1>3, <1>4, <2>1, <2>2
<1> HIDE DEF count
<1>6. /\ rest \in Seq(Request) /\ Len(rest) = count - k
      /\ \A i \in 1..count - k : rest[i] = PendingOf(m)[i + k]
  BY <1>1, <1>3
<1> HIDE DEF rest
<1>7. PendingOf(n) = rest
  <2> DEFINE length == count - k
             left == PendingOf(n)
  <2>1. length \in Nat /\ left \in Seq(Request) /\ Len(left) = length /\ Len(rest) = length
    BY <1>1, <1>4, <1>6
  <2>2. \A i \in 1..length : left[i] = rest[i]
    BY <1>5, <1>6
  <2> HIDE DEF length, left
  <2>3. left = rest
    BY <1>6, <2>1, <2>2
  <2> QED BY <2>3 DEF left
<1> QED BY <1>3, <1>7 DEF rest

(* A request that is queued is the last one. *)
LEMMA PendingAccepted ==
    ASSUME NEW m \in MachineType, NEW n \in MachineType, NEW req \in Request, ~IsFull(m),
           n.queue_read_index = m.queue_read_index,
           n.queue_write_index = Next1(m.queue_write_index),
           n.items = [m.items EXCEPT ![m.queue_write_index] = req]
    PROVE  /\ PendingOf(n) = Append(PendingOf(m), req)
           /\ Len(PendingOf(m)) < QueueSize - 1
<1> DEFINE count == PendingCount(m)
           r == m.queue_read_index
           w == m.queue_write_index
<1>1. /\ count \in 0..QueueSize - 1 /\ r \in Slots /\ w \in Slots
      /\ m.items \in [Slots -> Request]
  BY CountType DEF MachineType
<1>2. count = (w - r) % QueueSize /\ r # Next1(w) /\ PendingCount(n) = (Next1(w) - r) % QueueSize
  BY DEF PendingCount, IsFull
<1>3. /\ QueueSize \in Nat /\ QueueSize >= 2 /\ r \in Int /\ w \in Int
      /\ 0 <= r /\ r < QueueSize /\ 0 <= w /\ w < QueueSize /\ 1 \in 0..QueueSize - 1
  BY <1>1, QueueAssumption DEF Slots
<1>4. /\ w + 1 < QueueSize => Next1(w) = w + 1
      /\ w + 1 >= QueueSize => Next1(w) = w + 1 - QueueSize
      /\ Next1(w) \in Slots
  BY <1>1, <1>3, Further DEF Next1
<1> HIDE DEF r, w, count
<1>5. /\ w >= r => (w - r) % QueueSize = w - r
      /\ w < r => (w - r) % QueueSize = w - r + QueueSize
      /\ Next1(w) >= r => (Next1(w) - r) % QueueSize = Next1(w) - r
      /\ Next1(w) < r => (Next1(w) - r) % QueueSize = Next1(w) - r + QueueSize
  BY <1>1, <1>4, Behind
<1>6. PendingCount(n) = count + 1 /\ count < QueueSize - 1
  BY <1>2, <1>3, <1>4, <1>5, SMTT(30)
<1>7. ASSUME NEW i \in 0..count
      PROVE  /\ (r + i) % QueueSize \in Slots
             /\ (r + i) % QueueSize = w <=> i = count
  <2>1. i \in 0..QueueSize - 1
    BY <1>1, <1>3
  <2>2. /\ (r + i) % QueueSize \in Slots
        /\ r + i < QueueSize => (r + i) % QueueSize = r + i
        /\ r + i >= QueueSize => (r + i) % QueueSize = r + i - QueueSize
    BY <1>1, <2>1, Further
  <2>3. (r + i) % QueueSize = w <=> i = count
    BY <1>2, <1>3, <1>5, <2>1, <2>2, SMTT(30)
  <2> QED BY <2>2, <2>3
<1>8. /\ Len(PendingOf(m)) = count /\ PendingOf(m) \in Seq(Request)
      /\ \A i \in 1..count : PendingOf(m)[i] = m.items[Ahead(m, i - 1)]
  BY PendingShape DEF count
<1>9. /\ Len(PendingOf(n)) = count + 1 /\ PendingOf(n) \in Seq(Request)
      /\ \A i \in 1..count + 1 : PendingOf(n)[i] = n.items[Ahead(n, i - 1)]
  BY <1>6, PendingShape
<1>10. \A i : Ahead(n, i) = Ahead(m, i) /\ Ahead(m, i) = (r + i) % QueueSize
  BY DEF Ahead, r
<1>11. ASSUME NEW i \in 1..count + 1
       PROVE  PendingOf(n)[i] = IF i = count + 1 THEN req ELSE PendingOf(m)[i]
  <2>1. i - 1 \in 0..count /\ (i - 1 = count <=> i = count + 1)
        /\ (i # count + 1 => i \in 1..count)
    BY <1>1, <1>3
  <2>2. Ahead(m, i - 1) \in Slots /\ (Ahead(m, i - 1) = w <=> i = count + 1)
    BY <1>7, <1>10, <2>1
  <2>3. n.items = [m.items EXCEPT ![w] = req]
    BY DEF w
  <2>4. PendingOf(n)[i] = n.items[Ahead(m, i - 1)]
    BY <1>9, <1>10
  <2>5. n.items[Ahead(m, i - 1)] = IF i = count + 1 THEN req ELSE m.items[Ahead(m, i - 1)]
    BY <1>1, <2>2, <2>3
  <2> QED BY <1>8, <2>1, <2>4, <2>5
<1>12. PendingOf(n) = Append(PendingOf(m), req)
  <2> DEFINE longer == Append(PendingOf(m), req)
  <2>1. /\ longer \in Seq(Request) /\ Len(longer) = count + 1
        /\ \A i \in 1..count + 1 : longer[i] = IF i = count + 1 THEN req ELSE PendingOf(m)[i]
    BY <1>1, <1>8
  <2> HIDE DEF longer
  <2>2. PendingOf(n) = longer
    BY <1>1, <1>9, <1>11, <2>1
  <2> QED BY <2>2 DEF longer
<1> QED BY <1>6, <1>8, <1>12

LEMMA PendingNone ==
    ASSUME NEW m, IsEmpty(m), m.queue_write_index \in Int
    PROVE  PendingOf(m) = <<>>
<1>1. PendingCount(m) = 0
  <2>1. m.queue_write_index - m.queue_read_index = 0 /\ 0 % QueueSize = 0
    BY QueueAssumption DEF IsEmpty
  <2> QED BY <2>1 DEF PendingCount
<1> QED BY <1>1 DEF PendingOf


(* Every step of the machine is a step of the service. *)
LEMMA ProgressServes ==
    ASSUME TypeOK, TypeOK', Progress(cd, cd')
    PROVE  [Queue!Next]_(Queue!vars)
<1>1. cd \in MachineType /\ cd' \in MachineType
  BY DEF TypeOK
<1>2. Pending = PendingOf(cd) /\ Pending' = PendingOf(cd')
  BY DEF Pending, PendingOf, PendingCount
<1>3. CASE Accepts(cd, cd')
  <2>1. PICK req \in Request : cd'.items = [cd.items EXCEPT ![cd.queue_write_index] = req]
    BY <1>3 DEF Accepts
  <2>2. /\ Pending' = Append(Pending, req) /\ Len(Pending) < QueueSize - 1
        /\ cd'.memory = cd.memory
    BY <1>1, <1>2, <1>3, <2>1, PendingAccepted DEF Accepts
  <2> QED BY <2>2 DEF Queue!Next, Queue!Accept
<1>4. CASE Clears(cd, cd')
  <2>1. cd'.queue_write_index \in Int
    BY <1>1, CountType, QueueAssumption DEF Slots
  <2>2. Pending' = <<>> /\ cd'.memory = cd.memory
    BY <1>2, <1>4, <2>1, PendingNone DEF Clears
  <2> QED BY <2>2 DEF Queue!Next, Queue!Clear
<1>5. CASE Serves(cd, cd')
  <2>1. PICK k \in 0..PendingCount(cd) :
          /\ Passes(cd, cd', k) /\ OnlySeeks(cd, k)
          /\ cd'.memory = cd.memory \/ PutsOne(cd, cd')
          /\ k > 0 /\ HeadItem(cd).command = "ReadN" => AllPut(cd, cd')
    BY <1>5 DEF Serves
  <2>2. /\ Len(Pending) = PendingCount(cd) /\ Pending \in Seq(Request)
        /\ PendingCount(cd) \in Nat
        /\ \A i \in 1..PendingCount(cd) : Pending[i] = cd.items[Ahead(cd, i - 1)]
        /\ ~IsEmpty(cd) => Pending # <<>> /\ Head(Pending) = HeadItem(cd)
        /\ IsEmpty(cd) => PendingCount(cd) = 0
    BY <1>1, <1>2, PendingShape, CountType
  <2>3. Pending' = SubSeq(Pending, k + 1, Len(Pending))
    BY <1>1, <1>2, <2>1, PendingPassed
  <2>4. PutsOne(cd, cd') => Pending # <<>> /\ Queue!FillsIn(Head(Pending))
    <3>1. ASSUME PutsOne(cd, cd')
          PROVE  Pending # <<>> /\ Queue!FillsIn(Head(Pending))
      <4>1. ~IsEmpty(cd) /\ HeadItem(cd).command = "ReadN"
        BY <3>1 DEF PutsOne
      <4>2. Pending # <<>> /\ Head(Pending) = HeadItem(cd)
        BY <2>2, <4>1
      <4>3. PICK o \in 0..HeadExtent(cd).size - 1 :
              cd'.memory = [cd.memory EXCEPT ![SinkOf(HeadItem(cd))][o] = HeadExtent(cd).loc + o]
        BY <3>1 DEF PutsOne
      <4>4. /\ DOMAIN ImageOf(HeadItem(cd)) = 0..HeadExtent(cd).size - 1
            /\ ImageOf(HeadItem(cd))[o] = HeadExtent(cd).loc + o
        BY DEF ImageOf, HeadExtent
      <4>5. FillsSink(HeadItem(cd))
        BY <4>1 DEF FillsSink
      <4> QED BY <4>2, <4>3, <4>4, <4>5 DEF Queue!FillsIn
    <3> QED BY <3>1
  <2>5. CASE k = 0
    <3>1. Pending' = Pending
      BY <2>2, <2>3, <2>5
    <3>2. CASE cd'.memory = cd.memory
      BY <3>1, <3>2 DEF Queue!vars
    <3>3. CASE PutsOne(cd, cd')
      BY <2>4, <3>1, <3>3 DEF Queue!Next, Queue!Fill
    <3> QED BY <2>1, <3>2, <3>3
  <2>6. CASE k # 0
    <3>1. k \in 1..Len(Pending) /\ ~IsEmpty(cd) /\ k > 0
      BY <2>2, <2>6
    <3>2. ASSUME NEW i \in 2..k
          PROVE  MovesHead(Pending[i]) /\ i < Len(Pending)
      <4>1. i - 1 \in 1..k - 1 /\ i \in 1..PendingCount(cd)
        BY <2>2, <3>1
      <4>2. cd.items[Ahead(cd, i - 1)].command = "SeekL" /\ i - 1 < PendingCount(cd) - 1
        BY <2>1, <4>1 DEF OnlySeeks
      <4> QED BY <2>2, <4>1, <4>2 DEF MovesHead
    <3>3. Queue!FillsIn(Head(Pending)) \/ UNCHANGED cd.memory
      BY <2>1, <2>4
    <3>4. FillsSink(Head(Pending)) => Queue!Whole(Head(Pending))
      <4>1. ASSUME FillsSink(Head(Pending))
            PROVE  Queue!Whole(Head(Pending))
        <5>1. Head(Pending) = HeadItem(cd) /\ HeadItem(cd).command = "ReadN"
          BY <2>2, <3>1, <4>1 DEF FillsSink
        <5>2. \A o \in 0..HeadExtent(cd).size - 1 :
                cd'.memory[SinkOf(HeadItem(cd))][o] = HeadExtent(cd).loc + o
          BY <2>1, <3>1, <5>1 DEF AllPut
        <5>3. /\ DOMAIN ImageOf(HeadItem(cd)) = 0..HeadExtent(cd).size - 1
              /\ \A o \in 0..HeadExtent(cd).size - 1 :
                   ImageOf(HeadItem(cd))[o] = HeadExtent(cd).loc + o
          BY DEF ImageOf, HeadExtent
        <5> QED BY <5>1, <5>2, <5>3 DEF Queue!Whole
      <4> QED BY <4>1
    <3>5. Queue!Finish(k)
      BY <2>3, <3>1, <3>2, <3>3, <3>4 DEF Queue!Finish
    <3> QED BY <3>1, <3>5 DEF Queue!Next
  <2> QED BY <2>5, <2>6
<1> QED BY <1>3, <1>4, <1>5 DEF Progress

LEMMA ServiceInit == Init => Queue!Init
<1> SUFFICES ASSUME Init PROVE Queue!Init
  OBVIOUS
<1>1. cd \in MachineType /\ cd = InitialMachine
  BY TypeInit DEF Init, TypeOK
<1>2. IsEmpty(cd) /\ cd.queue_write_index \in Int
  BY <1>1 DEF InitialMachine, IsEmpty
<1>3. Pending = <<>>
  BY <1>2, PendingNone DEF Pending, PendingOf
<1>4. cd.memory \in [Sinks -> [Offsets -> 0..NoPosition]]
  <2>1. cd.memory = [s \in Sinks |-> [o \in Offsets |-> NoPosition]]
    BY <1>1 DEF InitialMachine
  <2>2. NoPosition \in 0..NoPosition
    BY DiscAssumption DEF NoPosition
  <2> QED BY <2>1, <2>2
<1> QED BY <1>3, <1>4 DEF Queue!Init

(***************************************************************************)
(* cdrom.c implements the first-in first-out service of CdService: each    *)
(* request is finished once and in its turn, each read when all of it is   *)
(* in its sink; retries, watchdogs, resumed transfers, recovery and the    *)
(* superseding of seeks stay invisible to the callers.  For every size of  *)
(* the ring, every disc and any number of faults.                          *)
(***************************************************************************)
THEOREM ServesItsCallers ==
    ASSUME ReadsInTurn
    PROVE  Spec => ServedInOrder
<1>1. DataInTurn
  BY DEF ReadsInTurn
<1>2. Spec => []RolesInv
  BY <1>1, RolesHold
<1>3. Spec => []TransferInv
  BY TransfersHold
<1>4. RolesInv /\ RolesInv' /\ TransferInv /\ [Next]_vars => [Queue!Next]_(Queue!vars)
  <2> SUFFICES ASSUME RolesInv, RolesInv', TransferInv, [Next]_vars
               PROVE  [Queue!Next]_(Queue!vars)
    OBVIOUS
  <2>1. TypeOK /\ TypeOK'
    BY DEF RolesInv
  <2> QED BY <2>1, StepProgress, ProgressServes
<1> QED BY <1>2, <1>3, <1>4, ServiceInit, PTL DEF Spec, ServedInOrder, Queue!Spec
=============================================================================
