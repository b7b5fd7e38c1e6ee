-------------------------- MODULE CardSave_proofs ---------------------------
(* Theorems about the memory card save: a named file is whole, the player's   *)
(* save outlives every save, pull and reset, an old save goes only when its   *)
(* replacement is there, and "Saved." is true unless a fault came late.       *)
EXTENDS CardSaveProperties, FiniteSetTheorems, WellFoundedInduction, TLAPS

SaveLoads == \E s \in Serials : files[s] = "done"

Titling == {"find", "read_title", "write_title"}

Replacing == {"erase_first", "open", "write", "poll", "undo"}

Saving == {"init"} \cup Replacing \cup Committing

(* An attempt at the write is one of those counted down.                      *)
Counted == at \in Replacing => retries >= 1

(* What a file under a save's name may hold, and why.                         *)
Whole ==
  /\ \A s \in Serials :
       /\ files[s] \notin {"empty", "partial"}
       /\ files[s] = "garbled" => hurt
       /\ files[s] = "bad" => hurt \/ (at \in Titling /\ slot = "in" /\ s = serial)
  /\ at = "write_title" /\ frame = "junk" => hurt \/ slot # "in"

(* The write under way is this save's, and the only complete event its poll   *)
(* can find is the end of it.                                                 *)
Request ==
  /\ io = "write" => at = "poll" /\ files[Dummy] = "partial"
  /\ at = "poll" => io # "info" /\ (events # {} => io = "none")
  /\ at = "poll" /\ "complete" \in events => files[Dummy] = "bad"
  /\ at \in {"write", "poll", "undo"} => OnCard(Dummy)
  /\ at = "erase_old" => files[Dummy] = "bad" /\ freeSpace
  /\ at = "rename" => files[Dummy] \in {"none", "bad"}
  /\ at = "erase_first" => ~freeSpace

(* The serial the save is written under names no other file.                  *)
Named ==
  /\ at \in Saving => serial \in Serials
  /\ at \notin Titling \cup {"scan"} /\ serial \in Serials => files[serial] = "none"
  /\ at \in Titling => files[serial] \in {"none", "bad"}
  /\ at \in {"read_title", "write_title"} => files[serial] = "bad"

(* Where the player's save is while no fault has come at a bad moment.        *)
Kept ==
  /\ at \notin {"open", "write", "poll", "undo", "rename"} \cup Titling => SaveLoads
  /\ freeSpace /\ at \in {"open", "write", "poll", "undo"} => SaveLoads
  /\ ~freeSpace /\ at \in {"idle", "prompt", "init", "erase_first", "open"} =>
       files[Dummy] = "none"
  /\ ~freeSpace /\ at = "open" => SaveLoads \/ (slot = "in" /\ Used(files) < room)
  /\ ~freeSpace /\ at \in {"write", "poll"} => slot = "in"
  /\ ~freeSpace /\ at = "poll" => events \subseteq {"complete"}
  /\ at = "undo" => freeSpace
  /\ at = "rename" => SaveLoads \/ (slot = "in" /\ files[Dummy] = "bad")
  /\ at \in Titling => SaveLoads \/ (slot = "in" /\ files[serial] = "bad")
  /\ at = "write_title" => SaveLoads \/ frame = "sector"

KeptUnlessHurt == hurt \/ Kept

(* No more files than the card has room for.                                  *)
Fits == Used(files) <= room

(* What the window shows, and what is behind a "Saved." about to be shown.    *)
Told ==
  /\ at \in Saving => writing /\ window = "progress"
  /\ at \notin Saving => ~writing
  /\ at \in {"idle", "prompt"} => window # "progress"
  /\ window = "progress" /\ ~writing =>
       late \/ (serial \in Serials /\ files[serial] = "done")
  /\ at \in Committing => late \/ slot = "in"
  /\ at = "poll" /\ "complete" \in events => late \/ slot = "in"
  /\ at = "rename" => late \/ files[Dummy] = "bad"
  /\ at \in Titling => late \/ files[serial] = "bad"
  /\ at = "write_title" => late \/ frame = "sector"

(* A selected placeholder is on the card, so that no write is begun over it.  *)
Chosen ==
  /\ at \in {"idle", "prompt"} /\ Dummy \in entries => OnCard(Dummy)
  /\ at \in {"prompt", "init", "open"} /\ freeSpace /\ row = Dummy => OnCard(Dummy)
  /\ at \in {"write", "poll", "undo", "erase_old"} /\ freeSpace => row # Dummy

IInv ==
  /\ TypeOK /\ Counted /\ Whole /\ Request /\ Named
  /\ KeptUnlessHurt /\ Fits /\ Told /\ Chosen

-----------------------------------------------------------------------------
(* What the small operators return                                           *)

(* The placeholder is a name, and no serial.                                  *)
LEMMA DummyApart == Dummy \in Names /\ Dummy \notin Serials /\ Serials \subseteq Names
BY NamesAssumption, MaxSerialAssumption DEF Names, Serials

(* The files on the card can be counted.                                      *)
LEMMA UsedType ==
  ASSUME NEW f
  PROVE  /\ IsFiniteSet({n \in Names : f[n] # "none"})
         /\ Used(f) \in Nat
<1>1. IsFiniteSet(0..MaxSerial)
  BY FS_Interval, MaxSerialAssumption
<1>2. IsFiniteSet(Names)
  BY <1>1, FS_AddElement DEF Names, Serials
<1>3. IsFiniteSet({n \in Names : f[n] # "none"})
  BY <1>2, FS_Subset
<1> QED
  BY <1>3, FS_CardinalityType DEF Used

(* Removing a file makes room for one, writing to one changes nothing.        *)
LEMMA UsedDrop ==
  ASSUME NEW f \in [Names -> Content], NEW n \in Names
  PROVE  Used([f EXCEPT ![n] = "none"]) = IF f[n] = "none" THEN Used(f) ELSE Used(f) - 1
<1> DEFINE g == [f EXCEPT ![n] = "none"]
           F == {m \in Names : f[m] # "none"}
<1>1. {m \in Names : g[m] # "none"} = F \ {n}
  OBVIOUS
<1>2. n \in F <=> f[n] # "none"
  OBVIOUS
<1>3. IsFiniteSet(F)
  BY UsedType
<1> HIDE DEF F
<1>4. Cardinality(F \ {n}) = IF n \in F THEN Cardinality(F) - 1 ELSE Cardinality(F)
  BY <1>3, FS_RemoveElement
<1> QED
  BY <1>1, <1>2, <1>4 DEF Used, F

LEMMA UsedAdd ==
  ASSUME NEW f \in [Names -> Content], NEW n \in Names, f[n] = "none",
         NEW c \in Content, c # "none"
  PROVE  Used([f EXCEPT ![n] = c]) = Used(f) + 1
<1> DEFINE g == [f EXCEPT ![n] = c]
           F == {m \in Names : f[m] # "none"}
<1>1. {m \in Names : g[m] # "none"} = F \cup {n}
  OBVIOUS
<1>2. n \notin F /\ IsFiniteSet(F)
  BY UsedType
<1> HIDE DEF F
<1>3. Cardinality(F \cup {n}) = Cardinality(F) + 1
  BY <1>2, FS_AddElement
<1> QED
  BY <1>1, <1>3 DEF Used, F

LEMMA UsedSame ==
  ASSUME NEW f \in [Names -> Content], NEW n \in Names, f[n] # "none",
         NEW c \in Content, c # "none"
  PROVE  Used([f EXCEPT ![n] = c]) = Used(f)
<1>1. \A m \in Names : [f EXCEPT ![n] = c][m] # "none" <=> f[m] # "none"
  OBVIOUS
<1> QED
  BY <1>1 DEF Used

(* A non-empty set of serials has a largest one.                              *)
LEMMA LargestSerial ==
  ASSUME NEW S \in SUBSET Serials, S # {}
  PROVE  \E m \in S : \A s \in S : s <= m
<1> DEFINE T == {n \in Nat : MaxSerial - n \in S}
<1>1. PICK r \in S : TRUE
  OBVIOUS
<1>2. MaxSerial - r \in T
  BY MaxSerialAssumption DEF Serials
<1>3. IsWellFoundedOn(OpToRel(<, Nat), Nat)
  BY NatLessThanWellFounded
<1>4. \E x \in T : \A y \in T : ~ (<<y, x>> \in OpToRel(<, Nat))
  <2>1. T \subseteq Nat /\ T # {}
    BY <1>2
  <2> HIDE DEF T
  <2> QED
    BY <1>3, <2>1, WFMin
<1>5. PICK x \in T : \A y \in T : ~ (y < x)
  BY <1>4 DEF OpToRel
<1>6. \A s \in S : s <= MaxSerial - x
  <2> TAKE s \in S
  <2>1. s \in Nat /\ MaxSerial - s \in T
    BY MaxSerialAssumption DEF Serials
  <2>2. ~ (MaxSerial - s < x)
    BY <1>5, <2>1
  <2> QED
    BY <2>1, <2>2, MaxSerialAssumption
<1> QED
  BY <1>5, <1>6

(* A pending complete event is taken first.                                   *)
LEMMA FirstEventIs ==
  ASSUME events \subseteq {"complete", "error", "timeout", "new"}, events # {}
  PROVE  /\ FirstEvent = "complete" <=> "complete" \in events
         /\ FirstEvent \in events
BY DEF FirstEvent

(* A fault, or none, keeps the history's type and forgets nothing.            *)
LEMMA FaultMeans ==
  ASSUME TypeOK, NEW kind, Fault(kind)
  PROVE  /\ faults' \in 0..MaxFaults /\ late' \in BOOLEAN /\ hurt' \in BOOLEAN
         /\ late' <=> late \/ Landed
         /\ hurt' <=> hurt \/ Exposed
<1>1. faults' \in 0..MaxFaults
  BY MaxFaultsAssumption DEF TypeOK, Fault
<1>2. late' \in BOOLEAN /\ hurt' \in BOOLEAN
  BY Zenon DEF Fault
<1>3. (late' <=> late \/ Landed) /\ (hurt' <=> hurt \/ Exposed)
  BY Zenon DEF Fault
<1> QED
  BY <1>1, <1>2, <1>3

(* The same of a step with or without a fault.                                *)
LEMMA HistoryKept ==
  ASSUME TypeOK,
         UNCHANGED history \/ Fault("pull") \/ Fault("reset") \/ Fault("glitch")
  PROVE  /\ faults' \in 0..MaxFaults /\ late' \in BOOLEAN /\ hurt' \in BOOLEAN
         /\ late => late'
         /\ hurt => hurt'
<1>1. CASE UNCHANGED history
  BY <1>1 DEF TypeOK, history
<1>2. CASE Fault("pull") \/ Fault("reset") \/ Fault("glitch")
  <2>1. ASSUME NEW kind, Fault(kind)
        PROVE  /\ faults' \in 0..MaxFaults /\ late' \in BOOLEAN /\ hurt' \in BOOLEAN
               /\ (late => late') /\ (hurt => hurt')
    BY <2>1, FaultMeans, Zenon
  <2> QED
    BY <1>2, <2>1, Zenon
<1> QED
  BY <1>1, <1>2

(* What the invariant says of the files and their number.                     *)
LEMMA Sizes ==
  ASSUME IInv
  PROVE  /\ files \in [Names -> Content]
         /\ Used(files) \in Nat /\ Used(files) <= room
         /\ room \in Nat
<1>1. files \in [Names -> Content] /\ room \in Nat /\ Used(files) <= room
  BY DEF IInv, TypeOK, Fits
<1>2. Used(files) \in Nat
  BY UsedType
<1> QED
  BY <1>1, <1>2

-----------------------------------------------------------------------------
(* One lemma per action: it keeps every part of the invariant                *)

LEMMA ScanKeeps ==
  ASSUME IInv, Scan
  PROVE  IInv'
<1> DEFINE S == {s \in Serials : files'[s] # "none"}
           Top(s) == files'[s] # "none" /\ \A t \in Serials : files'[t] # "none" => t <= s
<1>a. /\ serial' \in 0..(MaxSerial + 1)
      /\ serial' \in Serials => files'[serial'] = "none"
  <2>1. CASE S = {}
    BY Scan, <2>1, MaxSerialAssumption DEF Scan, Serials
  <2>2. CASE S # {}
    <3>1. \E s \in Serials : Top(s)
      BY <2>2, LargestSerial
    <3>2. \E s \in Serials : files'[s] # "none"
      BY <2>2
    <3>3. serial' = 1 + CHOOSE s \in Serials : Top(s)
      BY Scan, <3>2 DEF Scan
    <3>4. PICK s \in Serials : Top(s) /\ serial' = 1 + s
      BY <3>1, <3>3
    <3>5. s \in 0..MaxSerial
      BY DEF Serials
    <3>6. 1 + s \in Serials => files'[1 + s] = "none"
      BY <3>4, <3>5
    <3> QED
      BY <3>4, <3>5, <3>6, MaxSerialAssumption
  <2> QED
    BY <2>1, <2>2
<1>b. /\ files' \in [Names -> Content]
      /\ \A s \in Serials : files'[s] = files[s]
      /\ faults' \in 0..MaxFaults /\ late' \in BOOLEAN /\ hurt' \in BOOLEAN
      /\ hurt => hurt'
      /\ hurt' \/ files'[Dummy] = "none"
  <2>1. CASE Drop(Dummy) /\ UNCHANGED history
    <3>1. files' \in [Names -> Content] /\ files'[Dummy] = "none"
          /\ \A s \in Serials : files'[s] = files[s]
      BY IInv, <2>1, Sizes, DummyApart DEF Drop, Content
    <3> QED
      BY IInv, <2>1, <3>1 DEF IInv, TypeOK, history
  <2>2. CASE OnCard(Dummy) /\ Fault("glitch") /\ UNCHANGED files
    <3>1. Exposed
      BY Scan, <2>2 DEF Scan, Exposed
    <3> QED
      BY IInv, <2>2, <3>1, Sizes, FaultMeans DEF IInv
  <2> QED
    BY Scan, <2>1, <2>2 DEF Scan
<1>1. TypeOK'
  <2>1. entries' \subseteq Names /\ freeSpace' \in BOOLEAN
    BY Scan DEF Scan
  <2> QED
    BY IInv, Scan, <1>a, <1>b, <2>1 DEF IInv, TypeOK, Scan
<1>2. Counted'
  BY IInv, Scan
  DEF IInv, Counted, Replacing, Scan
<1>3. Whole'
  BY IInv, Scan
  DEF IInv, Whole, Titling, TypeOK, Names, Scan, Fault, Drop, history
<1>4. Request'
  BY IInv, Scan
  DEF IInv, Request, Scan
<1>5. Named'
  BY Scan, <1>a DEF Named, Scan, Saving, Replacing, Committing, Titling
<1>6. KeptUnlessHurt'
  <2>1. hurt' \/ (~hurt /\ Kept)
    BY IInv, <1>b DEF IInv, KeptUnlessHurt
  <2> QED
    BY Scan, <1>b, <2>1 DEF KeptUnlessHurt, Kept, SaveLoads, Scan, Titling
<1>7. Fits'
  <2>1. Used(files') <= Used(files)
    <3>1. CASE files' = files
      BY IInv, <3>1, Sizes
    <3>2. CASE files' = [files EXCEPT ![Dummy] = "none"]
      <4>1. Used(files') = IF files[Dummy] = "none" THEN Used(files) ELSE Used(files) - 1
        BY IInv, <3>2, UsedDrop, Sizes, DummyApart
      <4> QED
        BY IInv, <4>1, Sizes
    <3> QED
      BY Scan, <3>1, <3>2 DEF Scan, Drop
  <2>2. room' = room /\ Used(files') \in Nat
    BY Scan, UsedType DEF Scan
  <2> QED
    BY IInv, <2>1, <2>2, Sizes DEF Fits
<1>8. Told'
  BY IInv, Scan
  DEF IInv, Told, Saving, Replacing, Committing, Titling, Scan
<1>9. Chosen'
  BY IInv, Scan
  DEF IInv, Chosen, OnCard, Scan
<1> QED
  BY <1>1, <1>2, <1>3, <1>4, <1>5, <1>6, <1>7, <1>8, <1>9 DEF IInv

LEMMA CardChangedKeeps ==
  ASSUME IInv, CardChanged
  PROVE  IInv'
<1>1. TypeOK'
  BY IInv, CardChanged
  DEF IInv, TypeOK, CardChanged, card, bios, history
<1>2. Counted'
  BY IInv, CardChanged
  DEF IInv, Counted, Replacing, CardChanged
<1>3. Whole'
  BY IInv, CardChanged
  DEF IInv, Whole, Titling, CardChanged, card, history
<1>4. Request'
  BY IInv, CardChanged
  DEF IInv, Request, CardChanged, bios
<1>5. Named'
  BY IInv, CardChanged
  DEF IInv, Named, Saving, Replacing, Committing, Titling, CardChanged
<1>6. KeptUnlessHurt'
  BY IInv, CardChanged
  DEF IInv, KeptUnlessHurt, Kept, SaveLoads, Titling, CardChanged, card,
     history
<1>7. Fits'
  BY IInv, CardChanged
  DEF IInv, Fits, CardChanged, card
<1>8. Told'
  BY IInv, CardChanged
  DEF IInv, Told, Saving, Replacing, Committing, Titling, CardChanged
<1>9. Chosen'
  BY IInv, CardChanged
  DEF IInv, Chosen, CardChanged
<1> QED
  BY <1>1, <1>2, <1>3, <1>4, <1>5, <1>6, <1>7, <1>8, <1>9 DEF IInv

LEMMA OpenPromptKeeps ==
  ASSUME IInv, NEW r \in Names \cup {NewEntry}, OpenPrompt(r)
  PROVE  IInv'
<1>1. TypeOK'
  BY IInv, OpenPrompt(r)
  DEF IInv, TypeOK, OpenPrompt, card, history
<1>2. Counted'
  BY IInv, OpenPrompt(r)
  DEF IInv, Counted, Replacing, OpenPrompt
<1>3. Whole'
  BY IInv, OpenPrompt(r)
  DEF IInv, Whole, Titling, OpenPrompt, card, history
<1>4. Request'
  BY IInv, OpenPrompt(r)
  DEF IInv, Request, OpenPrompt
<1>5. Named'
  BY IInv, OpenPrompt(r)
  DEF IInv, Named, Saving, Replacing, Committing, Titling, OpenPrompt, card
<1>6. KeptUnlessHurt'
  BY IInv, OpenPrompt(r)
  DEF IInv, KeptUnlessHurt, Kept, SaveLoads, Titling, OpenPrompt, card,
     history
<1>7. Fits'
  BY IInv, OpenPrompt(r)
  DEF IInv, Fits, OpenPrompt, card
<1>8. Told'
  BY IInv, OpenPrompt(r)
  DEF IInv, Told, Saving, Replacing, Committing, Titling, OpenPrompt
<1>9. Chosen'
  BY IInv, OpenPrompt(r), NamesAssumption
  DEF IInv, Chosen, OnCard, TypeOK, OpenPrompt, card
<1> QED
  BY <1>1, <1>2, <1>3, <1>4, <1>5, <1>6, <1>7, <1>8, <1>9 DEF IInv

LEMMA PromptPollKeeps ==
  ASSUME IInv, PromptPoll
  PROVE  IInv'
<1>1. TypeOK'
  BY IInv, PromptPoll, ZenonT(30)
  DEF IInv, TypeOK, PromptPoll, Poll, card, history
<1>2. Counted'
  BY IInv, PromptPoll
  DEF IInv, Counted, Replacing, PromptPoll
<1>3. Whole'
  BY IInv, PromptPoll
  DEF IInv, Whole, Titling, PromptPoll, card, history
<1>4. Request'
  BY IInv, PromptPoll
  DEF IInv, Request, PromptPoll
<1>5. Named'
  BY IInv, PromptPoll
  DEF IInv, Named, Saving, Replacing, Committing, Titling, PromptPoll, card
<1>6. KeptUnlessHurt'
  BY IInv, PromptPoll
  DEF IInv, KeptUnlessHurt, Kept, SaveLoads, Titling, PromptPoll, card,
     history
<1>7. Fits'
  BY IInv, PromptPoll
  DEF IInv, Fits, PromptPoll, card
<1>8. Told'
  BY IInv, PromptPoll
  DEF IInv, Told, Saving, Replacing, Committing, Titling, PromptPoll
<1>9. Chosen'
  BY IInv, PromptPoll
  DEF IInv, Chosen, OnCard, PromptPoll, card
<1> QED
  BY <1>1, <1>2, <1>3, <1>4, <1>5, <1>6, <1>7, <1>8, <1>9 DEF IInv

LEMMA ConfirmKeeps ==
  ASSUME IInv, Confirm
  PROVE  IInv'
<1>1. TypeOK'
  BY IInv, Confirm
  DEF IInv, TypeOK, Confirm, card, bios, browser
<1>2. Counted'
  BY IInv, Confirm
  DEF IInv, Counted, Replacing, Confirm
<1>3. Whole'
  BY IInv, Confirm
  DEF IInv, Whole, Titling, Confirm, card
<1>4. Request'
  BY IInv, Confirm
  DEF IInv, Request, Confirm, bios
<1>5. Named'
  BY IInv, Confirm
  DEF IInv, Named, Saving, Replacing, Titling, TypeOK, Serials, Confirm, card,
     browser
<1>6. KeptUnlessHurt'
  BY IInv, Confirm
  DEF IInv, KeptUnlessHurt, Kept, SaveLoads, Titling, Confirm, card, browser
<1>7. Fits'
  BY IInv, Confirm
  DEF IInv, Fits, Confirm, card
<1>8. Told'
  BY IInv, Confirm
  DEF IInv, Told, Saving, Replacing, Committing, Titling, Confirm
<1>9. Chosen'
  BY IInv, Confirm
  DEF IInv, Chosen, OnCard, Confirm, card, browser
<1> QED
  BY <1>1, <1>2, <1>3, <1>4, <1>5, <1>6, <1>7, <1>8, <1>9 DEF IInv

LEMMA CancelKeeps ==
  ASSUME IInv, Cancel
  PROVE  IInv'
<1>1. TypeOK'
  BY IInv, Cancel
  DEF IInv, TypeOK, Cancel, card, bios, browser, history
<1>2. Counted'
  BY IInv, Cancel
  DEF IInv, Counted, Replacing, Cancel
<1>3. Whole'
  BY IInv, Cancel
  DEF IInv, Whole, Titling, Cancel, card, history
<1>4. Request'
  BY IInv, Cancel
  DEF IInv, Request, Cancel, bios
<1>5. Named'
  BY IInv, Cancel
  DEF IInv, Named, Saving, Replacing, Committing, Titling, Cancel, card,
     browser
<1>6. KeptUnlessHurt'
  BY IInv, Cancel
  DEF IInv, KeptUnlessHurt, Kept, SaveLoads, Titling, Cancel, card, browser,
     history
<1>7. Fits'
  BY IInv, Cancel
  DEF IInv, Fits, Cancel, card
<1>8. Told'
  BY IInv, Cancel
  DEF IInv, Told, Saving, Replacing, Committing, Titling, Cancel
<1>9. Chosen'
  BY IInv, Cancel
  DEF IInv, Chosen, OnCard, Cancel, card, browser
<1> QED
  BY <1>1, <1>2, <1>3, <1>4, <1>5, <1>6, <1>7, <1>8, <1>9 DEF IInv

LEMMA ShowSavedKeeps ==
  ASSUME IInv, ShowSaved
  PROVE  IInv'
<1>1. TypeOK'
  BY IInv, ShowSaved
  DEF IInv, TypeOK, ShowSaved, card, bios, browser, history
<1>2. Counted'
  BY IInv, ShowSaved
  DEF IInv, Counted, Replacing, ShowSaved
<1>3. Whole'
  BY IInv, ShowSaved
  DEF IInv, Whole, Titling, ShowSaved, card, browser, history
<1>4. Request'
  BY IInv, ShowSaved
  DEF IInv, Request, OnCard, ShowSaved, card, bios, browser
<1>5. Named'
  BY IInv, ShowSaved
  DEF IInv, Named, Saving, Replacing, Titling, ShowSaved, card, browser
<1>6. KeptUnlessHurt'
  BY IInv, ShowSaved
  DEF IInv, KeptUnlessHurt, Kept, SaveLoads, Titling, ShowSaved, card, bios,
     browser, history
<1>7. Fits'
  BY IInv, ShowSaved
  DEF IInv, Fits, ShowSaved, card
<1>8. Told'
  BY IInv, ShowSaved
  DEF IInv, Told, Saving, Replacing, Committing, Titling, ShowSaved
<1>9. Chosen'
  BY IInv, ShowSaved
  DEF IInv, Chosen, OnCard, ShowSaved, card, browser
<1> QED
  BY <1>1, <1>2, <1>3, <1>4, <1>5, <1>6, <1>7, <1>8, <1>9 DEF IInv

LEMMA DismissKeeps ==
  ASSUME IInv, Dismiss
  PROVE  IInv'
<1>1. TypeOK'
  BY IInv, Dismiss
  DEF IInv, TypeOK, Dismiss, card, bios, browser, history
<1>2. Counted'
  BY IInv, Dismiss
  DEF IInv, Counted, Replacing, Dismiss
<1>3. Whole'
  BY IInv, Dismiss
  DEF IInv, Whole, Titling, Dismiss, card, browser, history
<1>4. Request'
  BY IInv, Dismiss
  DEF IInv, Request, OnCard, Dismiss, card, bios, browser
<1>5. Named'
  BY IInv, Dismiss
  DEF IInv, Named, Saving, Replacing, Titling, Dismiss, card, browser
<1>6. KeptUnlessHurt'
  BY IInv, Dismiss
  DEF IInv, KeptUnlessHurt, Kept, SaveLoads, Titling, Dismiss, card, bios,
     browser, history
<1>7. Fits'
  BY IInv, Dismiss
  DEF IInv, Fits, Dismiss, card
<1>8. Told'
  BY IInv, Dismiss
  DEF IInv, Told, Saving, Replacing, Committing, Titling, Dismiss
<1>9. Chosen'
  BY IInv, Dismiss
  DEF IInv, Chosen, OnCard, Dismiss, card, browser
<1> QED
  BY <1>1, <1>2, <1>3, <1>4, <1>5, <1>6, <1>7, <1>8, <1>9 DEF IInv

LEMMA InitRetriesKeeps ==
  ASSUME IInv, InitRetries
  PROVE  IInv'
<1>1. TypeOK'
  BY IInv, InitRetries, RetriesAssumption
  DEF IInv, TypeOK, InitRetries, StartOfCreate, card, bios, browser, history
<1>2. Counted'
  BY IInv, InitRetries, RetriesAssumption
  DEF IInv, Counted, Replacing, InitRetries
<1>3. Whole'
  BY IInv, InitRetries
  DEF IInv, Whole, Titling, InitRetries, StartOfCreate, card, history
<1>4. Request'
  BY IInv, InitRetries
  DEF IInv, Request, InitRetries, StartOfCreate, bios, browser
<1>5. Named'
  BY IInv, InitRetries
  DEF IInv, Named, Saving, Replacing, Titling, InitRetries, StartOfCreate,
     card, browser
<1>6. KeptUnlessHurt'
  BY IInv, InitRetries
  DEF IInv, KeptUnlessHurt, Kept, SaveLoads, Titling, InitRetries,
     StartOfCreate, card, browser, history
<1>7. Fits'
  BY IInv, InitRetries
  DEF IInv, Fits, InitRetries, card
<1>8. Told'
  BY IInv, InitRetries
  DEF IInv, Told, Saving, Replacing, Committing, Titling, InitRetries,
     StartOfCreate
<1>9. Chosen'
  BY IInv, InitRetries
  DEF IInv, Chosen, OnCard, InitRetries, StartOfCreate, card, browser
<1> QED
  BY <1>1, <1>2, <1>3, <1>4, <1>5, <1>6, <1>7, <1>8, <1>9 DEF IInv

LEMMA EraseFirstKeeps ==
  ASSUME IInv, EraseFirst
  PROVE  IInv'
<1>1. TypeOK'
  <2>1. files' \in [Names -> Content]
    BY IInv, EraseFirst, DummyApart
    DEF IInv, TypeOK, Content, OnCard, EraseFirst, Erase, Works, Fails, Drop
  <2>2. faults' \in 0..MaxFaults /\ late' \in BOOLEAN /\ hurt' \in BOOLEAN
    <3>1. UNCHANGED history \/ Fault("pull") \/ Fault("reset") \/ Fault("glitch")
      BY EraseFirst
      DEF EraseFirst, Erase, Works, Fails
    <3> QED
      BY IInv, <3>1, HistoryKept DEF IInv
  <2>3. events' \subseteq {"complete", "error", "timeout", "new"}
    BY IInv, EraseFirst
    DEF IInv, TypeOK, EraseFirst, Erase, Works, Fails
  <2>4. at' \in {"scan", "idle", "prompt", "init", "erase_first", "open",
                 "write", "poll", "undo"} \cup Committing
    BY IInv, EraseFirst
    DEF IInv, TypeOK, Committing, EraseFirst, Erase, Works, Fails, Again
  <2>5. retries' \in 0..Retries /\ tries' \in 0..(Attempts - 1)
    BY IInv, EraseFirst, RetriesAssumption, AttemptsAssumption
    DEF IInv, TypeOK, Counted, Replacing, EraseFirst, Erase, Works, Fails,
       Again
  <2>6. /\ writing' \in BOOLEAN
        /\ window' \in {"none", "prompt", "progress", "saved", "failed"}
    BY IInv, EraseFirst
    DEF IInv, TypeOK, EraseFirst, Erase, Works, Fails, Again
  <2>7. UNCHANGED <<room, freeSpace, serial>>
    BY EraseFirst
    DEF EraseFirst, browser, history
  <2>8. /\ slot' \in {"in", "out", "new"} /\ io' \in {"none", "info", "write"}
       /\ frame' \in {"sector", "junk"} /\ entries' \subseteq Names
       /\ row' \in Names \cup {NewEntry, NoRow}
    BY IInv, EraseFirst
    DEF IInv, TypeOK, EraseFirst, browser
  <2> QED
    BY IInv, <2>1, <2>2, <2>3, <2>4, <2>5, <2>6, <2>7, <2>8
    DEF IInv, TypeOK
<1>2. Counted'
  BY IInv, EraseFirst
  DEF IInv, Counted, Replacing, EraseFirst
<1>3. Whole'
  BY IInv, EraseFirst
  DEF IInv, Whole, Titling, TypeOK, Names, EraseFirst, Erase, Works, Fails,
     Again, Drop, history, Fault
<1>4. Request'
  BY IInv, EraseFirst
  DEF IInv, Request, EraseFirst, Erase, Again, browser
<1>5. Named'
  BY IInv, EraseFirst
  DEF IInv, Named, Saving, Replacing, Titling, TypeOK, Names, EraseFirst,
     Erase, Fails, Again, Drop, browser
<1>6. KeptUnlessHurt'
  <2> SUFFICES ASSUME ~hurt' PROVE Kept'
    BY DEF KeptUnlessHurt
  <2>1. ~hurt /\ Kept
    <3>1. UNCHANGED history \/ Fault("pull") \/ Fault("reset") \/ Fault("glitch")
      BY EraseFirst
      DEF EraseFirst, Erase, Works, Fails
    <3> QED
      BY IInv, <3>1, HistoryKept DEF IInv, KeptUnlessHurt
  <2>2. CASE Fails(OnCard(row)) /\ Again("open")
    <3>1. files' = files
      BY <2>2 DEF Fails
    <3> QED
      BY IInv, EraseFirst, <2>2, <2>1, <3>1
      DEF IInv, Request, Kept, SaveLoads, Titling, EraseFirst, Again, browser
  <2>3. CASE Works(OnCard(row)) /\ Drop(row) /\ at' = "open"
    <3>1. row \in Names /\ row # Dummy /\ files[row] # "none"
      BY EraseFirst, IInv, <2>3, <2>1 DEF Works, OnCard, IInv, Request, Kept, EraseFirst
    <3>2. Used(files') < room
      <4>1. Used(files') = IF files[row] = "none" THEN Used(files) ELSE Used(files) - 1
        BY IInv, <2>3, <3>1, UsedDrop, Sizes DEF Drop
      <4> QED
        BY IInv, <3>1, <4>1, Sizes
    <3>3. files'[Dummy] = "none" /\ slot = "in"
      BY IInv, EraseFirst, <2>3, <2>1, <3>1, Sizes, DummyApart
      DEF IInv, Request, Kept, Drop, Works, EraseFirst
    <3> QED
      BY IInv, EraseFirst, <2>3, <3>2, <3>3
      DEF IInv, Request, Kept, SaveLoads, Titling, EraseFirst, browser
  <2> QED
    BY EraseFirst, <2>2, <2>3
    DEF EraseFirst, Erase
<1>7. Fits'
  <2>1. CASE files' = files
    BY IInv, EraseFirst, <2>1 DEF IInv, Fits, EraseFirst
  <2>2. CASE row \in Names /\ files' = [files EXCEPT ![row] = "none"]
    <3>1. Used(files') = IF files[row] = "none" THEN Used(files) ELSE Used(files) - 1
      BY IInv, <2>2, UsedDrop, Sizes
    <3>2. room' = room
      BY EraseFirst DEF EraseFirst
    <3> QED
      BY IInv, <3>1, <3>2, Sizes DEF Fits
  <2> QED
    BY EraseFirst, <2>1, <2>2 DEF EraseFirst, Erase, Works, Fails, Drop, OnCard
<1>8. Told'
  BY IInv, EraseFirst
  DEF IInv, Told, Saving, Replacing, Committing, Titling, EraseFirst, Erase,
     Again
<1>9. Chosen'
  BY IInv, EraseFirst, DummyApart
  DEF IInv, Chosen, TypeOK, Request, EraseFirst, Erase, Again, browser
<1> QED
  BY <1>1, <1>2, <1>3, <1>4, <1>5, <1>6, <1>7, <1>8, <1>9 DEF IInv

LEMMA CreateKeeps ==
  ASSUME IInv, Create
  PROVE  IInv'
<1>1. TypeOK'
  <2>1. files' \in [Names -> Content]
    BY IInv, Create, DummyApart
    DEF IInv, TypeOK, Content, OnCard, Create, Works, Fails
  <2>2. faults' \in 0..MaxFaults /\ late' \in BOOLEAN /\ hurt' \in BOOLEAN
    <3>1. UNCHANGED history \/ Fault("pull") \/ Fault("reset") \/ Fault("glitch")
      BY Create
      DEF Create, Works, Fails
    <3> QED
      BY IInv, <3>1, HistoryKept DEF IInv
  <2>3. events' \subseteq {"complete", "error", "timeout", "new"}
    BY IInv, Create
    DEF IInv, TypeOK, Create, Works, Fails
  <2>4. at' \in {"scan", "idle", "prompt", "init", "erase_first", "open",
                 "write", "poll", "undo"} \cup Committing
    BY IInv, Create
    DEF IInv, TypeOK, Committing, Create, Works, Fails, RetryOrGiveUp,
       StartOfCreate, GiveUp
  <2>5. retries' \in 0..Retries /\ tries' \in 0..(Attempts - 1)
    BY IInv, Create, RetriesAssumption, AttemptsAssumption
    DEF IInv, TypeOK, Counted, Replacing, Create, Works, Fails, RetryOrGiveUp,
       StartOfCreate, GiveUp
  <2>6. /\ writing' \in BOOLEAN
        /\ window' \in {"none", "prompt", "progress", "saved", "failed"}
    BY IInv, Create
    DEF IInv, TypeOK, Create, Works, Fails, RetryOrGiveUp, StartOfCreate,
       GiveUp
  <2>7. UNCHANGED <<room, freeSpace, serial>>
    BY Create
    DEF Create, browser, history
  <2>8. /\ slot' \in {"in", "out", "new"} /\ io' \in {"none", "info", "write"}
       /\ frame' \in {"sector", "junk"} /\ entries' \subseteq Names
       /\ row' \in Names \cup {NewEntry, NoRow}
    BY IInv, Create
    DEF IInv, TypeOK, Create, browser
  <2> QED
    BY IInv, <2>1, <2>2, <2>3, <2>4, <2>5, <2>6, <2>7, <2>8
    DEF IInv, TypeOK
<1>2. Counted'
  BY IInv, Create
  DEF IInv, Counted, Replacing, TypeOK, Create, RetryOrGiveUp, GiveUp
<1>3. Whole'
  BY IInv, Create, DummyApart
  DEF IInv, Whole, Titling, TypeOK, Create, Works, Fails, RetryOrGiveUp,
     StartOfCreate, GiveUp, history, Fault
<1>4. Request'
  BY IInv, Create
  DEF IInv, Request, OnCard, TypeOK, Names, Create, RetryOrGiveUp,
     StartOfCreate, GiveUp, browser
<1>5. Named'
  BY IInv, Create, DummyApart
  DEF IInv, Named, Saving, Replacing, Titling, TypeOK, Create, Fails,
     RetryOrGiveUp, StartOfCreate, GiveUp, browser
<1>6. KeptUnlessHurt'
  <2> SUFFICES ASSUME ~hurt' PROVE Kept'
    BY DEF KeptUnlessHurt
  <2>1. ~hurt /\ Kept
    <3>1. UNCHANGED history \/ Fault("pull") \/ Fault("reset") \/ Fault("glitch")
      BY Create
      DEF Create, Works, Fails
    <3> QED
      BY IInv, <3>1, HistoryKept DEF IInv, KeptUnlessHurt
  <2>2. CASE Fails(CanCreate) /\ RetryOrGiveUp
    <3>1. files' = files /\ (slot # "in" \/ ~CanCreate \/ ~Exposed)
      BY IInv, <2>2, FaultMeans DEF IInv, Fails
    <3> QED
      BY IInv, Create, <2>2, <2>1, <3>1, DummyApart
      DEF IInv, TypeOK, Fits, Exposed, Kept, SaveLoads, Titling, CanCreate, OnCard,
         Create, RetryOrGiveUp, StartOfCreate, GiveUp, browser
  <2>3. CASE /\ Works(CanCreate)
             /\ files' = [files EXCEPT ![Dummy] = "empty"]
             /\ at' = "write"
    <3>1. slot = "in" /\ \A s \in Serials : files'[s] = files[s]
      BY IInv, <2>3, Sizes, DummyApart DEF Works
    <3> QED
      BY IInv, Create, <2>3, <2>1, <3>1 DEF Kept, SaveLoads, Titling, Create, browser
  <2> QED
    BY Create, <2>2, <2>3
    DEF Create
<1>7. Fits'
  <2>1. CASE files' = files
    BY IInv, Create, <2>1 DEF IInv, Fits, Create
  <2>2. CASE CanCreate /\ files' = [files EXCEPT ![Dummy] = "empty"]
    <3>1. files[Dummy] = "none" /\ Used(files) < room
      BY <2>2, DummyApart DEF CanCreate, OnCard
    <3>2. Used(files') = Used(files) + 1
      BY IInv, <2>2, <3>1, UsedAdd, Sizes, DummyApart DEF Content
    <3>3. room' = room
      BY Create DEF Create
    <3> QED
      BY IInv, <3>1, <3>2, <3>3, Sizes DEF Fits
  <2> QED
    BY Create, <2>1, <2>2 DEF Create, Works, Fails
<1>8. Told'
  BY IInv, Create
  DEF IInv, Told, Saving, Replacing, Committing, Titling, Create,
     RetryOrGiveUp, StartOfCreate, GiveUp
<1>9. Chosen'
  BY IInv, Create
  DEF IInv, Chosen, OnCard, Create, CanCreate, Works, Fails, RetryOrGiveUp,
     StartOfCreate, GiveUp, browser
<1> QED
  BY <1>1, <1>2, <1>3, <1>4, <1>5, <1>6, <1>7, <1>8, <1>9 DEF IInv

LEMMA StartWriteKeeps ==
  ASSUME IInv, StartWrite
  PROVE  IInv'
<1>1. TypeOK'
  <2>1. files' \in [Names -> Content]
    BY IInv, StartWrite, DummyApart
    DEF IInv, TypeOK, Content, OnCard, StartWrite, Fails, EventsAtWrite
  <2>2. faults' \in 0..MaxFaults /\ late' \in BOOLEAN /\ hurt' \in BOOLEAN
    <3>1. UNCHANGED history \/ Fault("pull") \/ Fault("reset") \/ Fault("glitch")
      BY StartWrite
      DEF StartWrite, Fails
    <3> QED
      BY IInv, <3>1, HistoryKept DEF IInv
  <2>3. events' \subseteq {"complete", "error", "timeout", "new"}
    BY IInv, StartWrite
    DEF IInv, TypeOK, StartWrite, Fails, EventsAtWrite
  <2>4. at' \in {"scan", "idle", "prompt", "init", "erase_first", "open",
                 "write", "poll", "undo"} \cup Committing
    BY IInv, StartWrite
    DEF IInv, TypeOK, Committing, StartWrite, Fails, EventsAtWrite
  <2>5. retries' \in 0..Retries /\ tries' \in 0..(Attempts - 1)
    BY IInv, StartWrite, RetriesAssumption, AttemptsAssumption
    DEF IInv, TypeOK, Counted, Replacing, StartWrite, Fails, EventsAtWrite
  <2>6. /\ writing' \in BOOLEAN
        /\ window' \in {"none", "prompt", "progress", "saved", "failed"}
    BY IInv, StartWrite
    DEF IInv, TypeOK, StartWrite, Fails, EventsAtWrite
  <2>7. UNCHANGED <<room, freeSpace, serial>>
    BY StartWrite
    DEF StartWrite, browser, history
  <2>8. /\ slot' \in {"in", "out", "new"} /\ io' \in {"none", "info", "write"}
       /\ frame' \in {"sector", "junk"} /\ entries' \subseteq Names
       /\ row' \in Names \cup {NewEntry, NoRow}
    BY IInv, StartWrite
    DEF IInv, TypeOK, StartWrite, browser
  <2> QED
    BY IInv, <2>1, <2>2, <2>3, <2>4, <2>5, <2>6, <2>7, <2>8
    DEF IInv, TypeOK
<1>2. Counted'
  BY IInv, StartWrite
  DEF IInv, Counted, Replacing, StartWrite
<1>3. Whole'
  BY IInv, StartWrite, DummyApart
  DEF IInv, Whole, Titling, TypeOK, StartWrite, Fails, history, Fault
<1>4. Request'
  BY IInv, StartWrite
  DEF IInv, Request, OnCard, TypeOK, StartWrite, EventsAtWrite, Fails
<1>5. Named'
  BY IInv, StartWrite
  DEF IInv, Named, Saving, Replacing, Titling, TypeOK, Names, StartWrite,
     Fails, browser, OnCard
<1>6. KeptUnlessHurt'
  <2> SUFFICES ASSUME ~hurt' PROVE Kept'
    BY DEF KeptUnlessHurt
  <2>1. ~hurt /\ Kept
    <3>1. UNCHANGED history \/ Fault("pull") \/ Fault("reset") \/ Fault("glitch")
      BY StartWrite
      DEF StartWrite, Fails
    <3> QED
      BY IInv, <3>1, HistoryKept DEF IInv, KeptUnlessHurt
  <2>2. CASE Fails(OnCard(Dummy)) /\ at' = "undo"
    <3>1. files' = files /\ (slot # "in" \/ ~OnCard(Dummy) \/ ~Exposed)
      BY IInv, <2>2, FaultMeans DEF IInv, Fails
    <3> QED
      BY IInv, StartWrite, <2>2, <2>1, <3>1
      DEF IInv, TypeOK, Request, Exposed, Kept, SaveLoads, Titling, OnCard, StartWrite,
         browser
  <2>3. CASE /\ slot = "in"
             /\ files' = [files EXCEPT ![Dummy] = "partial"]
             /\ events' = {}
             /\ at' = "poll"
    <3>1. \A s \in Serials : files'[s] = files[s]
      BY IInv, <2>3, Sizes, DummyApart
    <3> QED
      BY IInv, StartWrite, <2>3, <2>1, <3>1
      DEF Kept, SaveLoads, Titling, StartWrite, browser
  <2> QED
    BY StartWrite, <2>2, <2>3
    DEF StartWrite, EventsAtWrite
<1>7. Fits'
  <2>1. CASE files' = files
    BY IInv, StartWrite, <2>1 DEF IInv, Fits, StartWrite
  <2>2. CASE files' = [files EXCEPT ![Dummy] = "partial"]
    <3>1. Dummy \in Names /\ files[Dummy] # "none"
      BY IInv, StartWrite, <2>2, DummyApart DEF IInv, Request, OnCard, StartWrite
    <3>2. Used(files') = Used(files)
      BY IInv, <2>2, <3>1, UsedSame, Sizes DEF Content
    <3>3. room' = room
      BY StartWrite DEF StartWrite
    <3> QED
      BY IInv, <3>2, <3>3, Sizes DEF Fits
  <2> QED
    BY StartWrite, <2>1, <2>2 DEF StartWrite, Fails
<1>8. Told'
  BY IInv, StartWrite
  DEF IInv, Told, Saving, Replacing, Committing, Titling, StartWrite
<1>9. Chosen'
  BY IInv, StartWrite
  DEF IInv, Chosen, StartWrite, browser
<1> QED
  BY <1>1, <1>2, <1>3, <1>4, <1>5, <1>6, <1>7, <1>8, <1>9 DEF IInv

LEMMA PollWriteKeeps ==
  ASSUME IInv, PollWrite
  PROVE  IInv'
<1>1. TypeOK'
  BY IInv, PollWrite, FirstEventIs, ZenonT(30)
  DEF IInv, TypeOK, Told, Saving, Replacing, Committing, Titling, PollWrite,
     Poll, card, browser, history
<1>2. Counted'
  BY IInv, PollWrite, FirstEventIs
  DEF IInv, Counted, Replacing, PollWrite
<1>3. Whole'
  BY IInv, PollWrite, FirstEventIs
  DEF IInv, Whole, Titling, PollWrite, card, history
<1>4. Request'
  BY IInv, PollWrite, FirstEventIs
  DEF IInv, Request, OnCard, TypeOK, PollWrite, Poll, WriteSucceeded, card,
     browser
<1>5. Named'
  BY IInv, PollWrite, FirstEventIs
  DEF IInv, Named, Saving, Replacing, Titling, PollWrite, card, browser
<1>6. KeptUnlessHurt'
  <2> SUFFICES ASSUME ~hurt' PROVE Kept'
    BY DEF KeptUnlessHurt
  <2>1. ~hurt /\ Kept /\ UNCHANGED files
    BY IInv, PollWrite DEF IInv, KeptUnlessHurt, PollWrite, history, card
  <2>2. /\ at' = IF "complete" \notin events THEN "undo"
                 ELSE IF freeSpace THEN "erase_old" ELSE "rename"
        /\ events # {} /\ events' \subseteq events
    BY IInv, PollWrite, FirstEventIs DEF IInv, TypeOK, PollWrite, Poll, WriteSucceeded
  <2> QED
    BY IInv, PollWrite, <2>1, <2>2
    DEF IInv, Request, Kept, SaveLoads, Titling, PollWrite, card, browser
<1>7. Fits'
  BY IInv, PollWrite, FirstEventIs
  DEF IInv, Fits, PollWrite, card
<1>8. Told'
  BY IInv, PollWrite, DummyApart, FirstEventIs
  DEF IInv, Told, Saving, Replacing, Committing, Titling, TypeOK, Request,
     PollWrite, Poll, WriteSucceeded, card, history
<1>9. Chosen'
  BY IInv, PollWrite, FirstEventIs
  DEF IInv, Chosen, PollWrite, browser
<1> QED
  BY <1>1, <1>2, <1>3, <1>4, <1>5, <1>6, <1>7, <1>8, <1>9 DEF IInv

LEMMA UndoKeeps ==
  ASSUME IInv, Undo
  PROVE  IInv'
<1>1. TypeOK'
  <2>1. files' \in [Names -> Content]
    BY IInv, Undo, DummyApart
    DEF IInv, TypeOK, Content, OnCard, Undo, Works, Fails, Drop
  <2>2. faults' \in 0..MaxFaults /\ late' \in BOOLEAN /\ hurt' \in BOOLEAN
    <3>1. UNCHANGED history \/ Fault("pull") \/ Fault("reset") \/ Fault("glitch")
      BY Undo
      DEF Undo, Works, Fails
    <3> QED
      BY IInv, <3>1, HistoryKept DEF IInv
  <2>3. events' \subseteq {"complete", "error", "timeout", "new"}
    BY IInv, Undo
    DEF IInv, TypeOK, Undo, Works, Fails
  <2>4. at' \in {"scan", "idle", "prompt", "init", "erase_first", "open",
                 "write", "poll", "undo"} \cup Committing
    BY IInv, Undo
    DEF IInv, TypeOK, Committing, Undo, Works, Fails, RetryOrGiveUp,
       StartOfCreate, GiveUp
  <2>5. retries' \in 0..Retries /\ tries' \in 0..(Attempts - 1)
    BY IInv, Undo, RetriesAssumption, AttemptsAssumption
    DEF IInv, TypeOK, Counted, Replacing, Undo, Works, Fails, RetryOrGiveUp,
       StartOfCreate, GiveUp
  <2>6. /\ writing' \in BOOLEAN
        /\ window' \in {"none", "prompt", "progress", "saved", "failed"}
    BY IInv, Undo
    DEF IInv, TypeOK, Undo, Works, Fails, RetryOrGiveUp, StartOfCreate, GiveUp
  <2>7. UNCHANGED <<room, freeSpace, serial>>
    BY Undo
    DEF Undo, browser, history
  <2>8. /\ slot' \in {"in", "out", "new"} /\ io' \in {"none", "info", "write"}
       /\ frame' \in {"sector", "junk"} /\ entries' \subseteq Names
       /\ row' \in Names \cup {NewEntry, NoRow}
    BY IInv, Undo
    DEF IInv, TypeOK, Undo, browser
  <2> QED
    BY IInv, <2>1, <2>2, <2>3, <2>4, <2>5, <2>6, <2>7, <2>8
    DEF IInv, TypeOK
<1>2. Counted'
  BY IInv, Undo
  DEF IInv, Counted, Replacing, TypeOK, Undo, RetryOrGiveUp, GiveUp
<1>3. Whole'
  BY IInv, Undo
  DEF IInv, Whole, Titling, TypeOK, Names, Undo, Works, Fails, RetryOrGiveUp,
     StartOfCreate, GiveUp, Drop, history, Fault
<1>4. Request'
  BY IInv, Undo
  DEF IInv, Request, OnCard, Undo, Fails, RetryOrGiveUp, StartOfCreate,
     GiveUp, browser
<1>5. Named'
  BY IInv, Undo
  DEF IInv, Named, Saving, Replacing, Titling, TypeOK, Names, Undo, Fails,
     RetryOrGiveUp, StartOfCreate, GiveUp, Drop, browser
<1>6. KeptUnlessHurt'
  <2> SUFFICES ASSUME ~hurt' PROVE Kept'
    BY DEF KeptUnlessHurt
  <2>1. ~hurt /\ Kept
    <3>1. UNCHANGED history \/ Fault("pull") \/ Fault("reset") \/ Fault("glitch")
      BY Undo
      DEF Undo, Works, Fails
    <3> QED
      BY IInv, <3>1, HistoryKept DEF IInv, KeptUnlessHurt
  <2>2. CASE files' = files
      BY IInv, Undo, <2>2, <2>1
      DEF Kept, SaveLoads, Titling, Undo, RetryOrGiveUp, StartOfCreate, GiveUp, browser
  <2>3. CASE files' # files
    <3>1. /\ Drop(Dummy) /\ RetryOrGiveUp
          /\ UNCHANGED <<slot, browser>>
      BY Undo, <2>3 DEF Undo, Fails
    <3>2. \A s \in Serials : files'[s] = files[s]
      BY IInv, <3>1, Sizes, DummyApart DEF Drop
    <3> QED
      BY IInv, Undo, <2>1, <3>1, <3>2
      DEF Kept, SaveLoads, Titling, Undo, RetryOrGiveUp, StartOfCreate, GiveUp, browser
  <2> QED
    BY Undo, <2>2, <2>3
    DEF Undo
<1>7. Fits'
  <2>1. CASE files' = files
    BY IInv, Undo, <2>1 DEF IInv, Fits, Undo
  <2>2. CASE Dummy \in Names /\ files' = [files EXCEPT ![Dummy] = "none"]
    <3>1. Used(files') = IF files[Dummy] = "none" THEN Used(files) ELSE Used(files) - 1
      BY IInv, <2>2, UsedDrop, Sizes
    <3>2. room' = room
      BY Undo DEF Undo
    <3> QED
      BY IInv, <3>1, <3>2, Sizes DEF Fits
  <2> QED
    BY Undo, <2>1, <2>2 DEF Undo, Works, Fails, Drop, OnCard
<1>8. Told'
  BY IInv, Undo
  DEF IInv, Told, Saving, Replacing, Committing, Titling, Undo, RetryOrGiveUp,
     StartOfCreate, GiveUp
<1>9. Chosen'
  BY IInv, Undo
  DEF IInv, Chosen, Undo, RetryOrGiveUp, StartOfCreate, GiveUp, browser
<1> QED
  BY <1>1, <1>2, <1>3, <1>4, <1>5, <1>6, <1>7, <1>8, <1>9 DEF IInv

LEMMA EraseOldKeeps ==
  ASSUME IInv, EraseOld
  PROVE  IInv'
<1>1. TypeOK'
  <2>1. files' \in [Names -> Content]
    BY IInv, EraseOld, DummyApart
    DEF IInv, TypeOK, Content, OnCard, EraseOld, Erase, Works, Fails, Drop
  <2>2. faults' \in 0..MaxFaults /\ late' \in BOOLEAN /\ hurt' \in BOOLEAN
    <3>1. UNCHANGED history \/ Fault("pull") \/ Fault("reset") \/ Fault("glitch")
      BY EraseOld
      DEF EraseOld, Erase, Works, Fails
    <3> QED
      BY IInv, <3>1, HistoryKept DEF IInv
  <2>3. events' \subseteq {"complete", "error", "timeout", "new"}
    BY IInv, EraseOld
    DEF IInv, TypeOK, EraseOld, Erase, Works, Fails
  <2>4. at' \in {"scan", "idle", "prompt", "init", "erase_first", "open",
                 "write", "poll", "undo"} \cup Committing
    BY IInv, EraseOld
    DEF IInv, TypeOK, Committing, EraseOld, Erase, Works, Fails, Again
  <2>5. retries' \in 0..Retries /\ tries' \in 0..(Attempts - 1)
    BY IInv, EraseOld, RetriesAssumption, AttemptsAssumption
    DEF IInv, TypeOK, Counted, Replacing, EraseOld, Erase, Works, Fails, Again
  <2>6. /\ writing' \in BOOLEAN
        /\ window' \in {"none", "prompt", "progress", "saved", "failed"}
    BY IInv, EraseOld
    DEF IInv, TypeOK, EraseOld, Erase, Works, Fails, Again
  <2>7. UNCHANGED <<room, freeSpace, serial>>
    BY EraseOld
    DEF EraseOld, browser, history
  <2>8. /\ slot' \in {"in", "out", "new"} /\ io' \in {"none", "info", "write"}
       /\ frame' \in {"sector", "junk"} /\ entries' \subseteq Names
       /\ row' \in Names \cup {NewEntry, NoRow}
    BY IInv, EraseOld
    DEF IInv, TypeOK, EraseOld, browser
  <2> QED
    BY IInv, <2>1, <2>2, <2>3, <2>4, <2>5, <2>6, <2>7, <2>8
    DEF IInv, TypeOK
<1>2. Counted'
  BY IInv, EraseOld
  DEF IInv, Counted, Replacing, EraseOld, Erase, Again
<1>3. Whole'
  BY IInv, EraseOld
  DEF IInv, Whole, Titling, TypeOK, Names, EraseOld, Erase, Works, Fails,
     Again, Drop, history, Fault
<1>4. Request'
  BY IInv, EraseOld
  DEF IInv, Request, TypeOK, Names, EraseOld, Erase, Fails, Again, Drop,
     browser
<1>5. Named'
  BY IInv, EraseOld
  DEF IInv, Named, Saving, Replacing, Titling, TypeOK, Names, EraseOld, Erase,
     Fails, Again, Drop, browser
<1>6. KeptUnlessHurt'
  BY IInv, EraseOld, DummyApart
  DEF IInv, KeptUnlessHurt, Kept, SaveLoads, Titling, TypeOK, Request,
     EraseOld, Erase, Works, Fails, Again, Drop, history, Fault
<1>7. Fits'
  <2>1. CASE files' = files
    BY IInv, EraseOld, <2>1 DEF IInv, Fits, EraseOld
  <2>2. CASE row \in Names /\ files' = [files EXCEPT ![row] = "none"]
    <3>1. Used(files') = IF files[row] = "none" THEN Used(files) ELSE Used(files) - 1
      BY IInv, <2>2, UsedDrop, Sizes
    <3>2. room' = room
      BY EraseOld DEF EraseOld
    <3> QED
      BY IInv, <3>1, <3>2, Sizes DEF Fits
  <2> QED
    BY EraseOld, <2>1, <2>2 DEF EraseOld, Erase, Works, Fails, Drop, OnCard
<1>8. Told'
  <2>1. CASE Fails(OnCard(row)) /\ Again("rename")
    <3>1. files' = files /\ (late => late')
      BY IInv, <2>1, HistoryKept DEF IInv, Fails
    <3>2. late' \/ (~late /\ slot = "in" /\ files[Dummy] = "bad")
      BY IInv, EraseOld, <3>1 DEF IInv, Told, Request, Committing, EraseOld
    <3> QED
      BY IInv, EraseOld, <2>1, <3>1, <3>2
      DEF IInv, Told, Saving, Replacing, Committing, Titling, EraseOld, Again, browser
  <2>2. CASE Works(OnCard(row)) /\ Drop(row) /\ at' = "rename"
    <3>1. row # Dummy /\ files'[Dummy] = files[Dummy]
      BY IInv, EraseOld, <2>2, Sizes, DummyApart
      DEF IInv, Chosen, Request, Drop, EraseOld
    <3> QED
      BY IInv, EraseOld, <2>2, <3>1
      DEF IInv, Told, Request, Saving, Replacing, Committing, Titling, Works, EraseOld,
         browser, history
  <2> QED
    BY EraseOld, <2>1, <2>2 DEF EraseOld, Erase
<1>9. Chosen'
  BY IInv, EraseOld
  DEF IInv, Chosen, EraseOld, Erase, Again, browser
<1> QED
  BY <1>1, <1>2, <1>3, <1>4, <1>5, <1>6, <1>7, <1>8, <1>9 DEF IInv

LEMMA RenameKeeps ==
  ASSUME IInv, Rename
  PROVE  IInv'
<1>1. TypeOK'
  <2>1. files' \in [Names -> Content]
    BY IInv, Rename, DummyApart
    DEF IInv, TypeOK, Content, OnCard, Rename, Works, Fails
  <2>2. faults' \in 0..MaxFaults /\ late' \in BOOLEAN /\ hurt' \in BOOLEAN
    <3>1. UNCHANGED history \/ Fault("pull") \/ Fault("reset") \/ Fault("glitch")
      BY Rename
      DEF Rename, Works, Fails
    <3> QED
      BY IInv, <3>1, HistoryKept DEF IInv
  <2>3. events' \subseteq {"complete", "error", "timeout", "new"}
    BY IInv, Rename
    DEF IInv, TypeOK, Rename, Works, Fails
  <2>4. at' \in {"scan", "idle", "prompt", "init", "erase_first", "open",
                 "write", "poll", "undo"} \cup Committing
    BY IInv, Rename
    DEF IInv, TypeOK, Committing, Rename, Works, Fails, Again
  <2>5. retries' \in 0..Retries /\ tries' \in 0..(Attempts - 1)
    BY IInv, Rename, RetriesAssumption, AttemptsAssumption
    DEF IInv, TypeOK, Counted, Replacing, Rename, Works, Fails, Again
  <2>6. /\ writing' \in BOOLEAN
        /\ window' \in {"none", "prompt", "progress", "saved", "failed"}
    BY IInv, Rename
    DEF IInv, TypeOK, Rename, Works, Fails, Again
  <2>7. UNCHANGED <<room, freeSpace, serial>>
    BY Rename
    DEF Rename, browser, history
  <2>8. /\ slot' \in {"in", "out", "new"} /\ io' \in {"none", "info", "write"}
       /\ frame' \in {"sector", "junk"} /\ entries' \subseteq Names
       /\ row' \in Names \cup {NewEntry, NoRow}
    BY IInv, Rename
    DEF IInv, TypeOK, Rename, browser
  <2> QED
    BY IInv, <2>1, <2>2, <2>3, <2>4, <2>5, <2>6, <2>7, <2>8
    DEF IInv, TypeOK
<1>2. Counted'
  BY IInv, Rename
  DEF IInv, Counted, Replacing, Rename, Again
<1>3. Whole'
  BY IInv, Rename, DummyApart
  DEF IInv, Whole, Titling, TypeOK, Request, Rename, Works, Fails, Again,
     browser, history, Fault
<1>4. Request'
  BY IInv, Rename
  DEF IInv, Request, Rename, Fails, Again
<1>5. Named'
  BY IInv, Rename, DummyApart
  DEF IInv, Named, Saving, Replacing, Titling, TypeOK, Request, Rename, Fails,
     Again, browser
<1>6. KeptUnlessHurt'
  <2> SUFFICES ASSUME ~hurt' PROVE Kept'
    BY DEF KeptUnlessHurt
  <2>1. ~hurt /\ Kept
    <3>1. UNCHANGED history \/ Fault("pull") \/ Fault("reset") \/ Fault("glitch")
      BY Rename
      DEF Rename, Works, Fails
    <3> QED
      BY IInv, <3>1, HistoryKept DEF IInv, KeptUnlessHurt
  <2>2. CASE Fails(CanRename) /\ Again("find")
    <3>1. files' = files /\ (slot # "in" \/ ~CanRename \/ ~Exposed)
      BY IInv, <2>2, FaultMeans DEF IInv, Fails
    <3> QED
      BY IInv, Rename, <2>2, <2>1, <3>1, DummyApart
      DEF IInv, TypeOK, Request, Named, Saving, Committing, Exposed, Kept, SaveLoads,
         Titling, CanRename, OnCard, Rename, Again, browser
  <2>3. CASE /\ Works(CanRename)
             /\ at' = "find"
             /\ files' = [files EXCEPT ![serial] = files[Dummy], ![Dummy] = "none"]
    <3>1. serial \in Serials /\ files[serial] = "none"
      BY IInv, Rename DEF IInv, Named, Saving, Committing, Titling, Rename
    <3>2. files'[serial] = files[Dummy] /\ slot = "in"
      BY IInv, <2>3, <3>1, Sizes, DummyApart DEF Works
    <3>3. \A s \in Serials \ {serial} : files'[s] = files[s]
      BY IInv, <2>3, <3>1, Sizes, DummyApart
    <3> QED
      BY IInv, Rename, <2>3, <2>1, <3>1, <3>2, <3>3
      DEF Kept, SaveLoads, Titling, Rename, browser
  <2> QED
    BY Rename, <2>2, <2>3
    DEF Rename
<1>7. Fits'
  <2>1. CASE files' = files
    BY IInv, Rename, <2>1 DEF IInv, Fits, Rename
  <2>2. CASE /\ CanRename
             /\ files' = [files EXCEPT ![serial] = files[Dummy], ![Dummy] = "none"]
    <3> DEFINE both == [files EXCEPT ![serial] = files[Dummy]]
    <3>1. serial \in Names /\ files[serial] = "none" /\ files[Dummy] # "none"
      BY IInv, Rename, <2>2, DummyApart
      DEF IInv, CanRename, OnCard, Named, Saving, Committing, Rename
    <3>2. files[Dummy] \in Content
      BY IInv, Sizes, DummyApart
    <3>3. Used(both) = Used(files) + 1
      BY IInv, <3>1, <3>2, UsedAdd, Sizes
    <3>4. both \in [Names -> Content] /\ both[Dummy] # "none"
      BY IInv, <3>1, <3>2, Sizes, DummyApart
    <3>5. files' = [both EXCEPT ![Dummy] = "none"]
      BY <2>2
    <3>6. room' = room
      BY Rename DEF Rename
    <3> HIDE DEF both
    <3>7. Used(files') = Used(both) - 1
      BY <3>4, <3>5, UsedDrop, DummyApart
    <3> QED
      BY IInv, <3>3, <3>6, <3>7, Sizes DEF Fits
  <2> QED
    BY Rename, <2>1, <2>2 DEF Rename, Works, Fails
<1>8. Told'
  <2>1. CASE Fails(CanRename) /\ Again("find")
    <3>1. late' \/ (~late /\ files' = files /\ (slot # "in" \/ ~CanRename))
      BY IInv, Rename, <2>1, FaultMeans, HistoryKept
      DEF IInv, Fails, Landed, Committing, Rename
    <3> QED
      BY IInv, Rename, <2>1, <3>1, DummyApart
      DEF IInv, Told, Saving, Replacing, Committing, Titling, Request, Named, CanRename,
         OnCard,
          Rename, Again, browser
  <2>2. CASE /\ Works(CanRename)
             /\ at' = "find"
             /\ files' = [files EXCEPT ![serial] = files[Dummy], ![Dummy] = "none"]
    <3>1. serial \in Serials /\ files'[serial] = files[Dummy]
      BY IInv, Rename, <2>2, Sizes, DummyApart
      DEF IInv, Named, Saving, Committing, Titling, Rename
    <3> QED
      BY IInv, Rename, <2>2, <3>1
      DEF IInv, Told, Saving, Replacing, Committing, Titling, Works, Rename, browser,
         history
  <2> QED
    BY Rename, <2>1, <2>2 DEF Rename
<1>9. Chosen'
  BY IInv, Rename
  DEF IInv, Chosen, Rename, Again
<1> QED
  BY <1>1, <1>2, <1>3, <1>4, <1>5, <1>6, <1>7, <1>8, <1>9 DEF IInv

LEMMA FindKeeps ==
  ASSUME IInv, Find
  PROVE  IInv'
<1>1. TypeOK'
  <2>1. files' \in [Names -> Content]
    BY IInv, Find, DummyApart
    DEF IInv, TypeOK, Content, OnCard, Find, Works, Fails
  <2>2. faults' \in 0..MaxFaults /\ late' \in BOOLEAN /\ hurt' \in BOOLEAN
    <3>1. UNCHANGED history \/ Fault("pull") \/ Fault("reset") \/ Fault("glitch")
      BY Find
      DEF Find, Works, Fails
    <3> QED
      BY IInv, <3>1, HistoryKept DEF IInv
  <2>3. events' \subseteq {"complete", "error", "timeout", "new"}
    BY IInv, Find
    DEF IInv, TypeOK, Find, Works, Fails
  <2>4. at' \in {"scan", "idle", "prompt", "init", "erase_first", "open",
                 "write", "poll", "undo"} \cup Committing
    BY IInv, Find
    DEF IInv, TypeOK, Committing, Find, Works, Fails, Finish
  <2>5. retries' \in 0..Retries /\ tries' \in 0..(Attempts - 1)
    BY IInv, Find, RetriesAssumption, AttemptsAssumption
    DEF IInv, TypeOK, Counted, Replacing, Find, Works, Fails, Finish
  <2>6. /\ writing' \in BOOLEAN
        /\ window' \in {"none", "prompt", "progress", "saved", "failed"}
    BY IInv, Find
    DEF IInv, TypeOK, Find, Works, Fails, Finish
  <2>7. UNCHANGED <<room, freeSpace, serial>>
    BY Find
    DEF Find, browser, history
  <2>8. /\ slot' \in {"in", "out", "new"} /\ io' \in {"none", "info", "write"}
       /\ frame' \in {"sector", "junk"} /\ entries' \subseteq Names
       /\ row' \in Names \cup {NewEntry, NoRow}
    BY IInv, Find
    DEF IInv, TypeOK, Find, browser
  <2> QED
    BY IInv, <2>1, <2>2, <2>3, <2>4, <2>5, <2>6, <2>7, <2>8
    DEF IInv, TypeOK
<1>2. Counted'
  BY IInv, Find
  DEF IInv, Counted, Replacing, Find, Finish
<1>3. Whole'
  BY IInv, Find
  DEF IInv, Whole, Titling, TypeOK, Names, Find, Works, Fails, Finish,
     browser, history, Fault, Exposed, OnCard
<1>4. Request'
  BY IInv, Find
  DEF IInv, Request, Find, Finish
<1>5. Named'
  BY IInv, Find
  DEF IInv, Named, Saving, Replacing, Committing, Titling, Find, Works, Fails,
     Finish, browser, OnCard
<1>6. KeptUnlessHurt'
  BY IInv, Find, DummyApart
  DEF IInv, KeptUnlessHurt, Kept, SaveLoads, Titling, TypeOK, Named, Saving,
     Replacing, Find, Works, Fails, Finish, browser, history, Fault, Exposed,
     OnCard
<1>7. Fits'
  BY IInv, Find
  DEF IInv, Fits, Find, Fails
<1>8. Told'
  BY IInv, Find, DummyApart
  DEF IInv, Told, Saving, Replacing, Committing, Titling, TypeOK, Named, Find,
     Works, Fails, Finish, browser, history, Fault, Landed, OnCard
<1>9. Chosen'
  BY IInv, Find
  DEF IInv, Chosen, Find, Finish
<1> QED
  BY <1>1, <1>2, <1>3, <1>4, <1>5, <1>6, <1>7, <1>8, <1>9 DEF IInv

LEMMA ReadTitleKeeps ==
  ASSUME IInv, ReadTitle
  PROVE  IInv'
<1>1. TypeOK'
  <2>1. files' \in [Names -> Content]
    BY IInv, ReadTitle, DummyApart
    DEF IInv, TypeOK, Content, OnCard, ReadTitle, Works, Fails
  <2>2. faults' \in 0..MaxFaults /\ late' \in BOOLEAN /\ hurt' \in BOOLEAN
    <3>1. UNCHANGED history \/ Fault("pull") \/ Fault("reset") \/ Fault("glitch")
      BY ReadTitle
      DEF ReadTitle, Works, Fails
    <3> QED
      BY IInv, <3>1, HistoryKept DEF IInv
  <2>3. events' \subseteq {"complete", "error", "timeout", "new"}
    BY IInv, ReadTitle
    DEF IInv, TypeOK, ReadTitle, Works, Fails
  <2>4. at' \in {"scan", "idle", "prompt", "init", "erase_first", "open",
                 "write", "poll", "undo"} \cup Committing
    BY IInv, ReadTitle
    DEF IInv, TypeOK, Committing, ReadTitle, Works, Fails
  <2>5. retries' \in 0..Retries /\ tries' \in 0..(Attempts - 1)
    BY IInv, ReadTitle, RetriesAssumption, AttemptsAssumption
    DEF IInv, TypeOK, Counted, Replacing, ReadTitle, Works, Fails
  <2>6. /\ writing' \in BOOLEAN
        /\ window' \in {"none", "prompt", "progress", "saved", "failed"}
    BY IInv, ReadTitle
    DEF IInv, TypeOK, ReadTitle, Works, Fails
  <2>7. UNCHANGED <<room, freeSpace, serial>>
    BY ReadTitle
    DEF ReadTitle, browser, history
  <2>8. /\ slot' \in {"in", "out", "new"} /\ io' \in {"none", "info", "write"}
       /\ frame' \in {"sector", "junk"} /\ entries' \subseteq Names
       /\ row' \in Names \cup {NewEntry, NoRow}
    BY IInv, ReadTitle
    DEF IInv, TypeOK, ReadTitle, browser
  <2> QED
    BY IInv, <2>1, <2>2, <2>3, <2>4, <2>5, <2>6, <2>7, <2>8
    DEF IInv, TypeOK
<1>2. Counted'
  BY IInv, ReadTitle
  DEF IInv, Counted, Replacing, ReadTitle
<1>3. Whole'
  BY IInv, ReadTitle
  DEF IInv, Whole, Titling, TypeOK, ReadTitle, Works, Fails, browser, history,
     Fault, Exposed
<1>4. Request'
  BY IInv, ReadTitle
  DEF IInv, Request, ReadTitle
<1>5. Named'
  BY IInv, ReadTitle
  DEF IInv, Named, Saving, Replacing, Committing, Titling, ReadTitle, Fails,
     browser
<1>6. KeptUnlessHurt'
  BY IInv, ReadTitle
  DEF IInv, KeptUnlessHurt, Kept, SaveLoads, Titling, ReadTitle, Works, Fails,
     browser, history, Fault, Exposed
<1>7. Fits'
  BY IInv, ReadTitle
  DEF IInv, Fits, ReadTitle, Fails
<1>8. Told'
  <2>1. CASE Fails(TRUE)
    <3>1. late' \/ (~late /\ slot # "in")
      BY IInv, ReadTitle, <2>1, FaultMeans, HistoryKept
      DEF IInv, Fails, Landed, Committing, ReadTitle
    <3> QED
      BY IInv, ReadTitle, <2>1, <3>1
      DEF IInv, Told, Saving, Replacing, Committing, Titling, Fails, ReadTitle, browser
  <2>2. CASE Works(TRUE) /\ UNCHANGED files /\ frame' = "sector"
    BY IInv, ReadTitle, <2>2
    DEF IInv, Told, Saving, Replacing, Committing, Titling, Works, ReadTitle, browser,
       history
  <2> QED
    BY ReadTitle, <2>1, <2>2 DEF ReadTitle
<1>9. Chosen'
  BY IInv, ReadTitle
  DEF IInv, Chosen, ReadTitle
<1> QED
  BY <1>1, <1>2, <1>3, <1>4, <1>5, <1>6, <1>7, <1>8, <1>9 DEF IInv

LEMMA WriteTitleKeeps ==
  ASSUME IInv, WriteTitle
  PROVE  IInv'
<1>1. TypeOK'
  <2>1. files' \in [Names -> Content]
    BY IInv, WriteTitle, DummyApart
    DEF IInv, TypeOK, Content, OnCard, WriteTitle, Works, Fails
  <2>2. faults' \in 0..MaxFaults /\ late' \in BOOLEAN /\ hurt' \in BOOLEAN
    <3>1. UNCHANGED history \/ Fault("pull") \/ Fault("reset") \/ Fault("glitch")
      BY WriteTitle
      DEF WriteTitle, Works, Fails
    <3> QED
      BY IInv, <3>1, HistoryKept DEF IInv
  <2>3. events' \subseteq {"complete", "error", "timeout", "new"}
    BY IInv, WriteTitle
    DEF IInv, TypeOK, WriteTitle, Works, Fails
  <2>4. at' \in {"scan", "idle", "prompt", "init", "erase_first", "open",
                 "write", "poll", "undo"} \cup Committing
    BY IInv, WriteTitle
    DEF IInv, TypeOK, Committing, WriteTitle, Works, Fails, Finish
  <2>5. retries' \in 0..Retries /\ tries' \in 0..(Attempts - 1)
    BY IInv, WriteTitle, RetriesAssumption, AttemptsAssumption
    DEF IInv, TypeOK, Counted, Replacing, WriteTitle, Works, Fails, Finish
  <2>6. /\ writing' \in BOOLEAN
        /\ window' \in {"none", "prompt", "progress", "saved", "failed"}
    BY IInv, WriteTitle
    DEF IInv, TypeOK, WriteTitle, Works, Fails, Finish
  <2>7. UNCHANGED <<room, freeSpace, serial>>
    BY WriteTitle
    DEF WriteTitle, browser, history
  <2>8. /\ slot' \in {"in", "out", "new"} /\ io' \in {"none", "info", "write"}
       /\ frame' \in {"sector", "junk"} /\ entries' \subseteq Names
       /\ row' \in Names \cup {NewEntry, NoRow}
    BY IInv, WriteTitle
    DEF IInv, TypeOK, WriteTitle, browser
  <2> QED
    BY IInv, <2>1, <2>2, <2>3, <2>4, <2>5, <2>6, <2>7, <2>8
    DEF IInv, TypeOK
<1>2. Counted'
  BY IInv, WriteTitle
  DEF IInv, Counted, Replacing, WriteTitle, Finish
<1>3. Whole'
  BY IInv, WriteTitle
  DEF IInv, Whole, Titling, TypeOK, Names, WriteTitle, Works, Fails, Finish,
     history, Fault, Exposed
<1>4. Request'
  BY IInv, WriteTitle
  DEF IInv, Request, WriteTitle, Finish
<1>5. Named'
  BY IInv, WriteTitle
  DEF IInv, Named, Saving, Replacing, Committing, Titling, WriteTitle, Finish
<1>6. KeptUnlessHurt'
  BY IInv, WriteTitle, DummyApart
  DEF IInv, KeptUnlessHurt, Kept, SaveLoads, Titling, TypeOK, Named, Saving,
     Replacing, WriteTitle, Works, Fails, Finish, history, Fault, Exposed
<1>7. Fits'
  <2>1. CASE files' = files
    BY IInv, WriteTitle, <2>1 DEF IInv, Fits, WriteTitle
  <2>2. CASE \E c \in {"done", "garbled"} : files' = [files EXCEPT ![serial] = c]
    <3>1. serial \in Names /\ files[serial] # "none"
      BY IInv, WriteTitle, <2>2, DummyApart
      DEF IInv, Named, Saving, Committing, Titling, WriteTitle
    <3>2. Used(files') = Used(files)
      <4>1. PICK c \in {"done", "garbled"} : files' = [files EXCEPT ![serial] = c]
        BY <2>2
      <4>2. c \in Content /\ c # "none"
        BY DEF Content
      <4> QED
        BY IInv, <3>1, <4>1, <4>2, UsedSame, Sizes
    <3>3. room' = room
      BY WriteTitle DEF WriteTitle
    <3> QED
      BY IInv, <3>2, <3>3, Sizes DEF Fits
  <2> QED
    BY WriteTitle, <2>1, <2>2 DEF WriteTitle, Works, Fails
<1>8. Told'
  BY IInv, WriteTitle, DummyApart
  DEF IInv, Told, Saving, Replacing, Committing, Titling, TypeOK, Named,
     WriteTitle, Works, Fails, Finish, browser, history, Fault, Landed
<1>9. Chosen'
  BY IInv, WriteTitle
  DEF IInv, Chosen, WriteTitle, Finish
<1> QED
  BY <1>1, <1>2, <1>3, <1>4, <1>5, <1>6, <1>7, <1>8, <1>9 DEF IInv

LEMMA IoEndsKeeps ==
  ASSUME IInv, IoEnds
  PROVE  IInv'
<1>1. TypeOK'
  <2>1. files' \in [Names -> Content]
    BY IInv, IoEnds, DummyApart
    DEF IInv, TypeOK, Content, OnCard, IoEnds, Fault
  <2>2. faults' \in 0..MaxFaults /\ late' \in BOOLEAN /\ hurt' \in BOOLEAN
    <3>1. UNCHANGED history \/ Fault("pull") \/ Fault("reset") \/ Fault("glitch")
      BY IoEnds
      DEF IoEnds
    <3> QED
      BY IInv, <3>1, HistoryKept DEF IInv
  <2>3. events' \subseteq {"complete", "error", "timeout", "new"}
    BY IInv, IoEnds
    DEF IInv, TypeOK, IoEnds
  <2>4. at' \in {"scan", "idle", "prompt", "init", "erase_first", "open",
                 "write", "poll", "undo"} \cup Committing
    BY IInv, IoEnds
    DEF IInv, TypeOK, Committing, IoEnds
  <2>5. retries' \in 0..Retries /\ tries' \in 0..(Attempts - 1)
    BY IInv, IoEnds, RetriesAssumption, AttemptsAssumption
    DEF IInv, TypeOK, Counted, Replacing, IoEnds
  <2>6. /\ writing' \in BOOLEAN
        /\ window' \in {"none", "prompt", "progress", "saved", "failed"}
    BY IInv, IoEnds
    DEF IInv, TypeOK, IoEnds
  <2>7. UNCHANGED <<room, freeSpace, serial>>
    BY IoEnds
    DEF IoEnds, browser, history
  <2>8. /\ slot' \in {"in", "out", "new"} /\ io' \in {"none", "info", "write"}
       /\ frame' \in {"sector", "junk"} /\ entries' \subseteq Names
       /\ row' \in Names \cup {NewEntry, NoRow}
    BY IInv, IoEnds
    DEF IInv, TypeOK, IoEnds, browser
  <2> QED
    BY IInv, <2>1, <2>2, <2>3, <2>4, <2>5, <2>6, <2>7, <2>8
    DEF IInv, TypeOK
<1>2. Counted'
  BY IInv, IoEnds
  DEF IInv, Counted, Replacing, IoEnds
<1>3. Whole'
  BY IInv, IoEnds, DummyApart
  DEF IInv, Whole, Titling, TypeOK, IoEnds, browser, history, Fault
<1>4. Request'
  BY IInv, IoEnds
  DEF IInv, Request, OnCard, TypeOK, IoEnds, browser
<1>5. Named'
  BY IInv, IoEnds, DummyApart
  DEF IInv, Named, Saving, Replacing, Titling, TypeOK, IoEnds, browser
<1>6. KeptUnlessHurt'
  BY IInv, IoEnds, DummyApart, NamesAssumption
  DEF IInv, KeptUnlessHurt, Kept, SaveLoads, Titling, TypeOK, Request, Named,
     Saving, Replacing, Whole, Told, Chosen, Counted, IoEnds, browser,
     history, Fault, Exposed
<1>7. Fits'
  <2>1. CASE files' = files
    BY IInv, IoEnds, <2>1 DEF IInv, Fits, IoEnds
  <2>2. CASE io = "write" /\ files' = [files EXCEPT ![Dummy] = "bad"]
    <3>1. Dummy \in Names /\ files[Dummy] # "none"
      BY IInv, IoEnds, <2>2, DummyApart DEF IInv, Request, OnCard, IoEnds
    <3>2. Used(files') = Used(files)
      BY IInv, <2>2, <3>1, UsedSame, Sizes DEF Content
    <3>3. room' = room
      BY IoEnds DEF IoEnds
    <3> QED
      BY IInv, <3>2, <3>3, Sizes DEF Fits
  <2> QED
    BY IoEnds, <2>1, <2>2 DEF IoEnds
<1>8. Told'
  BY IInv, IoEnds, DummyApart
  DEF IInv, Told, Saving, Replacing, Titling, TypeOK, Named, IoEnds, browser,
     history, Fault
<1>9. Chosen'
  BY IInv, IoEnds
  DEF IInv, Chosen, OnCard, TypeOK, IoEnds, browser
<1> QED
  BY <1>1, <1>2, <1>3, <1>4, <1>5, <1>6, <1>7, <1>8, <1>9 DEF IInv

LEMMA PullKeeps ==
  ASSUME IInv, Pull
  PROVE  IInv'
<1>1. TypeOK'
  BY IInv, Pull, MaxFaultsAssumption
  DEF IInv, TypeOK, Pull, bios, browser, Fault
<1>2. Counted'
  BY IInv, Pull
  DEF IInv, Counted, Replacing, Pull
<1>3. Whole'
  BY IInv, Pull
  DEF IInv, Whole, Titling, Pull, Fault, Exposed
<1>4. Request'
  BY IInv, Pull
  DEF IInv, Request, OnCard, Pull, bios, browser
<1>5. Named'
  BY IInv, Pull
  DEF IInv, Named, Saving, Replacing, Titling, Pull, browser
<1>6. KeptUnlessHurt'
  BY IInv, Pull, DummyApart
  DEF IInv, KeptUnlessHurt, Kept, SaveLoads, Titling, TypeOK, Told, Saving,
     Replacing, Pull, browser, Fault, Exposed
<1>7. Fits'
  BY IInv, Pull
  DEF IInv, Fits, Pull
<1>8. Told'
  BY IInv, Pull, DummyApart
  DEF IInv, Told, Saving, Replacing, Titling, TypeOK, Request, Pull, bios,
     browser, Fault, Landed
<1>9. Chosen'
  BY IInv, Pull
  DEF IInv, Chosen, OnCard, Pull, browser
<1> QED
  BY <1>1, <1>2, <1>3, <1>4, <1>5, <1>6, <1>7, <1>8, <1>9 DEF IInv

LEMMA PutBackKeeps ==
  ASSUME IInv, PutBack
  PROVE  IInv'
<1>1. TypeOK'
  BY IInv, PutBack
  DEF IInv, TypeOK, PutBack, bios, browser, history
<1>2. Counted'
  BY IInv, PutBack
  DEF IInv, Counted, Replacing, PutBack
<1>3. Whole'
  BY IInv, PutBack
  DEF IInv, Whole, Titling, PutBack, history
<1>4. Request'
  BY IInv, PutBack
  DEF IInv, Request, OnCard, PutBack, bios, browser
<1>5. Named'
  BY IInv, PutBack
  DEF IInv, Named, Saving, Replacing, Titling, PutBack, browser
<1>6. KeptUnlessHurt'
  BY IInv, PutBack
  DEF IInv, KeptUnlessHurt, Kept, SaveLoads, Titling, PutBack, browser,
     history
<1>7. Fits'
  BY IInv, PutBack
  DEF IInv, Fits, PutBack
<1>8. Told'
  BY IInv, PutBack
  DEF IInv, Told, Saving, Replacing, Titling, PutBack, bios, browser, history
<1>9. Chosen'
  BY IInv, PutBack
  DEF IInv, Chosen, OnCard, PutBack, browser
<1> QED
  BY <1>1, <1>2, <1>3, <1>4, <1>5, <1>6, <1>7, <1>8, <1>9 DEF IInv

LEMMA ResetKeeps ==
  ASSUME IInv, Reset
  PROVE  IInv'
<1>1. TypeOK'
  <2>1. files' \in [Names -> Content]
    BY IInv, Reset, DummyApart
    DEF IInv, TypeOK, Content, OnCard, Reset
  <2>2. faults' \in 0..MaxFaults /\ late' \in BOOLEAN /\ hurt' \in BOOLEAN
    <3>1. UNCHANGED history \/ Fault("pull") \/ Fault("reset") \/ Fault("glitch")
      BY Reset
      DEF Reset
    <3> QED
      BY IInv, <3>1, HistoryKept DEF IInv
  <2>3. events' \subseteq {"complete", "error", "timeout", "new"}
    BY IInv, Reset
    DEF IInv, TypeOK, Reset
  <2>4. at' \in {"scan", "idle", "prompt", "init", "erase_first", "open",
                 "write", "poll", "undo"} \cup Committing
    BY IInv, Reset
    DEF IInv, TypeOK, Committing, Reset
  <2>5. retries' \in 0..Retries /\ tries' \in 0..(Attempts - 1)
    BY IInv, Reset, RetriesAssumption, AttemptsAssumption
    DEF IInv, TypeOK, Counted, Replacing, Reset
  <2>6. /\ writing' \in BOOLEAN
        /\ window' \in {"none", "prompt", "progress", "saved", "failed"}
    BY IInv, Reset
    DEF IInv, TypeOK, Reset
  <2>7. UNCHANGED <<room, freeSpace, serial>>
    BY Reset
    DEF Reset
  <2>8. /\ slot' \in {"in", "out", "new"} /\ io' \in {"none", "info", "write"}
       /\ frame' \in {"sector", "junk"} /\ entries' \subseteq Names
       /\ row' \in Names \cup {NewEntry, NoRow}
    BY IInv, Reset
    DEF IInv, TypeOK, Reset
  <2> QED
    BY IInv, <2>1, <2>2, <2>3, <2>4, <2>5, <2>6, <2>7, <2>8
    DEF IInv, TypeOK
<1>2. Counted'
  BY IInv, Reset
  DEF IInv, Counted, Replacing, Reset
<1>3. Whole'
  BY IInv, Reset
  DEF IInv, Whole, Titling, Reset, Fault, Exposed
<1>4. Request'
  BY IInv, Reset
  DEF IInv, Request, Reset
<1>5. Named'
  BY IInv, Reset
  DEF IInv, Named, Saving, Replacing, Committing, Titling, Reset
<1>6. KeptUnlessHurt'
  BY IInv, Reset
  DEF IInv, KeptUnlessHurt, Kept, SaveLoads, Titling, Reset, Fault, Exposed
<1>7. Fits'
  BY IInv, Reset
  DEF IInv, Fits, Reset
<1>8. Told'
  BY IInv, Reset
  DEF IInv, Told, Saving, Replacing, Committing, Titling, Reset
<1>9. Chosen'
  BY IInv, Reset
  DEF IInv, Chosen, Reset
<1> QED
  BY <1>1, <1>2, <1>3, <1>4, <1>5, <1>6, <1>7, <1>8, <1>9 DEF IInv
-----------------------------------------------------------------------------
(* The invariant holds at first and every step keeps it                      *)

LEMMA InitHolds == Init => IInv
<1> SUFFICES ASSUME Init PROVE IInv
  OBVIOUS
<1>1. 0 \in Serials /\ Dummy # 0
  BY MaxSerialAssumption, NamesAssumption DEF Serials
<1>2. TypeOK
  <2>1. files \in [Names -> Content]
    BY DEF Init, Content
  <2>2. retries \in 0..Retries /\ tries \in 0..(Attempts - 1)
    BY RetriesAssumption, AttemptsAssumption DEF Init
  <2>3. serial \in 0..(MaxSerial + 1) /\ faults \in 0..MaxFaults
    BY MaxSerialAssumption, MaxFaultsAssumption DEF Init
  <2> QED
    BY <2>1, <2>2, <2>3 DEF Init, TypeOK
<1>3. files = [n \in Names |-> IF n = 0 THEN "done" ELSE "none"] /\ 0 \in Names
  BY <1>1, DummyApart DEF Init
<1>4. Used(files) = 1
  <2>1. {n \in Names : files[n] # "none"} = {0}
    BY <1>3
  <2> QED
    BY <2>1, FS_Singleton DEF Used
<1>5. SaveLoads
  BY <1>1, <1>3 DEF SaveLoads
<1>6. KeptUnlessHurt
  BY <1>5 DEF Init, KeptUnlessHurt, Kept, Titling
<1>7. Fits
  BY <1>4 DEF Init, Fits
<1>8. Whole /\ Named
  BY <1>3, DummyApart DEF Init, Whole, Named, Saving, Replacing, Committing, Titling
<1>9. Counted /\ Request /\ Told /\ Chosen
  BY DEF Init, Counted, Request, Told, Chosen, Saving, Replacing, Committing, Titling
<1> QED
  BY <1>2, <1>6, <1>7, <1>8, <1>9 DEF IInv

LEMMA StepHolds == IInv /\ [Next]_vars => IInv'
<1> SUFFICES ASSUME IInv, [Next]_vars PROVE IInv'
  OBVIOUS
<1>1. CASE WriteStep
  BY <1>1, InitRetriesKeeps, EraseFirstKeeps, CreateKeeps, StartWriteKeeps,
     PollWriteKeeps,
     UndoKeeps, EraseOldKeeps, RenameKeeps, FindKeeps, ReadTitleKeeps, WriteTitleKeeps
  DEF WriteStep
<1>2. CASE Browse
  BY <1>2, ScanKeeps, CardChangedKeeps, ShowSavedKeeps, PromptPollKeeps DEF Browse
<1>3. CASE Player
  BY <1>3, OpenPromptKeeps, ConfirmKeeps, CancelKeeps, DismissKeeps DEF Player
<1>4. CASE IoEnds \/ Pull \/ PutBack \/ Reset
  BY <1>4, IoEndsKeeps, PullKeeps, PutBackKeeps, ResetKeeps
<1>5. CASE UNCHANGED vars
  BY <1>5 DEF vars, IInv, TypeOK, Counted, Whole, Request, Named, KeptUnlessHurt, Kept,
              SaveLoads, Fits, Told, Chosen, OnCard
<1> QED
  BY <1>1, <1>2, <1>3, <1>4, <1>5 DEF Next

LEMMA Always == Spec => []IInv
BY InitHolds, StepHolds, PTL DEF Spec

(* Every variable keeps its type: in particular the counters of retries and   *)
(* attempts stay in their ranges and the serial one past the largest on the   *)
(* card.                                                                      *)
THEOREM SaveTypeCorrect == Spec => []TypeOK
<1>1. IInv => TypeOK
  BY DEF IInv
<1> QED
  BY <1>1, Always, PTL

(* While no fault has fallen into the replacement the card holds a save that  *)
(* loads, after any number of saves, failed writes, pulls and resets          *)
(* (CARDA_STEP_CREATE_TEMP_SAVE to CARDA_STEP_RENAME_TEMP_SAVE).              *)
THEOREM SaveOutlivesWrites == Spec => []SaveSurvives
<1>1. IInv => SaveSurvives
  BY DEF IInv, KeptUnlessHurt, Kept, SaveLoads, SaveSurvives, Exposed, Titling
<1> QED
  BY <1>1, Always, PTL

(* A file under a save's name was written whole: no event of an earlier       *)
(* request is taken for the end of the write (carda_card.c, the poll of       *)
(* poll_software_card_events), and only a fault between the rename and the    *)
(* title leaves a title unpatched.                                            *)
THEOREM NamedFilesWhole == Spec => []NamedFileWhole
<1>1. IInv => NamedFileWhole
  BY DEF IInv, Whole, NamedFileWhole, Titling
<1> QED
  BY <1>1, Always, PTL

(* A finished save leaves the card only as the one chosen, and with room for  *)
(* a second file only after its replacement is there whole.                   *)
THEOREM OldSaveKept == Spec => OldKept
<1>1. ASSUME IInv, [Next]_vars
      PROVE  [\A s \in Serials :
                files[s] = "done" /\ files'[s] # "done" =>
                  /\ s = row /\ files'[s] = "none"
                  /\ \/ files[Dummy] = "bad"
                     \/ ~freeSpace]_vars
  <2> SUFFICES ASSUME NEW s \in Serials, files[s] = "done", files'[s] # "done"
               PROVE  s = row /\ files'[s] = "none" /\ (files[Dummy] = "bad" \/ ~freeSpace)
    OBVIOUS
  <2>1. s \in Names /\ s # Dummy /\ files \in [Names -> Content]
    BY <1>1, Sizes, DummyApart
  <2>2. CASE EraseFirst \/ EraseOld
    BY <1>1, <2>1, <2>2
    DEF IInv, Request, EraseFirst, EraseOld, Erase, Works, Fails, Drop, OnCard
  <2>3. CASE Rename
    <3>1. serial # s
      BY <1>1, <2>3 DEF IInv, Named, Saving, Committing, Titling, Rename
    <3> QED
      BY <2>1, <2>3, <3>1 DEF Rename, Works, Fails
  <2>4. CASE WriteTitle
    <3>1. serial # s
      BY <1>1, <2>4 DEF IInv, Named, Saving, Committing, Titling, WriteTitle
    <3> QED
      BY <2>1, <2>4, <3>1 DEF WriteTitle, Works, Fails
  <2>5. CASE Create \/ StartWrite \/ Undo \/ IoEnds \/ Scan
    BY <2>1, <2>5 DEF Create, StartWrite, Undo, IoEnds, Scan, Works, Fails, Drop
  <2>6. CASE \/ InitRetries \/ PollWrite \/ Find \/ ReadTitle \/ CardChanged \/ ShowSaved
             \/ PromptPoll \/ Player \/ Pull \/ PutBack \/ Reset \/ UNCHANGED vars
    BY <2>6
    DEF InitRetries, PollWrite, Find, ReadTitle, CardChanged, ShowSaved, PromptPoll,
                Player, OpenPrompt, Confirm, Cancel, Dismiss, Pull, PutBack, Reset,
                Works, Fails, card, vars
  <2> QED
    BY <1>1, <2>2, <2>3, <2>4, <2>5, <2>6 DEF Next, WriteStep, Browse
<1> QED
  BY <1>1, Always, PTL DEF Spec, OldKept

(* "Saved." is shown (carda_draw_save_progress) over the finished file,       *)
(* unless a fault came after the data were on the card.                       *)
THEOREM SavedIsTrueUnlessLate == Spec => SavedUnlessLate
<1>1. ASSUME IInv, [Next]_vars
      PROVE  [window' = "saved" /\ window # "saved" => files[serial] = "done" \/ late]_vars
  <2>1. CASE ShowSaved
    BY <1>1, <2>1 DEF IInv, Told, ShowSaved
  <2>2. CASE UNCHANGED window
    BY <2>2
  <2>3. CASE Create \/ Undo
    BY <2>3 DEF Create, Undo, RetryOrGiveUp, GiveUp
  <2>4. CASE \/ PromptPoll \/ Player \/ Reset
    BY <2>4 DEF PromptPoll, Player, OpenPrompt, Confirm, Cancel, Dismiss, Reset
  <2>5. CASE \/ InitRetries \/ EraseFirst \/ StartWrite \/ PollWrite \/ EraseOld \/ Rename
             \/ Find \/ ReadTitle \/ WriteTitle \/ Scan \/ CardChanged \/ IoEnds \/ Pull \/ PutBack
    BY <2>2, <2>5
    DEF InitRetries, EraseFirst, StartWrite, PollWrite, EraseOld, Rename, Find,
                      ReadTitle, WriteTitle, Scan, CardChanged, IoEnds, Pull, PutBack
  <2> QED
    BY <1>1, <2>1, <2>2, <2>3, <2>4, <2>5 DEF Next, WriteStep, Browse, vars
<1> QED
  BY <1>1, Always, PTL DEF Spec, SavedUnlessLate

=============================================================================
