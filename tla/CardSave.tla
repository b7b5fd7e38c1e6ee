------------------------------ MODULE CardSave ------------------------------
(* Writing a save in the CARDA overlay: the card step machine of              *)
(* carda_advance_card_sequence, the prompts and message windows that start    *)
(* and watch it, and a memory card that can be pulled, put back, or glitch    *)
(* on one access.  A save is written under a placeholder name, and the steps  *)
(* that replace the old file (erase, rename, title patch) are separate.       *)
(*                                                                            *)
(* Files are named by their serial (g_card_entry_value_limit at the time of   *)
(* the write); a file's content is one of                                     *)
(*   none    no such file          empty   created, nothing written           *)
(*   partial a write has begun     bad     whole, still titled MANA-BAD.      *)
(*   done    whole, final title: its checksum matches                         *)
(*   garbled final title over a first sector that was never read              *)
(*                                                                            *)
(* The card and the BIOS are external, modelled from their use: an access to  *)
(* a card that is out fails, and one to a card put back fails, with the       *)
(* new-card event, until the scan clears it.                                  *)
EXTENDS Integers, FiniteSets

CONSTANTS Retries,     \* CARD_MENU_SAVE_RETRIES
          Attempts,    \* CARD_MENU_FILE_OP_ATTEMPTS
          MaxSerial,   \* bound: the largest serial a save is written under
          MaxFaults,   \* bound: faults in a behaviour
          FaultKinds,  \* which of "pull", "reset", "glitch" happen
          Dummy,       \* g_lom_save_dummy_filename
          NewEntry,    \* g_new_save_entry_prefix
          NoRow        \* nothing selected

ASSUME RetriesAssumption == Retries \in Nat \ {0}
ASSUME AttemptsAssumption == Attempts \in Nat \ {0}
ASSUME MaxSerialAssumption == MaxSerial \in Nat
ASSUME MaxFaultsAssumption == MaxFaults \in Nat
ASSUME NamesAssumption ==
  /\ Dummy \notin Nat /\ NewEntry \notin Nat /\ NoRow \notin Nat
  /\ Dummy # NewEntry /\ Dummy # NoRow /\ NewEntry # NoRow

VARIABLES
  (* the card *)
  slot,         \* "in", "out", or "new": put back and not yet cleared
  files,        \* content of each file, the placeholder's included
  room,         \* files of two blocks that fit on this card
  (* the BIOS *)
  io,           \* the request under way: "none", "info", "write"
  events,       \* software events not yet consumed
  (* the step machine *)
  at,           \* the step, or the place inside a step of several accesses
  retries,      \* g_card_menu_retry_count
  tries,        \* attempts made at the access under way
  frame,        \* title_frame: "sector" when the read filled it, else "junk"
  (* the browser *)
  entries,      \* the directory as last scanned
  freeSpace,    \* g_card_menu_has_free_space
  serial,       \* g_card_entry_value_limit
  row,          \* the selected entry
  writing,      \* g_card_menu_write_in_progress
  window,       \* what covers the browser
  (* history *)
  faults,       \* faults so far
  late,         \* a fault came after this save's data were on the card
  hurt          \* a fault came where it can cost the save

card == <<slot, files, room>>
bios == <<io, events>>
browser == <<entries, freeSpace, serial, row>>
history == <<faults, late, hurt>>
vars == <<slot, files, room, io, events, at, retries, tries, frame,
          entries, freeSpace, serial, row, writing, window, faults, late, hurt>>

Serials == 0..MaxSerial
Names == Serials \cup {Dummy}
Content == {"none", "empty", "partial", "bad", "done", "garbled"}

OnCard(name) == name \in Names /\ files[name] # "none"
Used(f) == Cardinality({n \in Names : f[n] # "none"})

Committing == {"erase_old", "rename", "find", "read_title", "write_title"}

(* The places where a fault can leave the card without a finished save.  A   *)
(* placeholder the scan could not erase is one too: it keeps the next save   *)
(* from being created, after the old one has gone.                           *)
Exposed ==
  \/ at = "scan" /\ OnCard(Dummy)
  \/ at \in {"rename", "find", "read_title", "write_title"}
  \/ ~freeSpace /\ at \in {"open", "write", "poll", "undo", "erase_old"}

Landed == at \in Committing \/ (at = "poll" /\ io = "none")

TypeOK ==
  /\ slot \in {"in", "out", "new"}
  /\ files \in [Names -> Content]
  /\ room \in {1, 2}
  /\ io \in {"none", "info", "write"}
  /\ events \subseteq {"complete", "error", "timeout", "new"}
  /\ at \in {"scan", "idle", "prompt", "init", "erase_first", "open", "write",
             "poll", "undo"} \cup Committing
  /\ retries \in 0..Retries
  /\ tries \in 0..(Attempts - 1)
  /\ frame \in {"sector", "junk"}
  /\ entries \subseteq Names
  /\ freeSpace \in BOOLEAN
  /\ serial \in 0..(MaxSerial + 1)
  /\ row \in Names \cup {NewEntry, NoRow}
  /\ writing \in BOOLEAN
  /\ window \in {"none", "prompt", "progress", "saved", "failed"}
  /\ faults \in 0..MaxFaults
  /\ late \in BOOLEAN
  /\ hurt \in BOOLEAN

(* The screen opens on a card that holds one finished save, with or without   *)
(* room for a second file, and scans it.                                      *)
Init ==
  /\ slot = "in"
  /\ files = [n \in Names |-> IF n = 0 THEN "done" ELSE "none"]
  /\ room \in {1, 2}
  /\ io = "none"
  /\ events = {}
  /\ at = "scan"
  /\ retries = 0
  /\ tries = 0
  /\ frame = "junk"
  /\ entries = {}
  /\ freeSpace = FALSE
  /\ serial = 0
  /\ row = NoRow
  /\ writing = FALSE
  /\ window = "none"
  /\ faults = 0
  /\ late = FALSE
  /\ hurt = FALSE

-----------------------------------------------------------------------------
(* Faults of the card, and what one access to it does                        *)

Fault(kind) ==
  /\ kind \in FaultKinds
  /\ faults < MaxFaults
  /\ faults' = faults + 1
  /\ late' = (late \/ Landed)
  /\ hurt' = (hurt \/ Exposed)

(* An access fails because of the card's state, or by a glitch.  A failed one *)
(* raises an event too.                                                       *)
Fails(possible) ==
  /\ \/ (slot # "in" \/ ~possible) /\ UNCHANGED history
     \/ slot = "in" /\ possible /\ Fault("glitch")
  /\ events' = events \cup {IF slot = "new" THEN "new" ELSE "error"}
  /\ UNCHANGED files

Works(possible) ==
  /\ slot = "in" /\ possible
  /\ events' = events \cup {"complete"}
  /\ UNCHANGED history

Drop(name) == files' = [files EXCEPT ![name] = "none"]

(* Slip of Again: one attempt more. *)
AgainOnce(next) ==
  IF tries < Attempts THEN tries' = tries + 1 /\ UNCHANGED at
                      ELSE tries' = 0 /\ at' = next

(* One pass of a loop of Attempts attempts; the code goes on to next whether  *)
(* the last one worked or not.                                                *)
Again(next) ==
  IF tries + 1 < Attempts THEN tries' = tries + 1 /\ UNCHANGED at
                          ELSE tries' = 0 /\ at' = next

(* CARD_ERASE_WITH_RETRIES.                                                   *)
Erase(name, next) ==
  \/ Works(OnCard(name)) /\ Drop(name) /\ tries' = 0 /\ at' = next
  \/ Fails(OnCard(name)) /\ Again(next)

(* Slip of StartOfCreate: the old file goes first on any card. *)
EraseAnyway == "erase_first"

StartOfCreate == IF freeSpace THEN "open" ELSE "erase_first"

(* Slip of GiveUp: the window is left as it is. *)
GiveUpQuietly == writing' = FALSE /\ at' = "scan" /\ UNCHANGED window

(* carda_open_status_dialog: the save is given up, the card is scanned again. *)
GiveUp ==
  /\ writing' = FALSE
  /\ window' = "failed"
  /\ at' = "scan"

(* Slip of RetryOrGiveUp: the attempts are not counted. *)
RetryForever == at' = StartOfCreate /\ UNCHANGED <<retries, writing, window>>

(* One write attempt is used up: create again, or give up.                    *)
RetryOrGiveUp ==
  /\ retries' = retries - 1
  /\ IF retries > 1 THEN at' = StartOfCreate /\ UNCHANGED <<writing, window>>
                    ELSE GiveUp

-----------------------------------------------------------------------------
(* The browser and its windows                                               *)

(* CARD_MENU_STEP_CLEAR_CARD .. SCAN_ENTRIES: the card is cleared and loaded, *)
(* a placeholder left behind is erased, in one attempt, and the directory     *)
(* read.  The window's draw function runs before the step, so a finished      *)
(* write is announced first.                                                  *)
Scan ==
  /\ at = "scan"
  /\ slot # "out" /\ io = "none"
  /\ window = "progress" => writing
  /\ slot' = "in"
  /\ events' = {}
  /\ \/ Drop(Dummy) /\ UNCHANGED history
     \/ OnCard(Dummy) /\ Fault("glitch") /\ UNCHANGED files
  /\ entries' = {n \in Names : files'[n] # "none"}
  /\ freeSpace' = (Used(files') < room)
  /\ serial' = IF \E s \in Serials : files'[s] # "none"
               THEN 1 + CHOOSE s \in Serials :
                          /\ files'[s] # "none"
                          /\ \A t \in Serials : files'[t] # "none" => t <= s
               ELSE 0
  /\ row' = NoRow
  /\ at' = "idle"
  /\ UNCHANGED <<room, io, retries, tries, frame, writing, window>>

(* The card_info table, round and round: a card that is gone or new is        *)
(* scanned again when it can be.                                              *)
CardChanged ==
  /\ at = "idle" /\ slot # "in"
  /\ at' = "scan"
  /\ entries' = {}
  /\ UNCHANGED <<card, bios, retries, tries, frame, freeSpace, serial, row,
                 writing, window, history>>

(* card_menu_handle_input: the save or the overwrite prompt opens and         *)
(* restart_card_sequence asks the card for its state.                         *)
OpenPrompt(r) ==
  /\ at = "idle" /\ window = "none" /\ io = "none"
  /\ \/ r \in entries
     \/ r = NewEntry /\ freeSpace
  /\ row' = r
  /\ events' = {}
  /\ io' = "info"
  /\ at' = "prompt"
  /\ window' = "prompt"
  /\ UNCHANGED <<card, retries, tries, frame, entries, freeSpace, serial,
                 writing, history>>

(* poll_software_card_events takes the first of these that is pending.        *)
FirstEvent ==
  CASE "complete" \in events -> "complete"
    [] "error" \in events /\ "complete" \notin events -> "error"
    [] "timeout" \in events /\ events \cap {"complete", "error"} = {} -> "timeout"
    [] OTHER -> "new"

Poll == events # {} /\ events' = events \ {FirstEvent}

(* carda_draw_save_prompt, carda_draw_overwrite_prompt: a failing card closes *)
(* the prompt; any other answer is asked for again and the input is looked    *)
(* at in the same frame.                                                      *)
PromptPoll ==
  /\ at = "prompt"
  /\ Poll /\ io = "none"
  /\ IF FirstEvent \in {"error", "timeout"}
     THEN /\ at' = "scan" /\ window' = "none" /\ entries' = {}
     ELSE UNCHANGED <<at, window, entries>>
  /\ io' = "info"
  /\ UNCHANGED <<card, retries, tries, frame, freeSpace, serial, row, writing,
                 history>>

(* Yes: g_carda_steps_write_save is armed while the request may be under way. *)
Confirm ==
  /\ at = "prompt"
  /\ serial <= MaxSerial
  /\ writing' = TRUE
  /\ window' = "progress"
  /\ at' = "init"
  /\ late' = FALSE
  /\ UNCHANGED <<card, bios, retries, tries, frame, browser, faults, hurt>>

Cancel ==
  /\ at = "prompt"
  /\ window' = "none"
  /\ at' = "idle"
  /\ UNCHANGED <<card, bios, retries, tries, frame, browser, writing, history>>

(* carda_draw_save_progress sees the write flag cleared and shows "Saved.".   *)
ShowSaved ==
  /\ window = "progress" /\ ~writing
  /\ window' = "saved"
  /\ UNCHANGED <<card, bios, at, retries, tries, frame, browser, writing, history>>

Dismiss ==
  /\ window \in {"saved", "failed"}
  /\ window' = "none"
  /\ UNCHANGED <<card, bios, at, retries, tries, frame, browser, writing, history>>

-----------------------------------------------------------------------------
(* The steps of the write                                                    *)

(* CARD_MENU_STEP_INIT_RETRIES.                                               *)
InitRetries ==
  /\ at = "init"
  /\ retries' = Retries
  /\ at' = StartOfCreate
  /\ UNCHANGED <<card, bios, tries, frame, browser, writing, window, history>>

(* CARDA_STEP_CREATE_TEMP_SAVE without room: the old file goes first.         *)
EraseFirst ==
  /\ at = "erase_first" /\ io = "none"
  /\ Erase(row, "open")
  /\ UNCHANGED <<slot, room, io, retries, frame, browser, writing, window>>

(* CARDA_STEP_CREATE_TEMP_SAVE: a file of that name, or no room, refuses it.  *)
CanCreate == ~OnCard(Dummy) /\ Used(files) < room

Create ==
  /\ at = "open" /\ io = "none"
  /\ \/ /\ Works(CanCreate)
        /\ files' = [files EXCEPT ![Dummy] = "empty"]
        /\ at' = "write"
        /\ UNCHANGED <<retries, writing, window>>
     \/ Fails(CanCreate) /\ RetryOrGiveUp
  /\ UNCHANGED <<slot, room, io, tries, frame, browser>>

(* Slip of EventsAtWrite: an old event is left for the poll. *)
EventsKept == events

EventsAtWrite == {}

(* CARDA_STEP_WRITE_TEMP_SAVE: events are cleared before the write is issued; *)
(* one that cannot be issued erases the placeholder and goes round.           *)
StartWrite ==
  /\ at = "write" /\ io = "none"
  /\ \/ /\ slot = "in" /\ OnCard(Dummy)
        /\ files' = [files EXCEPT ![Dummy] = "partial"]
        /\ io' = "write"
        /\ events' = EventsAtWrite
        /\ at' = "poll"
        /\ UNCHANGED history
     \/ Fails(OnCard(Dummy)) /\ at' = "undo" /\ UNCHANGED io
  /\ UNCHANGED <<slot, room, retries, tries, frame, browser, writing, window>>

(* Slip of WriteSucceeded: any answer will do. *)
Answered == FirstEvent \in {"complete", "error", "timeout", "new"}

WriteSucceeded == FirstEvent = "complete"

(* CARDA_STEP_POLL_TEMP_SAVE_WRITE.                                           *)
PollWrite ==
  /\ at = "poll"
  /\ Poll
  /\ at' = IF ~WriteSucceeded THEN "undo"
           ELSE IF freeSpace THEN "erase_old" ELSE "rename"
  /\ UNCHANGED <<card, io, retries, tries, frame, browser, writing, window, history>>

(* A failed write: the placeholder is erased and an attempt is used up.       *)
Undo ==
  /\ at = "undo" /\ io = "none"
  /\ \/ Works(OnCard(Dummy)) /\ Drop(Dummy) /\ tries' = 0 /\ RetryOrGiveUp
     \/ /\ Fails(OnCard(Dummy))
        /\ IF tries + 1 < Attempts
           THEN tries' = tries + 1 /\ UNCHANGED <<at, retries, writing, window>>
           ELSE tries' = 0 /\ RetryOrGiveUp
  /\ UNCHANGED <<slot, room, io, frame, browser>>

(* The old save goes now that its replacement is on the card.                 *)
EraseOld ==
  /\ at = "erase_old"
  /\ Erase(row, "rename")
  /\ UNCHANGED <<slot, room, io, retries, frame, browser, writing, window>>

CanRename == OnCard(Dummy) /\ ~OnCard(serial)

Rename ==
  /\ at = "rename"
  /\ \/ /\ Works(CanRename)
        /\ files' = [files EXCEPT ![serial] = files[Dummy], ![Dummy] = "none"]
        /\ tries' = 0 /\ at' = "find"
     \/ Fails(CanRename) /\ Again("find")
  /\ UNCHANGED <<slot, room, io, retries, frame, browser, writing, window>>

(* The end of the step whichever way it went: the write flag is cleared and   *)
(* the card scanned again.                                                    *)
Finish == writing' = FALSE /\ at' = "scan"

(* firstfile looks for the renamed file.  Its directory is the BIOS's own.    *)
Find ==
  /\ at = "find"
  /\ \/ /\ Works(OnCard(serial)) /\ UNCHANGED <<files, writing>>
        /\ tries' = 0 /\ at' = "read_title"
     \/ /\ Fails(OnCard(serial))
        /\ IF tries + 1 < Attempts
           THEN tries' = tries + 1 /\ UNCHANGED <<at, writing>>
           ELSE tries' = 0 /\ Finish
  /\ UNCHANGED <<slot, room, io, retries, frame, browser, window>>

(* _card_read and _card_write of the first sector: no result is looked at.    *)
ReadTitle ==
  /\ at = "read_title"
  /\ \/ Works(TRUE) /\ UNCHANGED files /\ frame' = "sector"
     \/ Fails(TRUE) /\ frame' = "junk"
  /\ at' = "write_title"
  /\ UNCHANGED <<slot, room, io, retries, tries, browser, writing, window>>

WriteTitle ==
  /\ at = "write_title"
  /\ \/ Works(TRUE)
        /\ files' = [files EXCEPT ![serial] =
                       IF frame = "sector" THEN "done" ELSE "garbled"]
     \/ Fails(TRUE)
  /\ Finish
  /\ UNCHANGED <<slot, room, io, retries, tries, frame, browser, window>>

-----------------------------------------------------------------------------
(* The card and the BIOS                                                     *)

(* A request ends: its data are on the card and the event is raised together, *)
(* or it fails.                                                               *)
IoEnds ==
  /\ io # "none"
  /\ io' = "none"
  /\ \/ /\ slot = "in"
        /\ events' = events \cup {"complete"}
        /\ files' = IF io = "write" THEN [files EXCEPT ![Dummy] = "bad"] ELSE files
        /\ UNCHANGED history
     \/ /\ slot = "in" /\ Fault("glitch")
        /\ \E e \in {"error", "timeout"} : events' = events \cup {e}
        /\ UNCHANGED files
     \/ /\ slot # "in"
        /\ \E e \in (IF slot = "new" THEN {"new"} ELSE {"error", "timeout"}) :
             events' = events \cup {e}
        /\ UNCHANGED <<files, history>>
  /\ UNCHANGED <<slot, room, at, retries, tries, frame, browser, writing, window>>

Pull ==
  /\ slot # "out"
  /\ Fault("pull")
  /\ slot' = "out"
  /\ UNCHANGED <<files, room, bios, at, retries, tries, frame, browser, writing,
                 window>>

PutBack ==
  /\ slot = "out"
  /\ slot' = "new"
  /\ UNCHANGED <<files, room, bios, at, retries, tries, frame, browser, writing,
                 window, history>>

(* The console is reset, and a save screen opened again.                      *)
Reset ==
  /\ Fault("reset")
  /\ slot' = IF slot = "in" THEN "new" ELSE slot
  /\ io' = "none"
  /\ events' = {}
  /\ at' = "scan"
  /\ retries' = 0
  /\ tries' = 0
  /\ frame' = "junk"
  /\ entries' = {}
  /\ row' = NoRow
  /\ writing' = FALSE
  /\ window' = "none"
  /\ UNCHANGED <<files, room, freeSpace, serial>>

WriteStep ==
  \/ InitRetries \/ EraseFirst \/ Create \/ StartWrite \/ PollWrite \/ Undo
  \/ EraseOld \/ Rename \/ Find \/ ReadTitle \/ WriteTitle

Browse == Scan \/ CardChanged \/ ShowSaved \/ PromptPoll

Player == (\E r \in Names \cup {NewEntry} : OpenPrompt(r)) \/ Confirm \/ Cancel \/ Dismiss

Next == WriteStep \/ Browse \/ Player \/ IoEnds \/ Pull \/ PutBack \/ Reset

(* The screen is updated every frame and the BIOS answers every request; the  *)
(* player and the faults owe nothing.                                         *)
Spec ==
  /\ Init /\ [][Next]_vars
  /\ WF_vars(WriteStep) /\ WF_vars(Browse) /\ WF_vars(IoEnds)
=============================================================================
