# Verification of the Legend of Mana decompilation

TLA+ models of the concurrent and stateful parts of the game program
(`src/src`), the configurations that model-check them, and TLAPS proofs about
them. Paths below are relative to the repository; `cdrom.c` is
`src/src/main/cdrom.c`, `cdrom.md` is
`src/docs/en/technical/architecture/cdrom.md`, `movie_stream.c` is in
`src/src/overlays/movie` and `carda_card.c` in `src/src/overlays/carda`.

1. [Inventory](#inventory)
2. [The CD core](#the-cd-core)
3. [The stream loader](#the-stream-loader)
4. [The movie player](#the-movie-player)
5. [The card save](#the-card-save)
6. [What is checked](#what-is-checked)
7. [Disagreements found](#disagreements-found)
8. [What is proved](#what-is-proved)
9. [Not modelled](#not-modelled)

## Inventory

The program is a PlayStation game: one CPU, no threads. A resident main program
loads overlays into a shared region and runs one loop per overlay. What runs
concurrently with a loop is interrupts: libcd's two callbacks (command answers,
sectors), the MDEC and draw-sync callbacks of the movie player, the memory
card's BIOS events, the vertical blank and the sound driver's timer.

| Component | State it keeps | Operations | Meets | Hard behaviour | What makes it correct | Modelled |
|---|---|---|---|---|---|---|
| **CD command queue and drive recovery** (`cdrom.c`) | `struct CdSystem`: a 16-slot ring of requests, the current command, the step of a pause, reconfiguration or recovery (`init_command`, `init_state`), status bits, the transfer under way, retry counters; libcd's one sync and one ready callback slot | `cdrom_queue_command/read/seek`, `cdrom_process_state` every frame, `cdrom_recover`, `cdrom_stop`, `cdrom_reset`, the handlers `complete_command`, `handle_recovery_sync`, `handle_ready_intr`, `verify_disc`, `verify_recovery` | every loader; libcd; the drive; the movie's MDEC callback | interrupts between two looks at a volatile field; answers lost, late or refused; the shell opened anywhere; another disc; resuming a transfer | first in first out, once and whole; no stray store; handler slots match the operation; errors end only on the game's disc; the queue drains | partly: all but three small functions |
| **CD stream loader and decompressor** (`cdrom.c`, `cdrom_decompress.c`) | scratchpad input buffer, `data_ready`, `bytes_buffered`, `wrap_overflow`, output window | `cdrom_stream`, `cdrom_stream_chunked`, the sector callback, the decoder | command queue (a callback that may refuse a sector) | producer in interrupt, consumer in foreground, compaction of the buffer under the reader | no byte lost, repeated or overwritten before it is read | partly: loader, callback, decoder as a consumer |
| **Movie player** (`overlays/movie`) | video and audio sector rings, `mdec_busy`, `pending_mdec_decode`, `pending_vram_upload`, `video_service_busy` | sector callback, MDEC-out and draw-sync callbacks, frame loop | command queue, sound | three contexts share the service flags; ring wrap | every frame decoded once, whole and in order; no buffer written in use; the movie ends | partly: standard GPU mode |
| **Memory card saves** (`overlays/carda`) | step tables of save, load, format; directory cache; event flags | one step per frame, BIOS events | pad, menus | card pulled between steps; replace by erase and rename | a save survives; a message tells the truth | partly: the save |
| AKAO sound driver (`main/audio`) | voices, sequences, XA stream hand-over | timer tick, commands | movie, field | blocks announced in the foreground, uploaded by the SPU interrupt | stream blocks handed over in order | partly: the XA stream |
| Shared overlay code (`common/*`, `main/card_callbacks.c`) | card events, save directory, glyph cache, key repeat, fade levels | called each frame | overlays | events without a request | see card saves | partly: card events |
| Main loop and overlay dispatch (`main/main.c`, `overlay_memory.c`) | game state, overlay region | dispatch | everything | resource reuse | an overlay is loaded whole before it is entered | no |
| Controller input (`main/controller.c`) | pads, vibration | once a frame | overlays | packet decoding | edges seen once | no |
| Field, world map, menus and other overlays | scene and menu data | one loop each | CD queue, card | data-driven, sequential | - | no |
| CHECKPS console check | polling disc driver | at start-up | drive | retry loops | - | no |

`PROJECT.json` lists the hazards of this code at their lines.

The models fit together as the code does. Everything the game loads goes
through the CD core, which is shown to implement `CdService`, a queue that
serves requests in order, each once and whole. The stream loader and the movie
rings take the drive as `CdService` promises it: sectors in disc order, each
once, a refused one again. The movie's output stage takes frames as the rings
deliver them. The card save stands alone.

In every module a definition introduced by a comment "Slip of X" is X with a
plausible programming mistake. It is not part of the model; each property is
known to fail when one of the slips takes its original's place, so none of them
holds vacuously.

## The CD core

### Modules

| Module | What it is |
|---|---|
| `CdHandlers` | one operator per C function of the core, on one record: the machine before the call to the machine after it |
| `CdSystem` | the state machine: foreground calls, interrupts, the drive, the player; faults; fairness |
| `CdProperties` | what the core promises, as formulas over `CdSystem` |
| `CdErrors` | the inductive invariant behind `ErrorDisarms`, and the conditions it holds under |
| `CdRoles` | the inductive invariant behind `CallbackRoles` and `QuietWhenIdle`, and its conditions |
| `CdTransfers` | the invariant behind `NoNullAccess`, `ResumePoint` and `ServedInOrder`, and its conditions |
| `CdDiscs` | the invariant behind `ValidatedDisc`, `ShellOpenDetected` and `StoredInPlace`, and its conditions |
| `CdService` | the abstract service callers rely on: a first-in first-out queue of requests and the memory they fill |
| `CdRefinement` | the refinement mapping from `CdSystem` to `CdService` |
| `MCCdSystem` | a disc of four sectors and the requests TLC tries |
| `CdSystem_proofs`, `CdRoles_proofs`, `CdTransfers_proofs`, `CdDiscs_proofs` | the theorems |

`CdSystem` EXTENDS `CdHandlers`; `CdProperties` and `CdRefinement` EXTEND
`CdSystem`; `CdErrors` EXTENDS `CdProperties`, `CdRoles` EXTENDS `CdErrors`,
`CdTransfers` EXTENDS `CdRoles` and `CdRefinement`, `CdDiscs` EXTENDS
`CdTransfers`, and `MCCdSystem` EXTENDS `CdDiscs`. The handler operators are separate from
the state machine because the same C function is reached from several contexts:
`cdrom_run_command` from six places, the sync callback from an interrupt and
from inside a blocking `CdControlB`.

### State

`cd` is the machine. Its fields carry the C names (`queue_read_index`,
`init_command`, `playback_state`, ...), with these differences:

* bytes become sectors: `read_remaining >= 2` is the code's "more than 2048
  bytes left" rounded up to whole sectors, `write_ptr` is a buffer and an
  offset in sectors;
* `init_command`'s bit `0x80` is the field `init_retry`;
* `status_flags` is the set of the error, recovery and lock bits. The
  bits "command active" and "suppress idle poll" are not kept, because nothing in
  the program reads the first or sets the second. `defer_data_ready` is left
  out for the same reason: its setter has no caller;
* the two libcd slots are `sync_callback` and `ready_callback`;
* `issued` is the command the drive has still to answer, `waiting` the one
  `CdControlF` holds back because libcd first waits for the earlier answer;
  `reading`, `head`, `sector` are the drive's reading position and the sector in
  its buffer; `filtered` remembers whether Setfilter was carried out;
* `memory` is where sectors land: one sink per destination buffer and one per
  transfer callback (the callback's own buffer is the next component);
* `trap` collects the null pointers gone through.

`fg` is how far the foreground call in progress has got, `lid` and `disc` are
the drive's shell and what is in it, `calls` and `faults` count towards their
bounds `MaxCalls` and `MaxFaults`.

### Actions

An interrupt handler runs to completion and is one step. A foreground call is
split wherever the code looks at a volatile field and acts on it later:

| Point (`fg.at`) | Code |
|---|---|
| `published` | `cdrom_queue_command` has advanced `queue_write_index`, has not looked at `current_command` |
| `checking` | has seen no current command, has not looked at `init_command` |
| `starting` | has installed its handler and waits in `CdSync` before the Nop |
| `observed` | `cdrom_process_state` has seen no current command |
| `watch_command`, `watch_step` | the watchdog has decided and has not acted |
| `blocking` | inside `CdControlB(CdlNop)` |

`starting` and `blocking` are long waits, in which any number of interrupts may
come. The others are windows of a few instructions; drive events are
milliseconds apart, so at most one interrupt lands in each. The constant
`Windows` says in which of them interrupts land at all: the properties hold with
it at one value and the races in *Disagreements found* need another, and the
constant makes the boundary visible.

`Game` are the calls of the program (`QueueCommand`, `Reset`, `Stop`, the queue
lock, `EnterRecoveryMode`); `Queueing` is the rest of a queue call;
`ProcessState` is `cdrom_process_state` (supervision, the two watchdogs,
restart, idle poll and the ten states of automatic recovery); `Recover` is
`cdrom_recover`; `Drive` are the interrupts, the drive and the player.

The drive answers a command before it delivers the next sector (a double-speed
sector takes 6.7 ms, an acknowledgement less than one) unless the fault
"overlap" happens. libcd's `CdControlF` waits for an earlier answer and lets it
reach the sync callback first: `waiting` and `SendWaiting`.

Blocking calls are taken up to their end: a good `CdControlB(CdlNop)` has
delivered its own answer to the sync callback before it returns (`BlockingNop`),
and so has a failed pass of the watchdog's loop, with an error. An idle poll or
a recovery poll that fails is taken to have called no callback. `DispatchHead` stops a
run of Nops at the write index, where `cdrom.c:1516` would go on to dispatch the
stale item there: the game queues no Nop, so no such run exists.

Frame counters are not kept. A poll may be due at any frame; a watchdog that
fires while the drive still has something to say counts as the fault "late"
(240 frames are four seconds), one that fires in silence is free (`TimedOut`).

### Faults

| Fault | Meaning |
|---|---|
| `command` | the drive refuses a command it could have carried out |
| `poll` | a blocking status request fails: the watchdog's asks again, the idle poll counts it, recovery starts over |
| `sector` | a read error instead of a sector |
| `lost` | a command, its answer or a sector's interrupt goes missing |
| `late` | a watchdog fires although an answer is on its way |
| `overlap` | a sector's interrupt overtakes the answer to a later command |
| `refuse` | a transfer callback has no room |
| `lid` | the player opens the shell, and later closes it over any disc in `Inserted` |

Each occurrence counts; `MaxFaults` bounds them, `FaultKinds` selects them.

## The stream loader

| Module | What it is |
|---|---|
| `CdStream` | `cdrom_stream`, `cdrom_handle_stream_data` and the decoder over `CdStreamState` |
| `CdByteStream` | the abstract promise: bytes fed in order, taken in order, at most so many in between |
| `CdStreamProperties` | the properties, and the refinement mapping to `CdByteStream` |
| `MCCdStream` | the instance |
| `CdStream_proofs` | theorems |

A byte of the resource is its position in it, so that "the right byte in the
right place" is an equation between `buffer[a]` and a number; addresses are
relative to the input buffer. The foreground is one step per look at or store
to a shared field and one per opcode (`fg.at`), the sector callback one step
between any two of them. From the look that finds nothing new to the release of
the span the code takes a few instructions, and sectors are milliseconds apart:
at most one lands there (`ReleaseWindow`).

Three details matter. The last, partial sector is stored rounded up to words
while the test for wrapping uses the unrounded size (`cdrom.c:1942`). A sector
the callback refuses is read again. And what an opcode expands to is left out,
only how many bytes of input it takes: the decoder is a consumer that must find
byte after byte.

## The movie player

| Module | What it is |
|---|---|
| `MovieRings` | `cd_sector_callback`, both rings, the frame loop as their consumer, the AKAO stream that plays the audio ring, drive recovery as it meets the sound |
| `MovieRingsProperties`, `MCMovieRings` | properties; the four discs tried |
| `MovieRings_proofs` | theorems |
| `MovieOutput` | from the expanded frame to the shown image: two input buffers, slices in two output buffers, uploads into two images |
| `MovieOutputProperties`, `MCMovieOutput` | properties; instance |
| `MovieOutput_proofs` | theorems |

`MovieRings`: a ring is its C indices and markers (`write`, `read`, `wrap`, last
stored, last consumed frame) and its slots. The markers are what tells a full
ring from an empty one, and they are stored in another instruction than the
index: the foreground is one step per store. The history variables `stored` and
`taken` are the entries the interrupt completed and the ones the consumers
found, each with the slots it lies in; an entry found with a sector of another
has no frame number in `taken`. The discs (`MCStreams`) are: six sound
blocks with a single readable frame; a whole movie; one with sectors missing
from sound and frames; one whose last frame makes the ring wrap early. The
drive reads on behind the last frame. `advance_audio_read` wraps at the video ring's wrap index; the
ASSUME on the sector counts is what makes this harmless. `DiscAssumption` says that
the entries of a ring come with ascending frame numbers: the markers are frame
numbers, and a ring tells full from empty by comparing them. A pause comes from the
foreground and the end of a recovery from an interrupt, up to two times.
`CompareWindow` says whether an interrupt lands between the two reads of the
write index in `get_next_audio_entry`; see *Disagreements found*.

`MovieOutput`: the MDEC, the GPU and their libraries are external. `DecDCTout`
asks for a slice, `LoadImage` queues an upload that reads its buffer when it is
carried out, `DrawSync` counts the uploads not finished, the wait for the
vertical blank before the flip outlasts the last uploads. Between the look for a
frame (`NoFrame`) and the look at `end_of_stream` (`Exhausted`) any interrupt may
come, even the two sectors that complete the last frame and end the stream,
which the drive does not deliver that fast. The branch of
`movie_service_video_ops` for a put-off upload is left out, and `UploadedAtOnce`
shows that it is never entered. `SliceWindow` says whether a whole slice may be
asked for, decoded and its interrupt served between two neighbouring
instructions of `movie_service_video_ops`. A slice is sixteen pixels of an image's height
through the MDEC, the gap is a few instructions: the checks and
theorems have it FALSE. With TRUE, TLC finds that the GPU status polled before
the two looks is stale by two slices and a buffer waiting for upload is decoded
over, and that a decode request set by the interrupt is cleared with the old one.

## The card save

| Module | What it is |
|---|---|
| `CardSave` | the step machine of the save screen, its windows, a card and the BIOS's requests |
| `CardSaveProperties`, `MCCardSave` | properties; instance |
| `CardSave_proofs` | theorems |

A file is named by its serial or is the placeholder; its content is one of
six stages of being written. A save is: erase the old file (only if the card
has no room for a second), create the placeholder, write, poll, erase the old
file, rename, find, read and patch the title. Each access is one step, so that
a pull, a glitch or a console reset falls between any two. The player may select
any file on the card, a leftover placeholder included, where the browser offers
the game's own saves (`OpenPrompt`): one more way into the same steps. An access to a card
put back fails until the scan clears it, as the new-card event tells. BIOS
events carry no request: `events` is a set, and `FirstEvent` takes them in the
order of `poll_software_card_events`.

The step tables lie in a data blob that is not in the repository; their order
is inferred from the steps' own successors. The initial scan is one action, a
directory read never fails, the same card comes back. `Exposed` names the
places where a fault can cost the save and `Landed` those where the data are on
the card; the history variables `hurt` and `late` remember a fault there. The
properties say that nothing else costs anything.

## What is checked

| Run | Question | Properties | States |
|---|---|---|---|
| `service` | three calls (reads, seeks, stop, lock), any two faults, an interrupt between any two looks of a queue call and of a service: is the queue first in first out, each request once and whole? | `TypeOK`, `NoNullAccess`, `CallbackRoles`, `ServedInOrder` | 254,000 |
| `faults` | direct and streamed reads, any two faults, a disc change among them, all four discs: do the handlers, the transfer under way and the memory stay right? | `RolesInv`, `ErrorDisarms`, `ErrorInv`, `TransferInv`, `DiscInv`, `ValidatedDisc`, `StoredInPlace`, `ShellOpenDetected` | 462,000 |
| `reconfigure` | explicit reconfiguration with a request queued meanwhile, any two commands refused, lost or late: is the handshake guarded, and does it end? | `CallbackRoles`, `QuietWhenIdle`, `Reconfigured` | 6,600 |
| `drains` | a streamed file and a movie, the reset after it; a refused command, a read error, a lost or overtaken answer, a disc change: does the queue drain? | `CallbackRoles`, `ResumePoint`, `Drains` | 22,000 |
| `cd_stream` | a one-sector, a five-sector and a nine-sector resource, a sector between any two steps of the decoder: does it find every byte, and come to the last? | `TypeOK`, `WordAligned`, `InputInPlace`, `StreamImplements` | 148,000 |
| `movie_rings` | movies through rings that wrap several times, sectors missing, a drive recovery anywhere: do frames and sound come out whole, in order, once? | `TypeOK`, `VideoInOrder`, `AudioInOrder`, `AnnouncedOnce`, `PauseRemembered`, `MovieEnds` | 607,000 |
| `movie_output` | four frames of twenty slices, a stream that may break off anywhere: are the images shown consecutive frames, each whole, none twice or skipped, is a buffer ever overwritten, does playback end? | `TypeOK`, `BuffersApart`, `OneStepAhead`, `UploadedAtOnce`, `ShownInOrder`, `PlaybackEnds` | 125,000 |
| `card_save` | saves one after the other on a card with and without room for a second file, any three of pull, reset and glitch: is there a save that loads, and is every save ended by a message? | `TypeOK`, `SaveSurvives`, `NamedFileWhole`, `OldKept`, `SavedUnlessLate`, `SaveEnds` | 82,000 |

Two properties are refinements. `ServedInOrder` is `Queue!Spec`, the
specification `CdService` under the mapping of `CdRefinement` (the ring between
its two indices is the pending sequence): retries, watchdogs, resumed
transfers, recovery and superseded seeks are invisible to the callers.
`StreamImplements` is `Stream!Spec`, the specification `CdByteStream` with its
fairness: the callback that refuses sectors and the foreground that waits for
input never wait for each other. `CallbackRoles` is the table of callback roles
of `cdrom.md` as one invariant: there is one sync slot for five uses, and the
handler in it decides what an answer means. `RolesInv` contains it and adds what
makes it inductive; `TransferInv` contains `NoNullAccess` and `ResumePoint`;
`DiscInv` is what `ValidatedDisc`, `ShellOpenDetected` and `StoredInPlace` rest on.

### Bounds

* CD core: a ring of 3 slots (2 usable) wraps, fills and empties, which are the
  cases that differ from 16; retry limits of 1 in place of 17, 11 and 13 (no
  retry, the limit and the fallback all happen); a disc of four sectors (the
  validation sector, a two-sector and a one-sector resource: a first, a middle
  and a last sector, and a neighbour that a sector too many would reach). Two or
  three calls are a request in progress, one behind it and a full ring.
* Stream loader: sectors of 6 bytes, a buffer of 4, a guard of 4 and words of 2
  for 2048, 4, 280 and 4: a sector still is more than the guard and whole
  words, an opcode of up to 3 bytes may straddle two sectors. 54 bytes are nine
  sectors, twice round the buffer; 28 and 5 end in a partial sector, the latter
  before the buffer was ever full.
* Movie rings: 9 video and 6 audio sectors, blocks of 2: three audio blocks (the
  stream starts with two), frames of one to three sectors; six frames wrap both
  rings several times.
* Movie output: the game's slice count, threshold and retries; four frames use
  each buffer and image twice.
* Card: three serials (two saves on top of the first), 3 retries of a write in
  place of 5 and 2 attempts at an access in place of 20 (a first, a next and a
  last one), three faults (in the save, on the way back, and one more).

`CHECK_DEADLOCK FALSE` where the system may rest: a game that has made its last
call, a load or a movie that is over. The card screen never rests.

### Fairness

* `ServiceFairness` (CD core): every loop of the program calls
  `cdrom_process_state` once a frame (and `cdrom_recover` while it is pending), a
  call once begun is finished, and a time-out comes due if nothing else happens.
  The watchdog is strongly fair because the foreground alternates between looking
  and collecting. A lock of the queue is released.
* `DriveFairness`: the drive answers what it was given and delivers sectors while
  it reads; the disc spins up; an open shell is eventually closed over the
  game's disc. Strong, because an interrupt that is raised while the foreground
  is between windows is served later.
* `DecoderFairness`: the movie's decoder comes to a sector put off, and now and
  then in time.
* `CdStream`: weak fairness of the sector interrupt and of the foreground, which
  loops without waiting for anything else.
* `MovieRings`: the foreground loop, the MDEC and the SPU's refill interrupt are
  weakly fair, the drive comes out of a recovery; sectors strongly, because a
  full ring and a recovery hold them back in between.
* `MovieOutput`: weak fairness of the foreground, of each interrupt, and of the
  frames coming.
* `CardSave`: the screen runs a step every frame and the BIOS answers each
  request. The player, the faults and the return of a pulled card owe nothing.

No call, fault, stop or reset is ever due. `Faultless /\ A` restricts
fairness to the occurrences of `A` that need no fault.

## Disagreements found

Each is a run that TLC ends with a counterexample; `PROJECT.json` quotes the line
that the code disagrees with.

| Run | Property | What happens |
|---|---|---|
| `null_destination` | `NoNullAccess` | The queue empties and its pause is answered between the two looks of `cdrom_queue_command`: the queue is started twice, and a streamed transfer goes on without its callback, with NULL as destination |
| `stream_overrun` | `InsideBuffer` | Three sectors have wrapped and a fourth joins them: the guard of 280 bytes and four sectors end behind the buffer, in what FIELD uses as its text cache |
| `movie_audio_entry` | `AudioEntryValid` | The CD interrupt wraps the audio ring between two reads of its write index in `get_next_audio_entry`; the entry returned may lie behind the ring |
| `saved_means_saved` | `SavedMeansSaved` | A card pulled after the data were written: no result of erase, rename or title patch is looked at, and "Saved." is shown over a card that has no loadable save |

Seen while modelling, at the boundary of what the passing runs assume:

* a lost Setfilter is followed by Demute: the time-out repeats the step after the
  one outstanding, and the filter is never set (`cdrom.c:1369`);
* the Nop before a movie fails, and the failure path sends ReadS without setting
  `audio_enabled`: movie sectors take the data path (`cdrom.c:1574`);
* `cdrom_can_queue_resource` misses slot 0 after the ring has wrapped
  (documented and kept, `cdrom.c:2359`);
* the decoder serves a sector put off before an error and installs handlers the
  error had cleared (`cdrom.c:1393`);
* a final pause is lost, the watchdog's Nop is answered to
  `cdrom_handle_recovery_sync`, which takes it for the pause and does not look at
  the shell-open bit the drive reports only once (`cdrom.c:1202`);
* with an interrupt in `watch_command` and a lost answer the watchdog decides that
  a command timed out, the command's last sector comes, the watchdog acts, and
  the final pause is answered to `cdrom_complete_command`: `CallbackRoles` fails
  (`cdrom.c:1177`);
* with "overlap" and an interrupt in `published`, `CallbackRoles` and
  `ServedInOrder` fail in the way of `null_destination`; "overlap" is therefore
  tried in `drains`, on requests for which the double start does not come;
* with an interrupt in `observed` and the shell opened there, `Restart` installs a
  handler over the error, and `ErrorDisarms` fails;
* `ErrorDisarms` also fails with three faults, among them a lost answer to
  recovery's last Setmode and an opened shell: the Nop of the next poll finishes
  the recovery from inside the poll, and the poll then sets the error again with
  `cdrom_complete_command` installed;
* while a reconfiguration is pending the shell-open bit is ignored, as `cdrom.md`
  says; `reconfigure` therefore opens no shell;
* the callback of the stream loader decides whether a last, partial sector may
  wrap by its bytes and stores it by whole words (`cdrom_decompress.c:463`,
  `cdrom.c:1942`): wrapped right behind the cursor it overwrites up to one word
  less a byte of input not read yet, where `cdrom.md:303` says that pressure
  "causes a sector retry rather than overwriting unread compressed data". TLC
  violates `InputInPlace` with a resource of 45 bytes in the geometry of
  `cd_stream`. A resource of whole words, or one that fits the buffer, is safe:
  `WholeWords` in `CdStream_proofs`, which the sizes of `cd_stream` satisfy;
* `movie_service_video_ops` with a slice between two of its instructions
  (`movie_stream.c:150`, above);
* playback ends before the last frame is shown when an earlier image completes
  after the last frame's expansion began (`near_end`). `ShownInOrder` says that no
  image is skipped between two that are shown, not that the last one is shown;
* on a card without room a placeholder whose single erase failed keeps the next
  save from being created after the old one has gone (`carda_card.c:269`, part
  of `Exposed`); a title read that fails before a title write that succeeds
  leaves a garbled first sector (`hurt`).

## What is proved

TLAPS checks the theorems below for every value of the constants that satisfies
the named assumptions of the modules. In each component the invariant that is
proved was first checked by TLC.

| Module | Theorem | Property | Hypothesis |
|---|---|---|---|
| `CdSystem_proofs` | `TypeCorrect` | `TypeOK` | - |
| | `OnlyRecoveryAnswers` | `ErrorInv` | `DataFilesOnly` |
| | `ErrorsDisarm` | `ErrorDisarms` | `DataFilesOnly` |
| `CdRoles_proofs` | `RolesHold` | `RolesInv` | `DataInTurn` |
| | `CallbackRolesKept` | `CallbackRoles` | `DataInTurn` |
| | `IdleIsQuiet` | `QuietWhenIdle` | `DataInTurn` |
| `CdTransfers_proofs` | `TransfersHold` | `TransferInv` | `ReadsInTurn` |
| | `NoNullAccessEver` | `NoNullAccess` | `ReadsInTurn` |
| | `ResumesInPlace` | `ResumePoint` | `ReadsInTurn` |
| | `ServesItsCallers` | `ServedInOrder` (`Spec => Queue!Spec`) | `ReadsInTurn` |
| `CdDiscs_proofs` | `DiscsHold` | `DiscInv` | `AnsweredInTurn` |
| | `ForgivenOnlyForTheGame` | `ValidatedDisc` | `AnsweredInTurn` |
| | `NoOpenedShellMissed` | `ShellOpenDetected` | `AnsweredInTurn` |
| | `NothingMisplaced` | `StoredInPlace` | `AnsweredInTurn`, `ReadsInTurn` |
| `CdStream_proofs` | `StreamTypeCorrect` | `TypeOK` | `WholeWords` |
| | `WordsStayAligned` | `WordAligned` | `WholeWords` |
| | `InputStaysInPlace` | `InputInPlace` | `WholeWords` |
| | `StreamStepsImplemented` | safety part of `StreamImplements` | `WholeWords` |
| `MovieRings_proofs` | `RingsTyped` | `TypeOK` | `~CompareWindow` |
| | `VideoKeepsOrder` | `VideoInOrder` | - |
| | `AudioKeepsOrder` | `AudioInOrder` | `~CompareWindow` |
| | `NeverAnnouncedEarly` | `AnnouncedOnce` | `~CompareWindow` |
| | `EntryValidOutsideWindow` | `AudioEntryValid` | `~CompareWindow` |
| | `PauseKept` | `PauseRemembered` | - |
| `MovieOutput_proofs` | `OutputTypeCorrect` | `TypeOK` | `~SliceWindow` |
| | `BuffersStayApart` | `BuffersApart` | `~SliceWindow` |
| | `OneStepIsAhead` | `OneStepAhead` | `~SliceWindow` |
| | `UploadsGoAtOnce` | `UploadedAtOnce` | `~SliceWindow` |
| `CardSave_proofs` | `SaveTypeCorrect` | `TypeOK` | - |
| | `SaveOutlivesWrites` | `SaveSurvives` | - |
| | `NamedFilesWhole` | `NamedFileWhole` | - |
| | `OldSaveKept` | `OldKept` | - |
| | `SavedIsTrueUnlessLate` | `SavedUnlessLate` | - |

### The CD core

`CdSystem_proofs` proves, with TLAPS,

    THEOREM TypeCorrect == Spec => []TypeOK

for every value of the constants that satisfies the assumptions of `CdHandlers`
and `CdSystem`: a ring of at least two slots, natural retry limits, a resource
table whose entries lie on the disc, distinct pointers, and requests the
interface can express. Nothing is assumed about `Windows`, `FaultKinds`,
`MaxFaults` or `MaxCalls`: the theorem covers every race between the points of [Actions](#actions).

`TypeOK` is inductive as it stands, but not shallow in the places where a field
is computed: ring indices modulo `QueueSize` (`SlotOf`), the searches of
`RunCommand` and `DispatchHead`, whose stop set must be shown nonempty and to
have a least element (`MinOfNats`, by well-foundedness of the naturals), the retry
counter that is increased only below its limit (`RetryCountType`; the slip
`GivesUpLate` breaks exactly this), `read_remaining`, which is decreased only
above one sector, and `init_command + 1`, which is a step only for three of
them (`NextStepType`).

There is one lemma per operator of `CdHandlers` (*handler maps machines to
machines*), then one per group of actions; the theorem has one step per action
of `Next`.

It also proves

    THEOREM ErrorsDisarm == ASSUME DataFilesOnly PROVE Spec => []ErrorDisarms

for every value of the constants, as above, that also satisfies `DataFilesOnly`: the
game offers reads and seeks but no movie, does not reconfigure, the drive loses
no answer, and no interrupt lands at `observed` or at the watchdog's points. Any
number of refused commands, read errors, failed polls, late time-outs and disc
changes is allowed. Lost answers, movies and the excluded windows each break the
property (see [disagreements](#disagreements-found)); the
reconfiguration is left out for the proof's sake, TLC finds no violation with it
and three faults.

`ErrorDisarms` is far from inductive: a later answer, sector or poll could put a
handler into a slot. `ErrorInv` (`CdErrors`) says why none does:

* `Plain`: without a movie request `audio_enabled` stays off, so no decoder serves
  a sector late;
* `Guarded`: from an error until it is cleared only `cdrom_handle_recovery_sync`
  and `cdrom_verify_disc` are installed, only at a recovery step, none before
  recovery has sent its first command, and SYNC_ERROR stands only while
  recovery has not seen the shell closed;
* `Owed`: while recovery's sync callback is installed the drive owes an answer;
  so when a poll finds the drive free the slot is empty, and the status request
  of the poll cannot run a handler from inside `cdrom_process_state`;
* `Undisturbed`: a service that has found no error acts before one can come up.

A handler that reports no error keeps a machine without errors without errors
(`Calmer`, proved together with each handler's type), so the proof of
a normal handler is one citation (`CalmKeepsSound`); what is left is recovery's own
handlers, step by step (`HandleRecoverySyncSound`, `VerifyDiscSound`), and one lemma
per group of actions. The run `faults` checks `ErrorInv` as an invariant.

`CdRoles_proofs` proves `Spec => []RolesInv` under `DataInTurn`: no movie, no
"overlap", interrupts anywhere but between the halves of a watchdog. Each of the
three is needed: the list of [disagreements](#disagreements-found) has the
counterexamples for overlap and for `watch_command`, and a movie's sector put
off is served by the decoder whatever stands in the slots by then. Unlike in
`DataFilesOnly`, answers may be lost, the drive may be reconfigured and an
interrupt may land between the looks of a service. `RolesInv` is the type
invariant and, over the machine `cd`, `Roles`:

* `DataQueued`: the entries between the indices are reads and seeks, so none is
  dispatched as a movie and no sector is put off;
* `Commanding`, `Receiving`: `cdrom_complete_command` and `cdrom_handle_ready_intr`
  pop the entry at the read index, so they may be installed only while there is
  one, no step is outstanding, and, for sectors, it is a read. This is what makes
  the sync slot's two uses by commands and by steps exclusive;
* `Exclusive`, `Stepped`: a pause or a step of the reconfiguration has both slots to
  itself, and `cdrom_handle_recovery_sync` never stands without a step. With
  `Commanding` this is `CallbackRoles`, and for a resting drive `QuietWhenIdle`;
* `Recording`: which error bits stand at recovery's states and steps. Without it
  recovery could be found at a step with `Failing` false, and the next
  service would restart the queue over recovery's handler;
* `Strayed`: one answer to recovery (a rejected disc) leaves the retry flag without
  a step. `init_command` as a C value is then not zero, but no step stands behind
  it; the conjunct says that this happens only at the two states that send
  their command before anything looks;
* `Reconfigures`: it begins only at rest and while `RECOVERY_PENDING` stands no
  command is started.

The foreground has read some of this before an interrupt and acts on it after:

* `EntryKept`: from the moment `cdrom_queue_command` publishes an entry until it has
  looked at `init_command` the queue does not run empty under it: an interrupt can
  retire an entry only if another is behind it (`Spare`), or if libcd holds a
  command back, and then with the shell open, where no answer finishes an entry
  (`Stuck`);
* `ServiceKnows`: a service that found no command and no error still finds none, and
  a watchdog's decision still stands.

The proof has one lemma per C function (each keeps `Roles`), then one per action
for `EntryKept` and `ServiceKnows`, about 3,900 obligations. `faults` checks `RolesInv`.

`CdTransfers_proofs` proves that the core implements the service its callers rely on,

    THEOREM ServesItsCallers == ASSUME ReadsInTurn PROVE Spec => ServedInOrder

for rings, discs, requests and faults of any number. `ReadsInTurn` is `DataInTurn`
and two more conditions. A read has a destination, a callback or a buffer: with
neither, the first sector goes through NULL. And if an interrupt may land
between the two looks of `cdrom_queue_command` (`checking`), no read has a
callback: this is the race of `null_destination`, in which the second look starts
the queue again and clears the callback of the transfer begun in between.

The argument is about one relation between the machine before and after a C
function. A handler either leaves the transfer alone (`Leaves`: indices, entries,
counters, position, destination and memory are as before; most handlers, every
error path) or serves the queue (`Serves`: it passes k entries, of which only the
first may be a read, which must then lie in memory whole, and the others
superseded seeks, and puts at most the next sector of the read at the read index).
Both are transitive, so a handler is shown along its calls, and `ServesAfter`
composes the two kinds. What makes a sector the *next* one is `TransferInv`:

* `Readable`: every read in the ring, the retired ones included, has an extent and a
  destination;
* `Listening`: while `cdrom_handle_ready_intr` is installed the counters, the
  position and the destination are those of the read at the read index, and what
  they say has been moved is in memory (`Counted`, `Filled`);
* `Streaming`: so it is for a transfer with a callback whether or not it has been
  interrupted. A direct read keeps nothing: it is dispatched again from its first
  sector, and stores the same bytes again;
* `Resumed`: only a transfer with a callback is ever to be resumed, because
  `read_remaining` and the position survive only for that kind;
* `Seeking`: an answer that retires a seek finds a seek at the read index;
* `Unhurried`: the second look of `cdrom_queue_command`, if no interrupt can land
  before it, finds what the first one saw.

`RolesInv` is used at every callback: it says that a sector's or a command's handler
belongs to the entry at the read index. The foreground adds the two other steps of
`CdService`: `cdrom_queue_command` puts one entry behind the last, and dropping the
queue takes all (`Progress`). The refinement mapping needs what the ring's
arithmetic says of sequences: passing k entries drops the first k of `PendingOf`
(`PendingPassed`), putting one appends it (`PendingAccepted`).

`CdDiscs_proofs` proves what the player's part in it comes to: whenever the shell is
opened and whatever disc is put in, an opened shell is noticed, an error is
forgotten on the game's disc only, and

    THEOREM NothingMisplaced == ASSUME AnsweredInTurn, ReadsInTurn PROVE Spec => StoredInPlace

`AnsweredInTurn` is `DataInTurn` and `DataFilesOnly` together. A lost answer to the
final pause lets the shell-open bit go to a handler that does not look at it, and
a lost answer to recovery's last step lets a poll finish the recovery
([disagreements](#disagreements-found)); during a reconfiguration the bit is
ignored on purpose. None of the three can be seen from one step: whether a sector
comes from the game's disc is decided several steps earlier, by what has become
of the open shell. `DiscInv` (`CdDiscs`) follows it through its three stages:

* `Stopped`: while the shell is open, or was opened and no status answer has said so
  yet, the disc does not turn, so no sector can come;
* `Reporting`: until that answer comes the drive holds no command back, and a
  command under way, or one the service is about to send, is the Nop of
  `cdrom_complete_command`, which looks at the bit. Only one answer carries it: if
  the next status request belonged to a pause or to recovery's sync handler, the
  opened shell would be lost;
* `Refused`: from the report on another disc means a standing error;
* `Verified`: recovery's last step, the only one that clears an error, is reached on
  the game's disc only;
* `Answering`: a step has its sync handler and the drive owes it an answer, so that
  a poll never completes one from inside `cdrom_process_state`;
* `Unchanged`: a service that found no command does not act on one.

It is inductive together with `RolesInv` and `ErrorInv` (`Held`). Two relations over a
step carry the proof. `Moves` is about the machine: an error lasts until recovery's last step
(`Lasts`), that step is entered only by a comparison with the game's sector
(`VerifyDiscVerifies`), the drive starts to read only with the shell closed, and memory
changes only through `cdrom_handle_ready_intr`. `Sees` is about the shell: what
`Reporting` says after the step, and the error at the report. The handlers are
shown with `Carries`, `Works` and `Receives` along their calls, as `Leaves` and `Serves` are;
`StepMoves` and `ShellMoves` collect the actions. *Where* a sector goes is then
`TransferInv` and `Progress` (`StoredThere`), *whose* it is `DiscInv` (`StoredFromGame`).

### The stream loader

For every geometry that satisfies `GeometryAssumption`: at least three sectors in
the buffer (the game has four; the proof uses it where a sector joins wrapped
ones), a guard shorter than a sector, both whole words, and any opcode lengths the
guard covers. `WholeWords` is needed (see above). The conjuncts of `IInv` are

* `Begun`, `Ended`: nothing has moved before the first sector, the decoder never
  runs past the payload, and it stops only when everything is in;
* `Placed`: which of `data_ready` and `input_complete` stand at each point of the
  foreground, that is, who may touch the buffer;
* `Conserved`: every byte that is in has been expanded, lies in the span from the
  cursor on, or has wrapped and lies from `WrapStart` on, in order. This is
  `InputInPlace` for the moments between two stores as well, where the span and the
  wrapped count are of two different times (`Reconciled`);
* `Counted`, `Taken`: the locals of the foreground against the shared counters the
  callback may have raised since: `remaining_size` is right up to what of this span has
  been read, and the decode limit is the one of an earlier, shorter span;
* `Tail`: what a released span leaves to be moved is at most the guard, or the
  one sector that slipped in after the last look. This is why it fits in
  front of the wrapped sectors;
* `Bounded`: the span lies in the buffer and the guard behind it, the wrapped sectors are whole and
  end before the cursor;
* `Words`: until the last sector all of it ends with a word.

The sector callback has three ways to place a sector (append, wrap, join) and
the foreground two to release one (step on, compact); each has a lemma. From
the invariant every step is one of `CdByteStream` (`StreamStepsImplemented`): `FeedStep`
for a sector taken, `TakeStep` for an opcode.

### The movie's rings

For every capacity, block size, number of retries and recoveries and every disc that
satisfies the assumptions of `MovieRings`: the audio ring is more than two whole
blocks, an audio entry fills a block, a video entry fits the part of its ring
behind the audio ring's length, and frames ascend. Sectors may be missing
anywhere. `~CompareWindow` is needed for the audio ring: with an interrupt between the two
reads of the write index `get_next_audio_entry` returns an entry that is not
there (run `movie_audio_entry`, whose property is proved here without the window).

`Producing` is about the interrupt alone. Completed entries have ascending frames, and
what is open or still to come is newer (`Ordered`), so that two entries never share a
marker and a stale marker is never taken for a new one. `Open` counts the sectors set
aside for the entry under way; the room was tested for all of them at the first.

`VideoInv` is the video ring as its slots are used:

* `Tiled`: the entries not freed lie one behind the other, in one segment from the read
  to the write index (`InLine`) or in two, from the read index to the wrap mark and from
  zero to the write index (`Turned`). Neither the interrupt's test of indices and
  markers nor the foreground's is about this; `ModeTold` shows that they tell it,
  `RingReserved`, `RingCompleted` and `RingFreed` that every step keeps it;
* `Intact`, `Filling`: each of these entries is whole in its slots, and so is the one under
  way as far as it has come; what is set aside is apart from both (`RingApart`);
* `VideoRead`: what the foreground has seen at each of its places, while the interrupt
  goes on. The end of an entry read from the wrap mark is kept in a local variable, and
  the ring may have turned meanwhile.

`AudioInv` is the audio ring, which has three readers: the entry `get_next_audio_entry`
announces, the block the SPU uploads and the block whose slots are freed.

* `AudioTaken` orders them: freed <= released <= uploaded <= announced <= completed. The
  code keeps no count of the released ones; read index, queued count and marker
  together tell it (`AudioMarked`, `AudioTypes`);
* `AudioHeld`: block k always lies in slot k modulo the number of blocks (`BlockAt`), and the
  indices point behind the freed and the completed ones (`Points`), where an index may
  rest at the end of the ring;
* `Streaming`: the SPU's own block counter names the slot of the next block. Nothing
  couples the counter to the ring but the order of the calls;
* `AudioRead`: as `VideoRead`. `NextEntryTold` is its core: queued count and read index
  together point at the next completed entry, or where it is being written.

`advance_audio_read` compares with the *video* ring's wrap mark; the proof
shows that the mark is zero or beyond every audio index (in `VideoHeld`), so the
comparison never holds.

`PauseRemembered` needs one more conjunct: between the resumption of the sound and the
note of it nothing pauses it again (`PauseInv`).

### The movie's output stage

For any number of slices, frames and retries and a threshold of one or two. The
inductive invariant is the conjunction of

* `Types` and `Pipeline`: the last slice sent lies in the buffer that is not
  next (`Alternating`), and a slice is asked for only while fewer uploads than
  the threshold are under way (`Bounded`): this is why two buffers suffice;
* `Serviced`: what holds between the foreground's look at the GPU and its last
  store, place by place. The decode request it saw stays the only one, because
  no slice is outstanding while one is pending; and the number of uploads cannot
  grow, for the same reason. Without `~SliceWindow` this conjunct breaks;
* `Fetched`: an image whose last slice is sent is off the buffers before the
  next begins;
* `Input`: the frame being expanded is never the one in the MDEC.

### The card save

For any number of saves, retries, attempts and faults of any kind. The conjuncts
of `IInv` follow the save through its steps:

* `Whole`: what a file under a save's name may hold, and which step or fault
  put it there;
* `Request`: the write under way is this save's. The events are cleared when it
  is issued and it is the only request until it ends, so that a "complete" event in the poll
  is its own;
* `Named`: the serial the save is written under names no other file: it is one
  above the largest (`LargestSerial`, by well-foundedness of the naturals), and
  the steps before the rename create none;
* `Kept` (unless `hurt`): where the player's save is at each step. On a card
  without room, after the erase, it is nowhere, and what has to be shown is
  that the create cannot fail: the card is in, no placeholder is in the way and
  `Used(files) < room`, by the cardinality lemmas `UsedDrop`, `UsedAdd`, `UsedSame`;
* `Fits`: no more files than the card holds;
* `Told`: what the window shows, and what is behind a "Saved." about to be shown;
* `Chosen`: a selected placeholder is on the card, so that no write begins over it,
  and `EraseOld` never erases the new file;
* `Counted`: an attempt being made is one of those counted down.

### Only model-checked

Liveness (`Drains`, `Reconfigured`, `MovieEnds`, `PlaybackEnds`, `SaveEnds`) is out of
the prover's reach, and with it the fairness part of `StreamImplements`.
`ShownInOrder` has been
checked on the instance above and not proved; so has everything in the instances
outside the hypotheses of the theorems (movies, windows of the watchdog, overtaken
answers).

## Not modelled

| What | Why |
|---|---|
| `cdrom_restore_callbacks`, `cdrom_defer_data_ready`, `cdrom_can_queue_resource`, the error code of the status bits | called on the way out of the program; without a caller; without effect on the queue; presentation |
| `cdrom_stream_chunked`, `cdrom_decompress_buffer`, the expansion of each opcode | the same input discipline with the output cut into pieces; a decoder with no state beyond one call; data. The time-out of `cdrom_stream` only services the drive |
| alternate GPU mode, skip and fade of the movie | another layout of the same buffers; foreground only |
| load, format, the PocketStation modes, another card put in | same step machine and accesses as the save; hardware |
| glyph cache, key repeat, fades, text, save directory order | one context, called once a frame, no failure: unit tests reach them |
| AKAO sequencer | interprets music data tick by tick; its state is the score's |
| main loop, overlay dispatch, controller | sequential; loading is `CdService`'s promise |
| field, world map, menus, other overlays | most of the program's lines: rendering, collision, scripts and effects, data-driven sequential code whose state is far beyond a finite model. Their use of the disc queue is modelled in `CdSystem` |
| CHECKPS | a polling driver run once, before the game |
| generated and linker data, build tools | no run-time behaviour |

What would come next: the card's load and format on the accesses of
`CardSave`; `cdrom_stream_chunked` on `CdStream`; a proof of `ShownInOrder`.
