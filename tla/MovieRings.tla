----------------------------- MODULE MovieRings -----------------------------
(***************************************************************************)
(* The movie player's sector rings (src/src/overlays/movie/movie_stream.c, *)
(* movie_update of movie.c) and the AKAO stream that plays the audio ring  *)
(* (src/src/main/audio/akao_cmd.c, akao_xa_stream.c).                      *)
(*                                                                         *)
(* Three parties share the rings: cd_sector_callback fills them from the   *)
(* CD interrupt, movie_update empties them in the foreground, and the SPU  *)
(* interrupt uploads the audio blocks the foreground has announced.  An    *)
(* interrupt handler is one step; the foreground is one step per look at a *)
(* volatile field or store to one.                                         *)
(*                                                                         *)
(* The command core hands over the sectors in disc order, each once        *)
(* (CdService); what is on the disc is the parameter Streams.  What        *)
(* becomes of an expanded frame is MovieOutput's business: here the MDEC   *)
(* is busy with it for a while.                                            *)
(***************************************************************************)
EXTENDS Integers, Sequences

CONSTANTS
    VideoCapacity,  \* video_ring_capacity, in sectors
    AudioCapacity,  \* audio_ring_capacity
    BlockSectors,   \* AUDIO_SECTORS_PER_XA_FRAME
    VlcRetries,     \* STANDARD_VLC_RETRY_COUNT
    TotalFrames,    \* total_frames
    Streams,        \* what the disc holds: sequences of sectors
    MaxRecoveries,  \* bound: drive recoveries in a behaviour
    CompareWindow   \* whether an interrupt may land inside the last test of
                    \* get_next_audio_entry

Sector == [type : {"video", "audio"}, frame : Nat \ {0}, idx : Nat, count : Nat \ {0},
           final : BOOLEAN]
Blocks == AudioCapacity \div BlockSectors     \* ring_block_count

ASSUME CapacityAssumption ==
    /\ VideoCapacity \in Nat \ {0} /\ AudioCapacity \in Nat \ {0}
    /\ BlockSectors \in Nat \ {0} /\ AudioCapacity % BlockSectors = 0
    /\ Blocks > 2                             \* AKAO_XA_START_FILL_BLOCK
ASSUME StreamAssumption ==
    /\ VlcRetries \in Nat /\ TotalFrames \in Nat /\ MaxRecoveries \in Nat
    /\ CompareWindow \in BOOLEAN
    /\ \A s \in Streams : s \in Seq(Sector) /\ \A i \in 1..Len(s) :
         /\ s[i].count <= VideoCapacity - AudioCapacity
         /\ s[i].type = "audio" => s[i].count = BlockSectors

(* On the disc the entries of a ring come with ascending frame numbers. *)
FramesAscend ==
    \A s \in Streams : \A i, j \in 1..Len(s) :
        i < j /\ s[i].type = s[j].type /\ s[i].idx = 0 /\ s[j].idx = 0
            => s[i].frame < s[j].frame

ASSUME DiscAssumption == FramesAscend

NONE == 0       \* MOVIE_FRAME_NONE, the marker of a ring never used
Blank == [type |-> "none", frame |-> NONE, idx |-> 0, count |-> 0, final |-> FALSE]
UPLOAD_NONE == -1    \* AKAO_XA_UPLOAD_BLOCK_NONE
StartFillBlock == 2  \* AKAO_XA_START_FILL_BLOCK

VARIABLES
    stream,      \* the sectors of the disc
    pos,         \* the next of them to come
    producer,    \* the fields only cd_sector_callback keeps
    video,       \* the video ring's indices and markers
    vslots,      \* its headers and payloads
    audio,       \* the audio ring's indices, markers and queued sectors
    aslots,      \* its sectors
    fg,          \* the foreground: where it is, and its locals
    mdec,        \* mdec_busy, frame_ready and mdec_retry_pending
    ends,        \* end_of_stream, end_state, and whether the read was stopped
    xa,          \* g_akao_xa_tracker
    audio_stream_state,
    recovery,    \* whether the drive is out of order, and how often it was
    stored,      \* the entries completed in each ring, in order, and their places
    taken        \* the entries found in the slots: expanded, and uploaded

vars == <<stream, pos, producer, video, vslots, audio, aslots, fg, mdec, ends, xa,
          audio_stream_state, recovery, stored, taken>>

ring == [write |-> 0, read |-> 0, wrap |-> 0, last |-> NONE, consumed |-> NONE]

Init ==
    /\ stream \in Streams
    /\ pos = 1
    /\ producer = [remaining |-> 0, continuation |-> "video", chunk |-> 0, frame |-> 0]
    /\ video = ring
    /\ vslots = [i \in 0..VideoCapacity - 1 |-> Blank]
    /\ audio = [r |-> ring, buffered |-> 0]
    /\ aslots = [i \in 0..AudioCapacity - 1 |-> Blank]
    /\ fg = [at |-> "update", local |-> 0, vlc |-> 0]
    /\ mdec = [busy |-> FALSE, frame_ready |-> FALSE, retry_pending |-> FALSE]
    /\ ends = [stopped |-> FALSE, end_of_stream |-> FALSE, state |-> "running"]
    /\ xa = [waiting |-> TRUE, playing |-> FALSE, paused |-> FALSE, filled |-> 0,
             fill_block |-> 0, upload_block |-> UPLOAD_NONE]
    /\ audio_stream_state = "idle"
    /\ recovery = [active |-> FALSE, count |-> 0]
    /\ stored = [video |-> <<>>, audio |-> <<>>]
    /\ taken = [video |-> <<>>, audio |-> <<>>]

-----------------------------------------------------------------------------
(* cd_sector_callback *)

Coming == stream[pos]

(* The older entries are in front of the write index, the ring not wrapped. *)
Linear(r) ==
    \/ r.write = r.read /\ r.last = r.consumed
    \/ r.read < r.write

(* Slip of Fits: a ring as full as its indices tell is taken for empty. *)
FitsBlindly(r, capacity, n) ==
    IF r.read <= r.write THEN r.write + n <= capacity ELSE r.read >= r.write + n

(* n sectors fit behind the write index ... *)
Fits(r, capacity, n) ==
    IF Linear(r) THEN r.write + n <= capacity
    ELSE r.write # r.read /\ r.read >= r.write + n

(* ... or at the start of the ring, before the oldest entry. *)
FitsInFront(r, capacity, n) ==
    /\ Linear(r) /\ r.write + n > capacity
    /\ r.read >= n

HasRoom(r, capacity, n) == Fits(r, capacity, n) \/ FitsInFront(r, capacity, n)

(* The ring with room made: the old end is remembered, writing starts over. *)
Reserved(r, capacity, n) ==
    IF FitsInFront(r, capacity, n) THEN [r EXCEPT !.wrap = r.write, !.write = 0] ELSE r

(* Where an entry lies. *)
Place(i, n, frame) == [at |-> i, count |-> n, frame |-> frame]

(* Slip of Completed: the marker is left behind. *)
CompletedUnmarked(r, n, frame) == [r EXCEPT !.write = @ + n]

(* The entry is whole and becomes visible to the consumer. *)
Completed(r, n, frame) == [r EXCEPT !.write = @ + n, !.last = frame]

Stops == ends' = [ends EXCEPT !.stopped = TRUE]

(* What comes is beyond the last frame.  (Its slip: Stops.) *)
PastTheEnd == ends' = [ends EXCEPT !.stopped = TRUE, !.end_of_stream = TRUE]
Continues == UNCHANGED ends

(* The first sector of an entry opens it, or completes it if it is all. *)
Opened(type) ==
    producer' = [producer EXCEPT !.frame = Coming.frame,
                                 !.remaining = Coming.count - 1,
                                 !.continuation = IF Coming.count > 1 THEN type ELSE @,
                                 !.chunk = IF Coming.count > 1 THEN 1 ELSE @]

(* An entry beyond the last frame stops the read. *)
NewEntryPastEnd ==
    /\ producer.remaining = 0 /\ Coming.frame > TotalFrames
    /\ PastTheEnd
    /\ UNCHANGED <<producer, video, vslots, audio, aslots, audio_stream_state, stored>>

(* A continuation of an entry that was not stored, or a full ring. *)
Skipped ==
    /\ producer.remaining = 0 /\ Coming.frame <= TotalFrames
    /\ \/ Coming.idx # 0
       \/ Coming.type = "video" /\ ~HasRoom(video, VideoCapacity, Coming.count)
    /\ producer' = [producer EXCEPT !.frame = Coming.frame]
    /\ Continues
    /\ UNCHANGED <<video, vslots, audio, aslots, audio_stream_state, stored>>

NewVideo ==
    /\ producer.remaining = 0 /\ Coming.frame <= TotalFrames /\ Coming.idx = 0
    /\ Coming.type = "video" /\ HasRoom(video, VideoCapacity, Coming.count)
    /\ LET r == Reserved(video, VideoCapacity, Coming.count)
       IN /\ vslots' = [vslots EXCEPT ![r.write] = Coming]
          /\ IF Coming.count = 1
             THEN /\ video' = Completed(r, 1, Coming.frame)
                  /\ stored' = [stored EXCEPT !.video = Append(@, Place(r.write, 1, Coming.frame))]
                  /\ IF Coming.frame >= TotalFrames THEN Stops ELSE Continues
             ELSE video' = r /\ Continues /\ UNCHANGED stored
    /\ Opened("video")
    /\ UNCHANGED <<audio, aslots, audio_stream_state>>

(* Slip of Reprimed: with half the ring queued there is nothing to wait for. *)
ReprimedIfShort ==
    IF audio_stream_state # "sector_ready" THEN audio_stream_state
    ELSE IF audio.buffered >= AudioCapacity \div 2 THEN "idle" ELSE "primed"

(* Re-priming goes on whether or not the entry fits. *)
Reprimed == IF audio_stream_state = "sector_ready" THEN "primed" ELSE audio_stream_state

NewAudio ==
    /\ producer.remaining = 0 /\ Coming.frame <= TotalFrames /\ Coming.idx = 0
    /\ Coming.type = "audio"
    /\ IF HasRoom(audio.r, AudioCapacity, Coming.count)
       THEN LET r == Reserved(audio.r, AudioCapacity, Coming.count)
            IN /\ aslots' = [aslots EXCEPT ![r.write] = Coming]
               /\ IF Coming.count = 1
                  THEN /\ audio' = [audio EXCEPT !.r = Completed(r, 1, Coming.frame)]
                       /\ stored' = [stored EXCEPT
                                        !.audio = Append(@, Place(r.write, 1, Coming.frame))]
                  ELSE audio' = [audio EXCEPT !.r = r] /\ UNCHANGED stored
               /\ Opened("audio")
       ELSE /\ producer' = [producer EXCEPT !.frame = Coming.frame]
            /\ UNCHANGED <<audio, aslots, stored>>
    /\ audio_stream_state' = Reprimed
    /\ Continues
    /\ UNCHANGED <<video, vslots>>

(* The sector is the next one of the open entry. *)
Expected(type) ==
    /\ producer.remaining > 0 /\ producer.continuation = type
    /\ Coming.type = type /\ Coming.frame = producer.frame /\ Coming.idx = producer.chunk

Continued ==
    producer' = [producer EXCEPT !.remaining = @ - 1,
                                 !.chunk = IF producer.remaining > 1 THEN @ + 1 ELSE @]

CompletedEntry(r) == Place(r.write, 1 + producer.chunk, producer.frame)

ContinueVideo ==
    /\ Expected("video")
    /\ vslots' = [vslots EXCEPT ![video.write + producer.chunk] = Coming]
    /\ Continued
    /\ IF producer.remaining = 1
       THEN /\ video' = Completed(video, 1 + producer.chunk, producer.frame)
            /\ stored' = [stored EXCEPT !.video = Append(@, CompletedEntry(video))]
            /\ IF Coming.frame >= TotalFrames THEN Stops ELSE Continues
       ELSE UNCHANGED <<video, stored, ends>>
    /\ UNCHANGED <<audio, aslots, audio_stream_state>>

ContinueAudio ==
    /\ Expected("audio")
    /\ aslots' = [aslots EXCEPT ![audio.r.write + producer.chunk] = Coming]
    /\ Continued
    /\ IF producer.remaining = 1
       THEN /\ audio' = [audio EXCEPT !.r = Completed(@, 1 + producer.chunk, producer.frame)]
            /\ stored' = [stored EXCEPT !.audio = Append(@, CompletedEntry(audio.r))]
       ELSE UNCHANGED <<audio, stored>>
    /\ Continues
    /\ UNCHANGED <<video, vslots, audio_stream_state>>

(* Anything else abandons the open entry; of it only a header was written. *)
Abandoned ==
    /\ producer.remaining > 0 /\ ~Expected("video") /\ ~Expected("audio")
    /\ producer' = [producer EXCEPT !.frame = Coming.frame, !.remaining = 0]
    /\ IF \/ Coming.frame < TotalFrames
          \/ Coming.frame = TotalFrames /\ producer.continuation = "audio"
       THEN Continues ELSE PastTheEnd
    /\ IF producer.continuation = "video"
       THEN /\ vslots' = [vslots EXCEPT ![video.write + producer.chunk] = Blank]
            /\ UNCHANGED aslots
       ELSE /\ aslots' = [aslots EXCEPT ![audio.r.write + producer.chunk] = Blank]
            /\ UNCHANGED vslots
    /\ UNCHANGED <<video, audio, audio_stream_state, stored>>

SectorReady ==
    /\ pos <= Len(stream) /\ ~ends.stopped /\ ~recovery.active
    /\ CompareWindow \/ fg.at # "compare_audio"
    /\ pos' = pos + 1
    /\ NewEntryPastEnd \/ Skipped \/ NewVideo \/ NewAudio
          \/ ContinueVideo \/ ContinueAudio \/ Abandoned
    /\ UNCHANGED <<stream, fg, mdec, xa, recovery, taken>>

(* cdrom_process_state finds the drive out of order and pauses the sound.  *)
DriveFails ==
    /\ fg.at = "check" /\ ~recovery.active /\ recovery.count < MaxRecoveries
    /\ pos <= Len(stream) /\ ~ends.stopped
    /\ recovery' = [active |-> TRUE, count |-> recovery.count + 1]
    /\ xa' = [xa EXCEPT !.paused = xa.playing]
    /\ UNCHANGED <<stream, pos, producer, video, vslots, audio, aslots, fg, mdec, ends,
                   audio_stream_state, stored, taken>>

(* cdrom_handle_recovery_sync, in the drive's interrupt: the read goes on. *)
DriveRecovers ==
    /\ recovery.active
    /\ recovery' = [recovery EXCEPT !.active = FALSE]
    /\ audio_stream_state' = "sector_ready"
    /\ UNCHANGED <<stream, pos, producer, video, vslots, audio, aslots, fg, mdec, ends, xa,
                   stored, taken>>

-----------------------------------------------------------------------------
(* movie_play and movie_update *)

(* The entry found at slot i, of no frame if a sector of it is missing. *)
EntryAt(slots, i) ==
    LET first == slots[i]
        whole == /\ first.idx = 0 /\ first.frame # NONE
                 /\ i + first.count - 1 \in DOMAIN slots
                 /\ \A k \in 0..first.count - 1 :
                      slots[i + k].frame = first.frame /\ slots[i + k].idx = k
    IN Place(i, first.count, IF whole THEN first.frame ELSE NONE)

(* Read and write positions agree, and so do the markers. *)
Empty(r) == r.write = r.read /\ r.last = r.consumed

Goto(place) == fg' = [fg EXCEPT !.at = place]

others == <<stream, pos, producer, vslots, aslots, recovery, stored>>

(* A finished image is shown; without one the player updates again.  Either *)
(* way the end of the movie is looked for behind it.                        *)
Check ==
    /\ fg.at = "check"
    /\ mdec' = [mdec EXCEPT !.frame_ready = FALSE]
    /\ Goto(IF ends.state = "done" THEN "over" ELSE "update")
    /\ UNCHANGED <<video, audio, ends, xa, audio_stream_state, taken>>

(* The MDEC can take a frame: it is idle and its last image was shown. *)
MdecFree == ~mdec.busy /\ ~mdec.frame_ready

(* A frame that found the MDEC busy is submitted first. *)
UpdateBegin ==
    /\ fg.at = "update"
    /\ mdec' = IF mdec.retry_pending /\ MdecFree
               THEN [mdec EXCEPT !.busy = TRUE, !.retry_pending = FALSE] ELSE mdec
    /\ Goto(IF mdec'.retry_pending THEN "audio"
            ELSE IF fg.vlc > 0 THEN "expanding" ELSE "video")
    /\ UNCHANGED <<video, audio, ends, xa, audio_stream_state, taken>>

(* No entry: the movie is over once the stream is and the MDEC is idle. *)
NoVideo ==
    /\ Goto("audio")
    /\ ends' = IF ends.end_of_stream /\ ~mdec.busy THEN [ends EXCEPT !.state = "done"] ELSE ends

(* get_next_video_entry, up to the read of the write index ... *)
LookForVideo ==
    /\ fg.at = "video"
    /\ IF Empty(video) THEN NoVideo
       ELSE /\ fg' = [fg EXCEPT !.at = "wrap_video", !.local = video.write]
            /\ UNCHANGED ends
    /\ UNCHANGED <<mdec, xa, audio_stream_state, video, audio, taken>>

(* ... and from there: at the end of the older segment reading starts over. *)
WrapVideo ==
    /\ fg.at = "wrap_video"
    /\ IF video.read >= fg.local /\ video.read = video.wrap
       THEN video' = [video EXCEPT !.read = 0] /\ Goto("look_again")
       ELSE UNCHANGED video /\ Goto("begin")
    /\ UNCHANGED <<mdec, ends, xa, audio_stream_state, audio, taken>>

LookAgainForVideo ==
    /\ fg.at = "look_again"
    /\ IF video.write = 0 /\ video.last = video.consumed THEN NoVideo
       ELSE Goto("begin") /\ UNCHANGED ends
    /\ UNCHANGED <<mdec, xa, audio_stream_state, video, audio, taken>>

(* The expansion of the entry begins, a portion per update; the portion    *)
(* that brings the retry count to 0 is unlimited.                          *)
BeginFrame ==
    /\ fg.at = "begin"
    /\ ends' = IF vslots[video.read].frame >= TotalFrames /\ ends.state = "running"
               THEN [ends EXCEPT !.state = "near_end"] ELSE ends
    /\ \/ fg' = [fg EXCEPT !.at = "expanded"]
       \/ VlcRetries > 0 /\ fg' = [fg EXCEPT !.at = "audio", !.vlc = VlcRetries]
    /\ UNCHANGED <<mdec, xa, audio_stream_state, video, audio, taken>>

Expand ==
    /\ fg.at = "expanding"
    /\ \/ fg' = [fg EXCEPT !.at = "expanded", !.vlc = 0]
       \/ fg.vlc > 1 /\ fg' = [fg EXCEPT !.at = "audio", !.vlc = @ - 1]
    /\ UNCHANGED <<mdec, ends, xa, audio_stream_state, video, audio, taken>>

(* Where reading goes on behind the entry at the read index. *)
Behind(r, count, wrap) ==
    IF r.read >= r.write /\ r.read + count = wrap THEN 0 ELSE r.read + count

(* advance_video_read: the marker is stored ... *)
ReleaseVideo ==
    /\ fg.at = "expanded"
    /\ taken' = [taken EXCEPT !.video = Append(@, EntryAt(vslots, video.read))]
    /\ fg' = [fg EXCEPT !.at = "release_video",
                        !.local = Behind(video, vslots[video.read].count, video.wrap)]
    /\ video' = [video EXCEPT !.consumed = vslots[video.read].frame]
    /\ UNCHANGED <<mdec, ends, xa, audio_stream_state, audio>>

(* ... then the index; the expanded frame goes to the MDEC or waits for it. *)
AdvanceVideo ==
    /\ fg.at = "release_video"
    /\ video' = [video EXCEPT !.read = fg.local]
    /\ mdec' = IF MdecFree THEN [mdec EXCEPT !.busy = TRUE]
               ELSE [mdec EXCEPT !.retry_pending = TRUE]
    /\ Goto("audio")
    /\ UNCHANGED <<ends, xa, audio_stream_state, audio, taken>>

(* get_next_audio_entry, look by look. *)
LookForAudio ==
    /\ fg.at = "audio"
    /\ Goto(IF Empty(audio.r) THEN "prime" ELSE "wrap_audio")
    /\ UNCHANGED <<mdec, ends, xa, audio_stream_state, video, audio, taken>>

WrapAudio ==
    /\ fg.at = "wrap_audio"
    /\ IF audio.r.write <= audio.r.read /\ audio.r.read = audio.r.wrap
       THEN /\ audio' = [audio EXCEPT !.r.read = 0]
            /\ Goto(IF audio.r.write = 0 /\ audio.r.last = audio.r.consumed
                    THEN "prime" ELSE "next_audio")
       ELSE UNCHANGED audio /\ Goto("next_audio")
    /\ UNCHANGED <<mdec, ends, xa, audio_stream_state, video, taken>>

(* Slip of NextEntry: the wrap of the ring is forgotten. *)
NextEntryUnwrapped == audio.r.read + audio.buffered

(* Behind the queued sectors, at the start again if the ring has wrapped. *)
NextEntry ==
    LET next == audio.r.read + audio.buffered
    IN IF audio.r.read >= audio.r.write /\ next >= audio.r.wrap
       THEN next - audio.r.wrap ELSE next

NextAudio ==
    /\ fg.at = "next_audio"
    /\ fg' = [fg EXCEPT !.at = "compare_audio", !.local = NextEntry]
    /\ UNCHANGED <<mdec, ends, xa, audio_stream_state, video, audio, taken>>

(* Slip of NextBlock: off by one. *)
NextBlockLate(b) == IF b + 1 > Blocks THEN 0 ELSE b + 1

NextBlock(b) == IF b + 1 > Blocks - 1 THEN 0 ELSE b + 1

(* akao_xa_advance_frame; the first time two blocks are filled they are    *)
(* uploaded and the voices keyed on (akao_xa_start_ring_stream).           *)
AdvanceFrame ==
    LET fill == NextBlock(xa.fill_block)
        announced == [xa EXCEPT !.filled = @ + 1, !.fill_block = fill]
    IN IF xa.waiting /\ fill >= StartFillBlock
       THEN /\ xa' = [announced EXCEPT !.waiting = FALSE, !.playing = TRUE,
                                       !.upload_block = NextBlock(NextBlock(0))]
            /\ taken' = [taken EXCEPT !.audio = <<EntryAt(aslots, 0),
                                                  EntryAt(aslots, BlockSectors)>>]
       ELSE xa' = announced /\ UNCHANGED taken

QueueAudio ==
    /\ fg.at = "compare_audio"
    /\ Goto("prime")
    /\ IF fg.local = audio.r.write /\ audio.buffered # 0
       THEN UNCHANGED <<audio, ends, xa, taken>>
       ELSE LET entry == IF fg.local \in DOMAIN aslots THEN aslots[fg.local] ELSE Blank
            IN /\ audio' = [audio EXCEPT !.buffered = @ + entry.count]
               /\ ends' = IF entry.frame > TotalFrames THEN [ends EXCEPT !.state = "done"]
                          ELSE ends
               /\ AdvanceFrame
    /\ UNCHANGED <<mdec, audio_stream_state, video>>

(* Paused audio goes on once half the ring is queued ... *)
ResumeAudio ==
    /\ fg.at = "prime"
    /\ IF audio_stream_state = "primed" /\ audio.buffered >= AudioCapacity \div 2
       THEN xa' = [xa EXCEPT !.paused = FALSE] /\ Goto("resumed")
       ELSE UNCHANGED xa /\ Goto("position")
    /\ UNCHANGED <<mdec, ends, audio_stream_state, video, audio, taken>>

(* ... and that is noted, whatever an interrupt has noted meanwhile. *)
NoteResumed ==
    /\ fg.at = "resumed"
    /\ audio_stream_state' = "idle"
    /\ Goto("position")
    /\ UNCHANGED <<mdec, ends, xa, video, audio, taken>>

(* Slip of Played: the sound has started, so the oldest block has gone. *)
Started == xa.upload_block # UPLOAD_NONE

(* The SPU is past the oldest block. *)
Played == xa.upload_block # UPLOAD_NONE /\ audio.r.read # xa.upload_block * BlockSectors

(* advance_audio_read, once the SPU is past the oldest block: the marker   *)
(* and the count are stored, then the index; the wrap point is the video   *)
(* ring's.                                                                 *)
ReleaseAudio ==
    /\ fg.at = "position"
    /\ IF ~Empty(audio.r) /\ audio.buffered # 0 /\ Played
       THEN LET oldest == aslots[audio.r.read]
            IN /\ audio' = [audio EXCEPT !.buffered = @ - oldest.count,
                                         !.r.consumed = oldest.frame]
               /\ fg' = [fg EXCEPT !.at = "release_audio",
                                   !.local = Behind(audio.r, oldest.count, video.wrap)]
       ELSE UNCHANGED audio /\ Goto("check")
    /\ UNCHANGED <<mdec, ends, xa, audio_stream_state, video, taken>>

AdvanceAudio ==
    /\ fg.at = "release_audio"
    /\ audio' = [audio EXCEPT !.r.read = fg.local]
    /\ Goto("check")
    /\ UNCHANGED <<mdec, ends, xa, audio_stream_state, video, taken>>

Update ==
    \/ Check \/ UpdateBegin \/ LookForVideo \/ WrapVideo \/ LookAgainForVideo \/ BeginFrame
    \/ Expand \/ ReleaseVideo \/ AdvanceVideo
    \/ LookForAudio \/ WrapAudio \/ NextAudio \/ QueueAudio
    \/ ResumeAudio \/ NoteResumed \/ ReleaseAudio \/ AdvanceAudio

Foreground == Update /\ UNCHANGED others

-----------------------------------------------------------------------------
(* The last slice of the image is out (MovieOutput): behind the last frame *)
(* the movie is over.                                                      *)
ImageDone ==
    /\ mdec.busy
    /\ mdec' = [mdec EXCEPT !.busy = FALSE, !.frame_ready = TRUE]
    /\ ends' = IF ends.state = "near_end" THEN [ends EXCEPT !.state = "done"] ELSE ends
    /\ UNCHANGED <<fg, xa, audio_stream_state, video, audio, taken, others>>

(* akao_xa_refill_ring, from the SPU interrupt, when half of the SPU's     *)
(* buffer has been played.  The block is assumed to be announced: the disc *)
(* and the foreground keep ahead of the sound.                             *)
Refill ==
    /\ xa.playing /\ ~xa.paused /\ Len(taken.audio) < xa.filled
    /\ fg.at # "over"
    /\ LET block == xa.upload_block * BlockSectors
       IN /\ taken' = [taken EXCEPT !.audio = Append(@, EntryAt(aslots, block))]
          /\ xa' = [xa EXCEPT !.upload_block = NextBlock(@), !.playing = ~aslots[block].final]
    /\ UNCHANGED <<fg, mdec, ends, audio_stream_state, video, audio, others>>

-----------------------------------------------------------------------------
Next == SectorReady \/ DriveFails \/ DriveRecovers \/ Foreground \/ ImageDone \/ Refill

(* The caller pumps movie_update, and the drive, the MDEC and the SPU run; *)
(* the drive's interrupt waits for no place of the foreground.             *)
Spec == /\ Init /\ [][Next]_vars
        /\ SF_vars(SectorReady) /\ WF_vars(DriveRecovers) /\ WF_vars(Foreground)
        /\ WF_vars(ImageDone) /\ WF_vars(Refill)
=============================================================================
