-------------------------- MODULE MovieRings_proofs --------------------------
(***************************************************************************)
(* The movie's rings, for every capacity, block size and disc: the video   *)
(* ring and, as long as no sector lands inside the last test of            *)
(* get_next_audio_entry, the audio ring.  Each invariant describes a ring  *)
(* by the entries the producer has completed and the consumer has not      *)
(* freed, and by what the foreground has seen of it at each place.         *)
(***************************************************************************)
EXTENDS MovieRingsProperties, SequenceTheorems, TLAPS


-----------------------------------------------------------------------------
(* The fields of the variables, whatever they hold. *)

RingShape(r) ==
    r = [write |-> r.write, read |-> r.read, wrap |-> r.wrap, last |-> r.last,
         consumed |-> r.consumed]

Shapes ==
    /\ producer = [remaining |-> producer.remaining, continuation |-> producer.continuation,
                   chunk |-> producer.chunk, frame |-> producer.frame]
    /\ RingShape(video) /\ RingShape(audio.r)
    /\ audio = [r |-> audio.r, buffered |-> audio.buffered]
    /\ fg = [at |-> fg.at, local |-> fg.local, vlc |-> fg.vlc]
    /\ mdec \in [busy : BOOLEAN, frame_ready : BOOLEAN, retry_pending : BOOLEAN]
    /\ ends \in [stopped : BOOLEAN, end_of_stream : BOOLEAN,
                 state : {"running", "near_end", "done"}]
    /\ xa = [waiting |-> xa.waiting, playing |-> xa.playing, paused |-> xa.paused,
             filled |-> xa.filled, fill_block |-> xa.fill_block,
             upload_block |-> xa.upload_block]
    /\ audio_stream_state \in {"idle", "sector_ready", "primed"}
    /\ recovery = [active |-> recovery.active, count |-> recovery.count]
    /\ stored = [video |-> stored.video, audio |-> stored.audio]
    /\ taken = [video |-> taken.video, audio |-> taken.audio]

LEMMA ShapesInit == Init => Shapes
BY DEF Init, Shapes, RingShape, ring

LEMMA RingShapes ==
    ASSUME NEW r, RingShape(r), NEW s, NEW x, NEW y,
           \/ s = [r EXCEPT !.read = x] \/ s = [r EXCEPT !.consumed = x]
           \/ s = [r EXCEPT !.wrap = x, !.write = y] \/ s = [r EXCEPT !.write = x, !.last = y]
    PROVE  RingShape(s)
BY DEF RingShape

LEMMA ProducedShapes ==
    ASSUME NEW r, RingShape(r), NEW capacity, NEW n, NEW frame
    PROVE  RingShape(Reserved(r, capacity, n)) /\ RingShape(Completed(r, n, frame))
<1>1. RingShape(Completed(r, n, frame))
  <2> SUFFICES ASSUME NEW s, s = Completed(r, n, frame) PROVE RingShape(s)
    OBVIOUS
  <2>1. PICK x : s = [r EXCEPT !.write = x, !.last = frame]
    BY DEF Completed
  <2> QED BY <2>1 DEF RingShape
<1>2. RingShape(Reserved(r, capacity, n))
  <2> SUFFICES ASSUME NEW s, s = Reserved(r, capacity, n) PROVE RingShape(s)
    OBVIOUS
  <2>1. s = r \/ \E x, y : s = [r EXCEPT !.wrap = x, !.write = y]
    BY DEF Reserved
  <2> QED BY <2>1 DEF RingShape
<1> QED BY <1>1, <1>2

LEMMA SectorShapes == Shapes /\ SectorReady => Shapes'
<1> SUFFICES ASSUME Shapes, SectorReady PROVE Shapes'
  OBVIOUS
<1> USE DEF Shapes
<1>1. UNCHANGED <<fg, mdec, xa, recovery, taken>>
  BY DEF SectorReady
<1>2. CASE NewEntryPastEnd
  BY <1>1, <1>2 DEF NewEntryPastEnd, PastTheEnd
<1>3. CASE Skipped
  BY <1>1, <1>3 DEF Skipped, Continues
<1>4. CASE NewVideo
  <2> DEFINE r == Reserved(video, VideoCapacity, Coming.count)
  <2>1. RingShape(r) /\ RingShape(Completed(r, 1, Coming.frame))
    BY ProducedShapes
  <2>5. RingShape(video') /\ stored' = [video |-> stored'.video, audio |-> stored'.audio]
    BY <1>4, <2>1 DEF NewVideo
  <2>2. ends' \in [stopped : BOOLEAN, end_of_stream : BOOLEAN,
                   state : {"running", "near_end", "done"}]
    BY <1>4 DEF NewVideo, Stops, Continues
  <2>3. UNCHANGED <<audio, audio_stream_state>>
    BY <1>4 DEF NewVideo
  <2>4. producer' = [remaining |-> producer'.remaining,
                     continuation |-> producer'.continuation,
                     chunk |-> producer'.chunk, frame |-> producer'.frame]
    BY <1>4 DEF NewVideo, Opened
  <2> QED BY <1>1, <2>2, <2>3, <2>4, <2>5
<1>5. CASE NewAudio
  <2> DEFINE r == Reserved(audio.r, AudioCapacity, Coming.count)
  <2>5. audio'.r \in {audio.r, r, Completed(r, 1, Coming.frame)}
    BY <1>5 DEF NewAudio
  <2>6. RingShape(r) /\ RingShape(Completed(r, 1, Coming.frame))
    BY ProducedShapes
  <2>1. RingShape(audio'.r) /\ stored' = [video |-> stored'.video, audio |-> stored'.audio]
    BY <1>5, <2>5, <2>6 DEF NewAudio
  <2>2. audio' = [r |-> audio'.r, buffered |-> audio'.buffered]
    BY <1>5 DEF NewAudio
  <2>3. UNCHANGED <<video, ends>> /\ audio_stream_state' \in {"idle", "sector_ready", "primed"}
    BY <1>5 DEF NewAudio, Continues, Reprimed
  <2>4. producer' = [remaining |-> producer'.remaining,
                     continuation |-> producer'.continuation,
                     chunk |-> producer'.chunk, frame |-> producer'.frame]
    BY <1>5 DEF NewAudio, Opened
  <2> QED BY <1>1, <2>1, <2>2, <2>3, <2>4
<1>6. CASE ContinueVideo
  <2>1. RingShape(video') /\ stored' = [video |-> stored'.video, audio |-> stored'.audio]
    BY <1>6, ProducedShapes, SMTT(30) DEF ContinueVideo
  <2>2. ends' \in [stopped : BOOLEAN, end_of_stream : BOOLEAN,
                   state : {"running", "near_end", "done"}]
    BY <1>6 DEF ContinueVideo, Stops, Continues
  <2>3. UNCHANGED <<audio, audio_stream_state>>
    BY <1>6 DEF ContinueVideo
  <2>4. producer' = [remaining |-> producer'.remaining,
                     continuation |-> producer'.continuation,
                     chunk |-> producer'.chunk, frame |-> producer'.frame]
    BY <1>6 DEF ContinueVideo, Continued
  <2> QED BY <1>1, <2>1, <2>2, <2>3, <2>4
<1>7. CASE ContinueAudio
  <2>5. audio'.r \in {audio.r, Completed(audio.r, 1 + producer.chunk, producer.frame)}
    BY <1>7 DEF ContinueAudio
  <2>1. RingShape(audio'.r) /\ stored' = [video |-> stored'.video, audio |-> stored'.audio]
    <3>1. RingShape(Completed(audio.r, 1 + producer.chunk, producer.frame))
      BY ProducedShapes
    <3> QED BY <1>7, <2>5, <3>1 DEF ContinueAudio
  <2>2. audio' = [r |-> audio'.r, buffered |-> audio'.buffered]
    BY <1>7 DEF ContinueAudio
  <2>3. UNCHANGED <<video, ends, audio_stream_state>>
    BY <1>7 DEF ContinueAudio, Continues
  <2>4. producer' = [remaining |-> producer'.remaining,
                     continuation |-> producer'.continuation,
                     chunk |-> producer'.chunk, frame |-> producer'.frame]
    BY <1>7 DEF ContinueAudio, Continued
  <2> QED BY <1>1, <2>1, <2>2, <2>3, <2>4
<1>8. CASE Abandoned
  BY <1>1, <1>8 DEF Abandoned, PastTheEnd, Continues
<1> QED BY <1>2, <1>3, <1>4, <1>5, <1>6, <1>7, <1>8 DEF SectorReady

LEMMA UpdateShapes == Shapes /\ Foreground => Shapes'
<1> SUFFICES ASSUME Shapes, Foreground PROVE Shapes'
  OBVIOUS
<1> USE DEF Shapes
<1>1. UNCHANGED <<producer, recovery, stored>>
  BY DEF Foreground, others
<1>2. CASE Check
  BY <1>1, <1>2 DEF Check, Goto
<1>3. CASE UpdateBegin
  BY <1>1, <1>3 DEF UpdateBegin, Goto
<1>4. CASE LookForVideo
  BY <1>1, <1>4 DEF LookForVideo, NoVideo, Goto
<1>5. CASE WrapVideo
  BY <1>1, <1>5, RingShapes DEF WrapVideo, Goto
<1>6. CASE LookAgainForVideo
  BY <1>1, <1>6 DEF LookAgainForVideo, NoVideo, Goto
<1>7. CASE BeginFrame
  BY <1>1, <1>7 DEF BeginFrame, Goto
<1>8. CASE Expand
  BY <1>1, <1>8 DEF Expand
<1>9. CASE ReleaseVideo
  BY <1>1, <1>9, RingShapes DEF ReleaseVideo
<1>10. CASE AdvanceVideo
  BY <1>1, <1>10, RingShapes DEF AdvanceVideo, Goto
<1>11. CASE LookForAudio
  BY <1>1, <1>11 DEF LookForAudio, Goto
<1>12. CASE WrapAudio
  <2>2. audio'.r \in {audio.r, [audio.r EXCEPT !.read = 0]}
    BY <1>12 DEF WrapAudio
  <2>3. RingShape(audio'.r)
    BY <2>2, RingShapes
  <2>1. audio' = [r |-> audio'.r, buffered |-> audio'.buffered] /\ RingShape(audio'.r)
    BY <1>12, <2>3 DEF WrapAudio
  <2> QED BY <1>1, <1>12, <2>1 DEF WrapAudio, Goto
<1>13. CASE NextAudio
  BY <1>1, <1>13 DEF NextAudio
<1>14. CASE QueueAudio
  <2>1. xa' = [waiting |-> xa'.waiting, playing |-> xa'.playing, paused |-> xa'.paused,
               filled |-> xa'.filled, fill_block |-> xa'.fill_block,
               upload_block |-> xa'.upload_block]
    BY <1>14 DEF QueueAudio, AdvanceFrame
  <2>2. audio' = [r |-> audio'.r, buffered |-> audio'.buffered] /\ audio'.r = audio.r
    BY <1>14 DEF QueueAudio
  <2>3. ends' \in [stopped : BOOLEAN, end_of_stream : BOOLEAN,
                   state : {"running", "near_end", "done"}]
    BY <1>14 DEF QueueAudio
  <2>4. taken' = [video |-> taken'.video, audio |-> taken'.audio]
    BY <1>14 DEF QueueAudio, AdvanceFrame
  <2> QED BY <1>1, <1>14, <2>1, <2>2, <2>3, <2>4 DEF QueueAudio, Goto
<1>15. CASE ResumeAudio
  BY <1>1, <1>15 DEF ResumeAudio, Goto
<1>16. CASE NoteResumed
  BY <1>1, <1>16 DEF NoteResumed, Goto
<1>17. CASE ReleaseAudio
  <2>2. audio'.r \in {audio.r, [audio.r EXCEPT !.consumed = aslots[audio.r.read].frame]}
    BY <1>17 DEF ReleaseAudio
  <2>3. RingShape(audio'.r)
    BY <2>2, RingShapes
  <2>1. audio' = [r |-> audio'.r, buffered |-> audio'.buffered] /\ RingShape(audio'.r)
    BY <1>17, <2>3 DEF ReleaseAudio
  <2> QED BY <1>1, <1>17, <2>1 DEF ReleaseAudio, Goto
<1>18. CASE AdvanceAudio
  <2>1. audio' = [r |-> audio'.r, buffered |-> audio'.buffered] /\ RingShape(audio'.r)
    BY <1>18, RingShapes DEF AdvanceAudio
  <2> QED BY <1>1, <1>18, <2>1 DEF AdvanceAudio, Goto
<1> QED BY <1>2, <1>3, <1>4, <1>5, <1>6, <1>7, <1>8, <1>9, <1>10, <1>11, <1>12, <1>13,
           <1>14, <1>15, <1>16, <1>17, <1>18 DEF Foreground, Update

LEMMA ShapesStep == Shapes /\ [Next]_vars => Shapes'
<1> SUFFICES ASSUME Shapes, [Next]_vars PROVE Shapes'
  OBVIOUS
<1>1. CASE DriveFails
  BY <1>1 DEF DriveFails, Shapes
<1>2. CASE DriveRecovers
  BY <1>2 DEF DriveRecovers, Shapes
<1>3. CASE ImageDone
  BY <1>3 DEF ImageDone, others, Shapes
<1>4. CASE Refill
  BY <1>4 DEF Refill, others, Shapes
<1>5. CASE UNCHANGED vars
  BY <1>5 DEF vars, Shapes
<1> QED BY SectorShapes, UpdateShapes, <1>1, <1>2, <1>3, <1>4, <1>5 DEF Next

-----------------------------------------------------------------------------
(* Paused sound. *)

(* Nothing pauses the sound between its resumption and the note of it. *)
PauseInv == Shapes /\ PauseRemembered /\ (fg.at = "resumed" => ~xa.paused)

LEMMA PauseInit == Init => PauseInv
BY ShapesInit DEF Init, PauseInv, PauseRemembered

LEMMA PauseStep == PauseInv /\ [Next]_vars => PauseInv'
<1> SUFFICES ASSUME PauseInv, [Next]_vars PROVE PauseInv'
  OBVIOUS
<1>0. Shapes /\ Shapes'
  BY ShapesStep DEF PauseInv
<1> USE DEF PauseInv, PauseRemembered
<1>1. CASE SectorReady
  <2>1. audio_stream_state' = "idle" => audio_stream_state = "idle"
    BY <1>1 DEF SectorReady, NewEntryPastEnd, Skipped, NewVideo, NewAudio, Reprimed,
                ContinueVideo, ContinueAudio, Abandoned
  <2>2. UNCHANGED <<fg, xa, recovery>>
    BY <1>1 DEF SectorReady
  <2> QED BY <1>0, <2>1, <2>2
<1>2. CASE DriveFails
  BY <1>0, <1>2 DEF DriveFails, Shapes
<1>3. CASE DriveRecovers
  BY <1>0, <1>3 DEF DriveRecovers, Shapes
<1>4. CASE Foreground
  <2>1. recovery' = recovery
    BY <1>4 DEF Foreground, others
  <2>2. CASE ResumeAudio
    BY <1>0, <2>1, <2>2 DEF ResumeAudio, Goto, Shapes
  <2>3. CASE NoteResumed
    BY <1>0, <2>1, <2>3 DEF NoteResumed, Goto, Shapes
  <2>4. CASE QueueAudio
    <3>1. xa'.paused = xa.paused /\ fg'.at = "prime"
      BY <1>0, <2>4 DEF QueueAudio, AdvanceFrame, Goto, Shapes
    <3> QED BY <1>0, <2>1, <3>1, <2>4 DEF QueueAudio
  <2>5. CASE Update /\ ~ResumeAudio /\ ~NoteResumed /\ ~QueueAudio
    <3>1. UNCHANGED <<xa, audio_stream_state>> /\ fg'.at # "resumed"
      BY <1>0, <2>5 DEF Shapes, Update, Check, UpdateBegin, LookForVideo, NoVideo, WrapVideo,
           LookAgainForVideo, BeginFrame, Expand, ReleaseVideo, AdvanceVideo, LookForAudio,
           WrapAudio, NextAudio, ReleaseAudio, AdvanceAudio, Goto
    <3> QED BY <1>0, <2>1, <3>1
  <2> QED BY <1>4, <2>2, <2>3, <2>4, <2>5 DEF Foreground
<1>5. CASE ImageDone
  BY <1>0, <1>5 DEF ImageDone, others
<1>6. CASE Refill
  BY <1>0, <1>6 DEF Refill, others, Shapes
<1>7. CASE UNCHANGED vars
  BY <1>0, <1>7 DEF vars
<1> QED BY <1>1, <1>2, <1>3, <1>4, <1>5, <1>6, <1>7 DEF Next

(***************************************************************************)
(* Sound a drive error has paused is resumed or noted as to be resumed,    *)
(* for every disc and any number of recoveries (PauseRemembered).          *)
(***************************************************************************)
THEOREM PauseKept == Spec => []PauseRemembered
<1>1. PauseInv => PauseRemembered
  BY DEF PauseInv
<1> QED BY <1>1, PauseInit, PauseStep, PTL DEF Spec

-----------------------------------------------------------------------------
(* The producer. *)

Places == [at : Nat, count : Nat \ {0}, frame : Nat \ {0}]

(* The sectors set aside for the entry under way. *)
Open(type) ==
    IF producer.remaining > 0 /\ producer.continuation = type
    THEN producer.chunk + producer.remaining ELSE 0

Marker(places, k) == IF k = 0 THEN NONE ELSE places[k].frame

(* The entries completed are in order, the one under way is newer, and what *)
(* is still to come of the kind is newer than both.                         *)
Ordered(places, s, type, from, open, frame) ==
    /\ \A j, k \in 1..Len(places) : j < k => places[j].frame < places[k].frame
    /\ open > 0 => \A k \in 1..Len(places) : places[k].frame < frame
    /\ \A i \in from..Len(s) : s[i].type = type /\ s[i].idx = 0 =>
         /\ \A k \in 1..Len(places) : places[k].frame < s[i].frame
         /\ open > 0 => frame < s[i].frame

Producing ==
    /\ stream \in Streams /\ pos \in Nat \ {0}
    /\ producer \in [remaining : Nat, continuation : {"video", "audio"}, chunk : Nat, frame : Nat]
    /\ producer.remaining > 0 => producer.chunk > 0 /\ producer.frame > 0
    /\ video.write \in Nat /\ audio.r.write \in Nat
    /\ stored.video \in Seq(Places) /\ stored.audio \in Seq(Places)
    /\ Open("audio") \in {0, BlockSectors}
    /\ Open("video") > 0 => Open("video") <= VideoCapacity - AudioCapacity
    /\ Ordered(stored.video, stream, "video", pos, Open("video"), producer.frame)
    /\ Ordered(stored.audio, stream, "audio", pos, Open("audio"), producer.frame)

(* The entry is in the slots. *)
Intact(slots, place) ==
    /\ slots[place.at].count = place.count
    /\ \A i \in 0..place.count - 1 :
         slots[place.at + i].frame = place.frame /\ slots[place.at + i].idx = i

(* So is the entry under way, as far as it has come. *)
Filling(slots, write, open, chunk, frame) ==
    open > 0 =>
        /\ slots[write].count = open
        /\ \A i \in 0..chunk - 1 :
             slots[write + i].frame = frame /\ slots[write + i].idx = i

-----------------------------------------------------------------------------
(* The video ring. *)

(* The entries lo..hi lie one behind the other from one slot to another. *)
Segment(places, lo, hi, from, to) ==
    /\ from <= to
    /\ lo > hi => from = to
    /\ lo <= hi => places[lo].at = from /\ places[hi].at + places[hi].count = to
    /\ \A k \in lo..hi : from <= places[k].at /\ places[k].at + places[k].count <= to
    /\ \A k \in lo..hi - 1 : places[k + 1].at = places[k].at + places[k].count
    /\ \A j, k \in lo..hi : j < k => places[j].at + places[j].count <= places[k].at

(* The ring from its oldest entry on: in one segment, with room behind ... *)
InLine(r, places, first, capacity, open) ==
    /\ Segment(places, first, Len(places), r.read, r.write)
    /\ r.write + open <= capacity

(* ... or in two, the newer one at the start, with room between them. *)
TurnedAt(r, places, first, split, open) ==
    /\ Segment(places, first, split - 1, r.read, r.wrap)
    /\ Segment(places, split, Len(places), 0, r.write)
    /\ r.write + open <= r.read /\ r.read > 0

Turned(r, places, first, open) ==
    \E split \in first..Len(places) + 1 : TurnedAt(r, places, first, split, open)

Tiled(r, places, first, capacity, open) ==
    InLine(r, places, first, capacity, open) \/ Turned(r, places, first, open)

(* The oldest entry whose slots are not free again. *)
VideoFirst == Len(taken.video) + IF fg.at = "release_video" THEN 0 ELSE 1

VideoTurned == Turned(video, stored.video, VideoFirst, Open("video"))

VideoTypes ==
    /\ RingOK(video, VideoCapacity)
    /\ vslots \in [0..VideoCapacity - 1 -> Sector \cup {Blank}]
    /\ fg.vlc \in 0..VlcRetries
    /\ fg.at \in {"wrap_video", "release_video"} => fg.local \in Nat
    /\ taken.video \in Seq(Places)

VideoMarked ==
    /\ video.last = Marker(stored.video, Len(stored.video))
    /\ video.consumed = Marker(stored.video, Len(taken.video))

VideoHeld ==
    /\ Tiled(video, stored.video, VideoFirst, VideoCapacity, Open("video"))
    /\ video.wrap = 0 \/ video.wrap > AudioCapacity
    /\ \A k \in VideoFirst..Len(stored.video) : Intact(vslots, stored.video[k])
    /\ Filling(vslots, video.write, Open("video"), producer.chunk, producer.frame)

VideoTaken ==
    /\ Len(taken.video) <= Len(stored.video)
    /\ \A k \in 1..Len(taken.video) : taken.video[k] = stored.video[k]

(* The entry at the read index is the oldest. *)
VideoFound ==
    /\ VideoFirst > 0 /\ VideoFirst <= Len(stored.video)
    /\ stored.video[VideoFirst].at = video.read

(* What the foreground knows of the ring at each place. *)
VideoRead ==
    /\ fg.at \in {"video", "wrap_video", "look_again", "begin", "expanded", "release_video"} =>
         fg.vlc = 0
    /\ fg.at \in {"begin", "expanding", "expanded", "release_video"} \/ fg.vlc > 0 => VideoFound
    /\ fg.at = "wrap_video" => IF fg.local > video.read THEN VideoFound ELSE VideoTurned
    /\ fg.at = "look_again" =>
         /\ video.read = 0
         /\ InLine(video, stored.video, VideoFirst, VideoCapacity, Open("video"))
    /\ fg.at = "release_video" =>
         LET end == video.read + stored.video[VideoFirst].count
         IN fg.local = end \/ (fg.local = 0 /\ video.wrap = end /\ VideoTurned)

VideoInv ==
    /\ Producing /\ VideoTypes /\ VideoMarked /\ VideoHeld /\ VideoTaken /\ VideoRead

-----------------------------------------------------------------------------
(* The audio ring. *)

Sectors(n) == n * BlockSectors

(* Where the block behind k others lies, and begins. *)
Slot(k) == k % Blocks
BlockAt(k) == Sectors(Slot(k))

(* Blocks released, as far as the markers tell, and in slots free again. *)
Released == xa.filled - audio.buffered \div BlockSectors
Freed == Released - IF fg.at = "release_audio" THEN 1 ELSE 0

Queued == Len(stored.audio)

AudioTypes ==
    /\ RingOK(audio.r, AudioCapacity)
    /\ aslots \in [0..AudioCapacity - 1 -> Sector \cup {Blank}]
    /\ audio.buffered \in Nat /\ xa.filled \in Nat
    /\ audio.buffered = Sectors(xa.filled - Released)
    /\ taken.audio \in Seq(Places) /\ fg.local \in Nat

AudioMarked ==
    /\ audio.r.last = Marker(stored.audio, Queued)
    /\ audio.r.consumed = Marker(stored.audio, Released)

(* The index points behind k blocks, where the last one may end the ring. *)
Points(index, k) ==
    \/ index = BlockAt(k)
    \/ index = AudioCapacity /\ BlockAt(k) = 0 /\ k > 0

AudioInLine ==
    /\ audio.r.write - audio.r.read = Sectors(Queued - Freed)
    /\ audio.r.write + Open("audio") <= AudioCapacity

AudioTurned ==
    /\ audio.r.write + AudioCapacity - audio.r.read = Sectors(Queued - Freed)
    /\ audio.r.wrap = AudioCapacity
    /\ audio.r.write + Open("audio") <= audio.r.read /\ audio.r.read > 0

AudioHeld ==
    /\ Points(audio.r.read, Freed) /\ Points(audio.r.write, Queued)
    /\ audio.r.wrap \in {0, AudioCapacity}
    /\ Freed >= 0 /\ Freed <= Queued
    /\ AudioInLine \/ AudioTurned
    /\ \A k \in 1..Queued :
         stored.audio[k].at = BlockAt(k - 1) /\ stored.audio[k].count = BlockSectors
    /\ \A k \in Freed + 1..Queued : Intact(aslots, stored.audio[k])
    /\ Filling(aslots, audio.r.write, Open("audio"), producer.chunk, producer.frame)

(* Blocks are released after they were uploaded, announced before. *)
AudioTaken ==
    /\ Released <= Len(taken.audio) /\ Len(taken.audio) <= xa.filled /\ xa.filled <= Queued
    /\ \A k \in 1..Len(taken.audio) : taken.audio[k] = stored.audio[k]

Streaming ==
    /\ xa.waiting \in BOOLEAN /\ xa.playing \in BOOLEAN
    /\ xa.waiting => /\ Len(taken.audio) = 0 /\ xa.filled < StartFillBlock
                     /\ xa.fill_block = xa.filled /\ xa.upload_block = UPLOAD_NONE
                     /\ ~xa.playing
    /\ ~xa.waiting => xa.upload_block = Slot(Len(taken.audio))

AudioRead ==
    /\ fg.at = "wrap_audio" =>
         Released < Queued \/ (AudioTurned /\ audio.r.read = AudioCapacity)
    /\ fg.at \in {"next_audio", "compare_audio"} =>
         Released < Queued /\ audio.r.read # AudioCapacity
    /\ fg.at = "compare_audio" => fg.local = NextEntry
    /\ fg.at \in {"prime", "resumed", "position"} /\ audio.buffered # 0 =>
         audio.r.read # AudioCapacity
    /\ fg.at = "release_audio" =>
         /\ audio.r.read # AudioCapacity /\ fg.local = audio.r.read + BlockSectors

AudioInv ==
    /\ AudioTypes /\ AudioMarked /\ AudioHeld /\ AudioTaken /\ Streaming /\ AudioRead

-----------------------------------------------------------------------------
(* The producer's lemmas. *)

LEMMA Capacities ==
    /\ VideoCapacity \in Nat /\ AudioCapacity \in Nat /\ BlockSectors \in Nat
    /\ VideoCapacity > 0 /\ AudioCapacity > 0 /\ BlockSectors > 0
    /\ Blocks \in Nat /\ Blocks > 2 /\ AudioCapacity = Blocks * BlockSectors
<1>1. AudioCapacity = Blocks * BlockSectors + (AudioCapacity % BlockSectors) /\ Blocks \in Nat
  BY CapacityAssumption DEF Blocks
<1> QED BY <1>1, CapacityAssumption

LEMMA SectorType ==
    ASSUME Producing, pos <= Len(stream)
    PROVE  /\ Coming \in Sector /\ pos \in 1..Len(stream) /\ Len(stream) \in Nat
           /\ stream \in Seq(Sector) /\ Coming.count \in Nat /\ Coming.count > 0
           /\ Coming.frame \in Nat /\ Coming.frame > 0 /\ Coming.idx \in Nat
           /\ Coming.type \in {"video", "audio"}
           /\ Coming.count <= VideoCapacity - AudioCapacity
           /\ Coming.type = "audio" => Coming.count = BlockSectors
<1>1. stream \in Streams /\ pos \in Nat \ {0}
  BY DEF Producing
<1>2. stream \in Seq(Sector)
  BY <1>1, StreamAssumption
<1>3. Len(stream) \in Nat
  BY <1>2
<1>4. pos \in 1..Len(stream)
  BY <1>1, <1>3
<1>5. Coming \in Sector
  BY <1>2, <1>4 DEF Coming
<1>6. Coming.count <= VideoCapacity - AudioCapacity
      /\ (Coming.type = "audio" => Coming.count = BlockSectors)
  BY <1>1, <1>4, StreamAssumption DEF Coming
<1> QED BY <1>2, <1>3, <1>4, <1>5, <1>6 DEF Sector

LEMMA OrderedLater ==
    ASSUME NEW p \in Seq(Places), NEW s, Len(s) \in Nat, NEW t, NEW i \in Nat,
           NEW o \in Nat, NEW f, NEW o2 \in Nat, NEW f2, Ordered(p, s, t, i, o, f),
           o2 > 0 => o > 0 /\ f2 = f
    PROVE  Ordered(p, s, t, i + 1, o2, f2)
BY DEF Ordered

LEMMA OrderedOpened ==
    ASSUME NEW s \in Streams, NEW i \in 1..Len(s), NEW p \in Seq(Places),
           NEW t, NEW n \in Nat, NEW f, s[i].type = t, s[i].idx = 0, s \in Seq(Sector),
           Ordered(p, s, t, i, 0, f)
    PROVE  Ordered(p, s, t, i + 1, n, s[i].frame)
<1>1. Len(s) \in Nat /\ i \in Nat /\ i \in i..Len(s)
  OBVIOUS
<1>2. \A k \in 1..Len(p) : p[k].frame < s[i].frame
  BY <1>1 DEF Ordered
<1>3. \A j \in i + 1..Len(s) : s[j].type = t /\ s[j].idx = 0 => s[i].frame < s[j].frame
  BY <1>1, DiscAssumption DEF FramesAscend
<1>4. \A j \in i + 1..Len(s) : s[j].type = t /\ s[j].idx = 0 =>
        \A k \in 1..Len(p) : p[k].frame < s[j].frame
  BY <1>1 DEF Ordered
<1> QED BY <1>1, <1>2, <1>3, <1>4 DEF Ordered

LEMMA PlacesAppended ==
    ASSUME NEW p \in Seq(Places), NEW e \in Places
    PROVE  /\ Append(p, e) \in Seq(Places) /\ Len(p) \in Nat /\ Len(Append(p, e)) = Len(p) + 1
           /\ \A k \in 1..Len(p) : Append(p, e)[k] = p[k]
           /\ Append(p, e)[Len(p) + 1] = e
BY AppendProperties

LEMMA OrderedAppended ==
    ASSUME NEW p \in Seq(Places), NEW e \in Places, NEW s, Len(s) \in Nat, NEW t,
           NEW i \in Nat, NEW o \in Nat, NEW f, o > 0, Ordered(p, s, t, i, o, e.frame)
    PROVE  Ordered(Append(p, e), s, t, i, 0, f)
<1> DEFINE q == Append(p, e)
<1>1. /\ Len(q) = Len(p) + 1 /\ Len(p) \in Nat
      /\ \A k \in 1..Len(p) : q[k] = p[k]
      /\ q[Len(p) + 1] = e
  BY PlacesAppended
<1> HIDE DEF q
<1>2. \A k \in 1..Len(q) : k \in 1..Len(p) \/ k = Len(p) + 1
  BY <1>1
<1>3. \A k \in 1..Len(p) : p[k].frame < e.frame
  BY DEF Ordered
<1>4. ASSUME NEW j \in 1..Len(q), NEW k \in 1..Len(q), j < k PROVE q[j].frame < q[k].frame
  <2>1. j \in 1..Len(p)
    BY <1>1, <1>4
  <2>2. CASE k \in 1..Len(p)
    BY <1>1, <1>4, <2>1, <2>2 DEF Ordered
  <2>3. CASE k = Len(p) + 1
    BY <1>1, <1>3, <2>1, <2>3
  <2> QED BY <1>2, <2>2, <2>3
<1>5. ASSUME NEW j \in i..Len(s), s[j].type = t, s[j].idx = 0, NEW k \in 1..Len(q)
      PROVE  q[k].frame < s[j].frame
  <2>1. CASE k \in 1..Len(p)
    BY <1>1, <1>5, <2>1 DEF Ordered
  <2>2. CASE k = Len(p) + 1
    BY <1>1, <1>5, <2>2 DEF Ordered
  <2> QED BY <1>2, <2>1, <2>2
<1> QED BY <1>4, <1>5 DEF Ordered, q

LEMMA ProducingInit == Init => Producing
<1> SUFFICES ASSUME Init PROVE Producing
  OBVIOUS
<1>1. stream \in Streams /\ pos = 1 /\ producer.remaining = 0
      /\ stored.video = <<>> /\ stored.audio = <<>>
      /\ producer \in [remaining : Nat, continuation : {"video", "audio"}, chunk : Nat,
                       frame : Nat]
  BY DEF Init
<1>2. Open("video") = 0 /\ Open("audio") = 0
  BY <1>1 DEF Open
<1> QED BY <1>1, <1>2 DEF Producing, Ordered, Init, ring

LEMMA OpenType ==
    ASSUME Producing
    PROVE  /\ \A t : Open(t) \in Nat
           /\ producer.remaining \in Nat /\ producer.chunk \in Nat /\ producer.frame \in Nat
           /\ producer.remaining = 0 => \A t : Open(t) = 0
           /\ producer.remaining > 0 => producer.chunk > 0 /\ producer.frame > 0
           /\ producer.continuation \in {"video", "audio"}
           /\ stored.video \in Seq(Places) /\ stored.audio \in Seq(Places)
           /\ Len(stored.video) \in Nat /\ Len(stored.audio) \in Nat
BY DEF Producing, Open

(* What a step does to the open entry. *)
LEMMA OpenedType ==
    ASSUME Shapes, Producing, pos <= Len(stream), NEW t \in {"video", "audio"}, Opened(t), Coming.type = t,
           producer.remaining = 0
    PROVE  /\ producer' \in [remaining : Nat, continuation : {"video", "audio"}, chunk : Nat,
                             frame : Nat]
           /\ producer'.frame = Coming.frame
           /\ Coming.count = 1 => \A u : Open(u)' = 0
           /\ Coming.count > 1 => /\ producer'.remaining > 0 /\ producer'.chunk = 1
                                  /\ \A u : Open(u)' = IF u = t THEN Coming.count ELSE 0
<1>1. Coming.count \in Nat /\ Coming.count > 0 /\ Coming.frame \in Nat
  BY SectorType
<1>2. producer \in [remaining : Nat, continuation : {"video", "audio"}, chunk : Nat,
                    frame : Nat]
  BY DEF Producing
<1>3. /\ producer' \in [remaining : Nat, continuation : {"video", "audio"}, chunk : Nat,
                        frame : Nat]
      /\ producer'.frame = Coming.frame /\ producer'.remaining = Coming.count - 1
      /\ Coming.count > 1 => producer'.continuation = t /\ producer'.chunk = 1
  <2>1. CASE Coming.count > 1
    <3>1. producer' = [producer EXCEPT !.frame = Coming.frame, !.remaining = Coming.count - 1,
                                       !.continuation = t, !.chunk = 1]
      BY <2>1 DEF Opened
    <3>2. producer' = [remaining |-> Coming.count - 1, continuation |-> t, chunk |-> 1,
                       frame |-> Coming.frame]
      BY <3>1 DEF Shapes
    <3> QED BY <1>1, <2>1, <3>2
  <2>2. CASE ~(Coming.count > 1)
    <3>1. producer' = [producer EXCEPT !.frame = Coming.frame, !.remaining = Coming.count - 1,
                                       !.continuation = producer.continuation,
                                       !.chunk = producer.chunk]
      BY <2>2 DEF Opened
    <3>2. producer' = [remaining |-> Coming.count - 1, continuation |-> producer.continuation,
                       chunk |-> producer.chunk, frame |-> Coming.frame]
      BY <3>1 DEF Shapes
    <3> QED BY <1>1, <1>2, <2>2, <3>2
  <2> QED BY <2>1, <2>2
<1> QED BY <1>1, <1>3 DEF Open

LEMMA ContinuedType ==
    ASSUME Shapes, Producing, Continued, producer.remaining > 0
    PROVE  /\ producer' \in [remaining : Nat, continuation : {"video", "audio"}, chunk : Nat,
                             frame : Nat]
           /\ producer'.frame = producer.frame /\ producer'.continuation = producer.continuation
           /\ producer.remaining = 1 => \A u : Open(u)' = 0
           /\ producer.remaining > 1 => /\ producer'.remaining > 0
                                        /\ producer'.chunk = producer.chunk + 1
                                        /\ \A u : Open(u)' = Open(u)
<1>2. producer \in [remaining : Nat, continuation : {"video", "audio"}, chunk : Nat,
                    frame : Nat]
  BY DEF Producing
<1>3. /\ producer' \in [remaining : Nat, continuation : {"video", "audio"}, chunk : Nat,
                        frame : Nat]
      /\ producer'.frame = producer.frame /\ producer'.remaining = producer.remaining - 1
      /\ producer'.continuation = producer.continuation
      /\ producer.remaining > 1 => producer'.chunk = producer.chunk + 1
  <2>1. CASE producer.remaining > 1
    <3>1. producer' = [producer EXCEPT !.remaining = producer.remaining - 1,
                                       !.chunk = producer.chunk + 1]
      BY <2>1 DEF Continued
    <3>2. producer' = [remaining |-> producer.remaining - 1,
                       continuation |-> producer.continuation,
                       chunk |-> producer.chunk + 1, frame |-> producer.frame]
      BY <3>1 DEF Shapes
    <3> QED BY <1>2, <2>1, <3>2
  <2>2. CASE ~(producer.remaining > 1)
    <3>1. producer' = [producer EXCEPT !.remaining = producer.remaining - 1,
                                       !.chunk = producer.chunk]
      BY <2>2 DEF Continued
    <3>2. producer' = [remaining |-> producer.remaining - 1,
                       continuation |-> producer.continuation,
                       chunk |-> producer.chunk, frame |-> producer.frame]
      BY <3>1 DEF Shapes
    <3> QED BY <1>2, <2>2, <3>2
  <2> QED BY <2>1, <2>2
<1> QED BY <1>2, <1>3 DEF Open

LEMMA ProducingSector == ASSUME Shapes, Producing, SectorReady PROVE Producing'
<1> USE DEF Producing
<1>1. /\ stream' = stream /\ pos' = pos + 1 /\ pos' \in Nat \ {0} /\ pos <= Len(stream)
      /\ Coming = stream[pos]
  BY DEF SectorReady, Coming
<1>2. /\ Coming.count \in Nat /\ Coming.count > 0 /\ Coming.frame \in Nat /\ Coming.frame > 0
      /\ pos \in 1..Len(stream) /\ Len(stream) \in Nat /\ stream \in Seq(Sector)
      /\ Coming.count <= VideoCapacity - AudioCapacity
      /\ Coming.type = "audio" => Coming.count = BlockSectors
  BY <1>1, SectorType
<1>3. /\ \A t : Open(t) \in Nat
      /\ producer.remaining = 0 => \A t : Open(t) = 0
      /\ stored.video \in Seq(Places) /\ stored.audio \in Seq(Places)
      /\ producer.remaining \in Nat /\ producer.chunk \in Nat /\ producer.frame \in Nat
      /\ producer.remaining > 0 => producer.chunk > 0 /\ producer.frame > 0
  BY OpenType
<1>o. Ordered(stored.video, stream, "video", pos, Open("video"), producer.frame)
      /\ Ordered(stored.audio, stream, "audio", pos, Open("audio"), producer.frame)
  OBVIOUS
(* Nothing is completed and nothing is open behind the step. *)
<1>4. ASSUME stored' = stored, UNCHANGED <<video, audio>>, \A t : Open(t)' = 0, producer'.remaining = 0,
             producer' \in [remaining : Nat, continuation : {"video", "audio"}, chunk : Nat,
                            frame : Nat]
      PROVE  Producing'
  <2>1. Ordered(stored.video, stream, "video", pos + 1, 0, producer'.frame)
        /\ Ordered(stored.audio, stream, "audio", pos + 1, 0, producer'.frame)
    BY <1>1, <1>2, <1>3, <1>o, OrderedLater
  <2> QED BY <1>1, <1>4, <2>1
<1>12. ASSUME stored'.video \in Seq(Places), stored'.audio \in Seq(Places),
              video'.write \in Nat, audio'.r.write \in Nat,
              Ordered(stored'.video, stream, "video", pos + 1, 0, producer'.frame),
              Ordered(stored'.audio, stream, "audio", pos + 1, 0, producer'.frame),
              \A t : Open(t)' = 0, producer'.remaining = 0,
              producer' \in [remaining : Nat, continuation : {"video", "audio"}, chunk : Nat,
                             frame : Nat]
       PROVE  Producing'
  BY <1>1, <1>12, SMTT(30)
<1>5. CASE NewEntryPastEnd
  <2>1. UNCHANGED <<producer, stored, video, audio>> /\ producer.remaining = 0
    BY <1>5 DEF NewEntryPastEnd
  <2> QED BY <1>3, <1>4, <2>1 DEF Open
<1>6. CASE Skipped
  <2>1. UNCHANGED <<stored, video, audio>> /\ producer.remaining = 0
        /\ producer' = [producer EXCEPT !.frame = Coming.frame]
    BY <1>6 DEF Skipped
  <2>2. producer' = [remaining |-> 0, continuation |-> producer.continuation,
                     chunk |-> producer.chunk, frame |-> Coming.frame]
    BY <2>1 DEF Shapes
  <2>3. \A t : Open(t)' = 0
    BY <2>2 DEF Open
  <2> QED BY <1>2, <1>3, <1>4, <2>1, <2>2, <2>3
<1>7. CASE Abandoned
  <2>1. stored' = stored /\ producer' = [producer EXCEPT !.frame = Coming.frame, !.remaining = 0]
        /\ UNCHANGED <<video, audio>>
    BY <1>7 DEF Abandoned
  <2>2. producer' \in [remaining : Nat, continuation : {"video", "audio"}, chunk : Nat,
                        frame : Nat] /\ producer'.remaining = 0
    <3>1. producer' = [remaining |-> 0, continuation |-> producer.continuation,
                       chunk |-> producer.chunk, frame |-> Coming.frame]
      BY <2>1 DEF Shapes
    <3> QED BY <1>2, <1>3, <3>1
  <2>3. \A t : Open(t)' = 0
    BY <2>2 DEF Open
  <2> QED BY <1>4, <2>1, <2>2, <2>3
<1>8. CASE NewVideo
  <2>1. /\ Opened("video") /\ producer.remaining = 0 /\ Coming.type = "video" /\ Coming.idx = 0
        /\ stored'.audio = stored.audio /\ audio' = audio
    BY <1>8 DEF NewVideo, Shapes
  <2> DEFINE r == Reserved(video, VideoCapacity, Coming.count)
  <2>2. Ordered(stored.video, stream, "video", pos + 1, Coming.count, Coming.frame)
    BY <1>1, <1>2, <1>3, <1>o, <2>1, OrderedOpened
  <2>3. Ordered(stored.audio, stream, "audio", pos + 1, 0, producer'.frame)
    BY <1>2, <1>3, <1>o, OrderedLater, SMTT(30)
  <2>6. r.write \in Nat
    BY DEF Reserved, Shapes, RingShape
  <2>4. CASE Coming.count > 1
    <3>1. stored' = stored /\ video' = r
      BY <1>8, <2>4 DEF NewVideo
    <3> QED BY <1>1, <1>2, <2>1, <2>2, <2>3, <2>4, <2>6, <3>1, OpenedType
  <2>5. CASE Coming.count = 1
    <3> DEFINE e == Place(r.write, 1, Coming.frame)
    <3>1. stored'.video = Append(stored.video, e) /\ video' = Completed(r, 1, Coming.frame)
      BY <1>8, <2>5 DEF NewVideo, Shapes
    <3>2. e \in Places /\ e.frame = Coming.frame
      BY <1>2, <2>6 DEF Place, Places
    <3> HIDE DEF e
    <3>3. Ordered(Append(stored.video, e), stream, "video", pos + 1, 0, producer'.frame)
      BY <1>2, <1>3, <2>2, <2>5, <3>2, OrderedAppended
    <3>4. Append(stored.video, e) \in Seq(Places)
      BY <1>3, <3>2, PlacesAppended
    <3>5. RingShape(r)
      BY ProducedShapes DEF Shapes
    <3> HIDE DEF r
    <3>6. video'.write \in Nat
      BY <2>6, <3>1, <3>5 DEF Completed, RingShape
    <3>7. /\ \A t : Open(t)' = 0 /\ producer'.remaining = 0
          /\ producer' \in [remaining : Nat, continuation : {"video", "audio"}, chunk : Nat,
                            frame : Nat]
      BY <1>1, <2>1, <2>5, OpenedType DEF Open
    <3> QED BY <1>3, <1>12, <2>1, <2>3, <3>1, <3>3, <3>4, <3>6, <3>7
  <2> QED BY <1>2, <2>4, <2>5
<1>9. CASE NewAudio
  <2>1. producer.remaining = 0 /\ Coming.type = "audio" /\ Coming.idx = 0
        /\ stored'.video = stored.video /\ video' = video
    BY <1>9 DEF NewAudio, Shapes
  <2>2. CASE ~HasRoom(audio.r, AudioCapacity, Coming.count)
    <3>1. producer' = [producer EXCEPT !.frame = Coming.frame] /\ UNCHANGED <<stored, audio>>
      BY <1>9, <2>2 DEF NewAudio
    <3> QED BY <1>2, <1>4, <2>1, <3>1 DEF Open
  <2>3. CASE HasRoom(audio.r, AudioCapacity, Coming.count)
    <3> DEFINE r == Reserved(audio.r, AudioCapacity, Coming.count)
    <3>1. Opened("audio")
      BY <1>9, <2>3 DEF NewAudio
    <3>2. Ordered(stored.audio, stream, "audio", pos + 1, Coming.count, Coming.frame)
      BY <1>1, <1>2, <1>3, <1>o, <2>1, OrderedOpened
    <3>3. Ordered(stored.video, stream, "video", pos + 1, 0, producer'.frame)
      BY <1>2, <1>3, <1>o, OrderedLater
    <3>4. r.write \in Nat
      BY DEF Reserved, Shapes, RingShape
    <3>5. CASE Coming.count > 1
      <4>1. stored' = stored /\ audio' = [audio EXCEPT !.r = r]
        BY <1>9, <2>3, <3>5 DEF NewAudio
      <4>2. audio'.r = r
        BY <4>1 DEF Shapes
      <4> QED
        BY <1>1, <1>2, <2>1, <3>1, <3>2, <3>3, <3>4, <3>5, <4>1, <4>2, OpenedType, SMTT(30)
    <3>6. CASE Coming.count = 1
      <4> DEFINE e == Place(r.write, 1, Coming.frame)
      <4>1. stored'.audio = Append(stored.audio, e) /\ audio'.r = Completed(r, 1, Coming.frame)
        BY <1>9, <2>3, <3>6 DEF NewAudio, Shapes
      <4>2. e \in Places /\ e.frame = Coming.frame
        BY <1>2, <3>4 DEF Place, Places
      <4> HIDE DEF e
      <4>3. Ordered(Append(stored.audio, e), stream, "audio", pos + 1, 0, producer'.frame)
        BY <1>2, <1>3, <3>2, <3>6, <4>2, OrderedAppended
      <4>4. Append(stored.audio, e) \in Seq(Places)
        BY <1>3, <4>2, PlacesAppended
      <4>5. RingShape(r)
        BY ProducedShapes DEF Shapes
      <4> HIDE DEF r
      <4>6. audio'.r.write \in Nat
        BY <3>4, <4>1, <4>5 DEF Completed, RingShape
      <4>7. /\ \A t : Open(t)' = 0 /\ producer'.remaining = 0
            /\ producer' \in [remaining : Nat, continuation : {"video", "audio"}, chunk : Nat,
                              frame : Nat]
        BY <1>1, <2>1, <3>1, <3>6, OpenedType DEF Open
      <4> QED BY <1>1, <1>3, <2>1, <3>3, <4>1, <4>3, <4>4, <4>6, <4>7
    <3> QED BY <1>2, <3>5, <3>6
  <2> QED BY <2>2, <2>3
<1>10. CASE ContinueVideo
  <2>1. /\ producer.remaining > 0 /\ producer.continuation = "video" /\ Continued
        /\ stored'.audio = stored.audio /\ audio' = audio
    BY <1>10 DEF ContinueVideo, Expected, Shapes
  <2>2. Open("video") = producer.chunk + producer.remaining /\ Open("audio") = 0
    BY <2>1 DEF Open
  <2>3. Ordered(stored.audio, stream, "audio", pos + 1, 0, producer'.frame)
    BY <1>2, <1>3, <1>o, OrderedLater, SMTT(30)
  <2>4. Ordered(stored.video, stream, "video", pos + 1, Open("video"), producer.frame)
    BY <1>2, <1>3, <1>o, OrderedLater
  <2>5. CASE producer.remaining > 1
    <3>1. UNCHANGED <<stored, video>>
      BY <1>10, <2>5 DEF ContinueVideo
    <3> QED BY <1>1, <1>2, <1>3, <2>1, <2>2, <2>3, <2>4, <2>5, <3>1, ContinuedType
  <2>6. CASE producer.remaining = 1
    <3> DEFINE e == CompletedEntry(video)
    <3>1. /\ stored'.video = Append(stored.video, e)
          /\ video' = Completed(video, 1 + producer.chunk, producer.frame)
      BY <1>10, <2>6 DEF ContinueVideo, Shapes
    <3>2. e \in Places /\ e.frame = producer.frame
      BY <1>3, <2>1 DEF CompletedEntry, Place, Places
    <3> HIDE DEF e
    <3>3. Ordered(Append(stored.video, e), stream, "video", pos + 1, 0, producer'.frame)
      BY <1>2, <1>3, <2>1, <2>2, <2>4, <3>2, OrderedAppended
    <3>4. Append(stored.video, e) \in Seq(Places)
      BY <1>3, <3>2, PlacesAppended
    <3>6. video'.write \in Nat
      BY <1>3, <3>1 DEF Completed, RingShape, Shapes
    <3>7. /\ \A t : Open(t)' = 0 /\ producer'.remaining = 0
          /\ producer' \in [remaining : Nat, continuation : {"video", "audio"}, chunk : Nat,
                            frame : Nat]
      BY <2>1, <2>6, ContinuedType DEF Open
    <3> QED BY <1>3, <1>12, <2>1, <2>3, <3>1, <3>3, <3>4, <3>6, <3>7
  <2> QED BY <1>3, <2>1, <2>5, <2>6
<1>11. CASE ContinueAudio
  <2>1. /\ producer.remaining > 0 /\ producer.continuation = "audio" /\ Continued
        /\ stored'.video = stored.video /\ video' = video
    BY <1>11 DEF ContinueAudio, Expected, Shapes
  <2>2. Open("audio") = producer.chunk + producer.remaining /\ Open("video") = 0
    BY <2>1 DEF Open
  <2>3. Ordered(stored.video, stream, "video", pos + 1, 0, producer'.frame)
    BY <1>2, <1>3, <1>o, OrderedLater
  <2>4. Ordered(stored.audio, stream, "audio", pos + 1, Open("audio"), producer.frame)
    BY <1>2, <1>3, <1>o, OrderedLater
  <2>5. CASE producer.remaining > 1
    <3>1. UNCHANGED <<stored, audio>>
      BY <1>11, <2>5 DEF ContinueAudio
    <3> QED BY <1>1, <1>2, <1>3, <2>1, <2>2, <2>3, <2>4, <2>5, <3>1, ContinuedType
  <2>6. CASE producer.remaining = 1
    <3> DEFINE e == CompletedEntry(audio.r)
    <3>1. /\ stored'.audio = Append(stored.audio, e)
          /\ audio'.r = Completed(audio.r, 1 + producer.chunk, producer.frame)
      BY <1>11, <2>6 DEF ContinueAudio, Shapes
    <3>2. e \in Places /\ e.frame = producer.frame
      BY <1>3, <2>1 DEF CompletedEntry, Place, Places
    <3> HIDE DEF e
    <3>3. Ordered(Append(stored.audio, e), stream, "audio", pos + 1, 0, producer'.frame)
      BY <1>2, <1>3, <2>1, <2>2, <2>4, <3>2, OrderedAppended, SMTT(30)
    <3>4. Append(stored.audio, e) \in Seq(Places)
      BY <1>3, <3>2, PlacesAppended
    <3>6. audio'.r.write \in Nat
      BY <1>3, <3>1, SMTT(30) DEF Completed, RingShape, Shapes
    <3>7. /\ \A t : Open(t)' = 0 /\ producer'.remaining = 0
          /\ producer' \in [remaining : Nat, continuation : {"video", "audio"}, chunk : Nat,
                            frame : Nat]
      BY <2>1, <2>6, ContinuedType DEF Open
    <3> QED BY <1>3, <1>12, <2>1, <2>3, <3>1, <3>3, <3>4, <3>6, <3>7
  <2> QED BY <1>3, <2>1, <2>5, <2>6
<1> QED BY <1>5, <1>6, <1>7, <1>8, <1>9, <1>10, <1>11 DEF SectorReady

LEMMA ProducingStep == ASSUME Shapes, Producing, [Next]_vars PROVE Producing'
<1>1. CASE SectorReady
  BY <1>1, ProducingSector
<1>2. ASSUME UNCHANGED <<stream, pos, producer, stored>>, video'.write = video.write,
             audio'.r.write = audio.r.write
      PROVE  Producing'
  BY <1>2 DEF Producing, Open
<1>3. CASE DriveFails \/ DriveRecovers
  BY <1>2, <1>3 DEF DriveFails, DriveRecovers
<1>4. CASE Foreground
  <2>1. UNCHANGED <<stream, pos, producer, stored>>
    BY <1>4 DEF Foreground, others
  <2>2. video'.write = video.write
    BY <1>4 DEF Foreground, Update, Shapes, RingShape, Check, UpdateBegin, LookForVideo,
         WrapVideo, LookAgainForVideo, BeginFrame, Expand, ReleaseVideo, AdvanceVideo,
         LookForAudio, WrapAudio, NextAudio, QueueAudio, ResumeAudio, NoteResumed,
         ReleaseAudio, AdvanceAudio
  <2>3. audio'.r.write = audio.r.write
    <3>1. CASE WrapAudio
      BY <3>1 DEF WrapAudio, Shapes, RingShape
    <3>2. CASE QueueAudio
      BY <3>2 DEF QueueAudio, Shapes
    <3>3. CASE ReleaseAudio
      <4>1. audio'.r \in {audio.r, [audio.r EXCEPT !.consumed = aslots[audio.r.read].frame]}
        BY <3>3 DEF ReleaseAudio, Shapes
      <4> QED BY <4>1 DEF Shapes, RingShape
    <3>4. CASE AdvanceAudio
      BY <3>4 DEF AdvanceAudio, Shapes, RingShape
    <3>5. CASE Update /\ ~WrapAudio /\ ~QueueAudio /\ ~ReleaseAudio /\ ~AdvanceAudio
      <4>1. audio' = audio
        BY <3>5 DEF Update, Check, UpdateBegin, LookForVideo,
         WrapVideo, LookAgainForVideo, BeginFrame, Expand, ReleaseVideo, AdvanceVideo,
         LookForAudio, NextAudio, ResumeAudio, NoteResumed
      <4> QED BY <4>1
    <3> QED BY <1>4, <3>1, <3>2, <3>3, <3>4, <3>5 DEF Foreground
  <2> QED BY <1>2, <2>1, <2>2, <2>3
<1>5. CASE ImageDone \/ Refill
  BY <1>2, <1>5 DEF ImageDone, Refill, others
<1>6. CASE UNCHANGED vars
  BY <1>2, <1>6 DEF vars
<1> QED BY <1>1, <1>3, <1>4, <1>5, <1>6 DEF Next

-----------------------------------------------------------------------------
(* Segments of a ring. *)

LEMMA PlaceType ==
    ASSUME NEW p \in Seq(Places), NEW k \in 1..Len(p)
    PROVE  /\ p[k] \in Places /\ p[k].at \in Nat /\ p[k].count \in Nat /\ p[k].count > 0
           /\ p[k].frame \in Nat /\ p[k].frame > 0
<1>1. p[k] \in Places
  BY ElementOfSeq
<1> QED BY <1>1 DEF Places

LEMMA SegmentSame ==
    ASSUME NEW p \in Seq(Places), NEW q, NEW lo \in Nat, NEW hi \in Int, NEW from, NEW to,
           Segment(p, lo, hi, from, to), \A k \in lo..hi : q[k] = p[k]
    PROVE  Segment(q, lo, hi, from, to)
<1>1. lo <= hi => lo \in lo..hi /\ hi \in lo..hi
  OBVIOUS
<1>2. \A k \in lo..hi - 1 : k \in lo..hi /\ k + 1 \in lo..hi
  OBVIOUS
<1>3. \A k \in lo..hi - 1 : q[k + 1].at = q[k].at + q[k].count
  BY <1>2 DEF Segment
<1> QED BY <1>1, <1>3 DEF Segment

LEMMA SegmentAppend ==
    ASSUME NEW p \in Seq(Places), NEW e \in Places, NEW lo \in 1..Len(p) + 1,
           NEW from \in Nat, NEW to \in Nat, Segment(p, lo, Len(p), from, to), e.at = to
    PROVE  Segment(Append(p, e), lo, Len(p) + 1, from, to + e.count)
<1> DEFINE q == Append(p, e)
           n == Len(p)
<1>1. /\ n \in Nat /\ q[n + 1] = e /\ \A k \in 1..n : q[k] = p[k]
      /\ e.count \in Nat /\ e.count > 0 /\ lo \in Nat /\ lo >= 1 /\ lo <= n + 1
  BY PlacesAppended DEF Places
<1>2. \A k \in lo..n : /\ p[k].at \in Nat /\ p[k].count \in Nat /\ q[k] = p[k]
                       /\ from <= p[k].at /\ p[k].at + p[k].count <= to
  BY <1>1, PlaceType DEF Segment
<1>3. \A k \in lo..n + 1 : k \in lo..n \/ k = n + 1
  BY <1>1
<1> HIDE DEF q
<1>4. q[lo].at = from
  BY <1>1, <1>2 DEF Segment
<1>5. ASSUME NEW k \in lo..n PROVE q[k + 1].at = q[k].at + q[k].count
  <2>1. CASE k < n
    <3>1. k \in lo..n - 1 /\ k + 1 \in lo..n
      BY <1>1, <1>5, <2>1
    <3> QED BY <1>2, <3>1 DEF Segment
  <2>2. CASE k = n
    BY <1>1, <1>2, <1>5, <2>2 DEF Segment
  <2> QED BY <1>1, <1>5, <2>1, <2>2
<1>6. ASSUME NEW j \in lo..n + 1, NEW k \in lo..n + 1, j < k
      PROVE  q[j].at + q[j].count <= q[k].at
  <2>1. j \in lo..n
    BY <1>1, <1>6
  <2>2. CASE k \in lo..n
    BY <1>2, <1>6, <2>1, <2>2 DEF Segment
  <2>3. CASE k = n + 1
    BY <1>1, <1>2, <2>1, <2>3
  <2> QED BY <1>3, <2>2, <2>3
<1>7. ASSUME NEW k \in lo..n + 1
      PROVE  from <= q[k].at /\ q[k].at + q[k].count <= to + e.count
  <2>1. from <= to
    BY DEF Segment
  <2>2. CASE k \in lo..n
    BY <1>1, <1>2, <2>2, SMTT(30)
  <2>3. CASE k = n + 1
    BY <1>1, <2>1, <2>3
  <2> QED BY <1>3, <2>2, <2>3
<1>8. from <= to + e.count /\ q[n + 1].at + q[n + 1].count = to + e.count
  BY <1>1 DEF Segment
<1>9. n + 1 - 1 = n
  BY <1>1
<1> HIDE DEF n
<1>10. Segment(q, lo, n + 1, from, to + e.count)
  BY <1>1, <1>4, <1>5, <1>6, <1>7, <1>8, <1>9 DEF Segment
<1> QED BY <1>10 DEF q, n

LEMMA SegmentDrop ==
    ASSUME NEW p \in Seq(Places), NEW lo \in 1..Len(p), NEW hi \in 1..Len(p), lo <= hi,
           NEW from \in Nat, NEW to \in Nat, Segment(p, lo, hi, from, to)
    PROVE  Segment(p, lo + 1, hi, from + p[lo].count, to)
<1>1. /\ p[lo].at = from /\ p[lo].at + p[lo].count <= to
      /\ p[lo].count \in Nat
  BY PlaceType, SMTT(30) DEF Segment
<1>2. \A k \in lo + 1..hi : k \in lo..hi /\ lo < k /\ p[k].at \in Nat
  BY PlaceType
<1>3. lo + 1 > hi => from + p[lo].count = to
  BY <1>1 DEF Segment
<1>4. lo + 1 <= hi => p[lo + 1].at = from + p[lo].count
  BY <1>1 DEF Segment
<1>5. \A k \in lo + 1..hi : from + p[lo].count <= p[k].at
  BY <1>1, <1>2 DEF Segment
<1>6. /\ from + p[lo].count <= to
      /\ lo + 1 <= hi => p[hi].at + p[hi].count = to
  BY <1>1 DEF Segment
<1>7. \A k \in lo + 1..hi : p[k].at + p[k].count <= to
  BY <1>2 DEF Segment
<1>8. \A k \in lo + 1..hi - 1 : p[k + 1].at = p[k].at + p[k].count
  BY DEF Segment
<1>9. \A j, k \in lo + 1..hi : j < k => p[j].at + p[j].count <= p[k].at
  BY <1>2 DEF Segment
<1> QED BY <1>3, <1>4, <1>5, <1>6, <1>7, <1>8, <1>9 DEF Segment

-----------------------------------------------------------------------------
(* A ring of entries. *)

Ascending(p) == \A j, k \in 1..Len(p) : j < k => p[j].frame < p[k].frame

LEMMA MarkersTell ==
    ASSUME NEW p \in Seq(Places), Ascending(p), NEW j \in 0..Len(p)
    PROVE  Marker(p, j) = Marker(p, Len(p)) <=> j = Len(p)
<1>1. Len(p) \in Nat /\ \A k \in 1..Len(p) : p[k].frame \in Nat /\ p[k].frame > 0
  BY PlaceType
<1> QED BY <1>1 DEF Marker, NONE, Ascending

(* The producer's test of the indices and the markers tells how the ring lies. *)
LEMMA ModeTold ==
    ASSUME NEW p \in Seq(Places), Ascending(p), NEW first \in 1..Len(p) + 1,
           NEW marked \in 0..Len(p), marked \in {first - 1, first},
           NEW r, r.read \in Nat, r.write \in Nat, r.wrap \in Nat,
           marked = first => p[first].at = r.read,
           r.last = Marker(p, Len(p)), r.consumed = Marker(p, marked),
           NEW capacity \in Nat, NEW open \in Nat
    PROVE  /\ InLine(r, p, first, capacity, open) => Linear(r)
           /\ Turned(r, p, first, open) => ~Linear(r)
<1>1. Len(p) \in Nat /\ first \in Nat /\ marked \in Nat
  OBVIOUS
<1>2. r.last = r.consumed <=> marked = Len(p)
  BY MarkersTell
<1>3. ASSUME InLine(r, p, first, capacity, open) PROVE Linear(r)
  <2>1. CASE first <= Len(p)
    <3>1. p[first].at = r.read /\ p[first].at + p[first].count <= r.write
      BY <1>1, <1>3, <2>1 DEF InLine, Segment
    <3>2. p[first].count \in Nat /\ p[first].count > 0
      BY <2>1, PlaceType
    <3> QED BY <3>1, <3>2 DEF Linear
  <2>2. CASE first = Len(p) + 1
    <3>1. r.read = r.write
      BY <1>1, <1>3, <2>2 DEF InLine, Segment
    <3>2. marked = Len(p)
      BY <1>1, <2>2
    <3> QED BY <1>2, <3>1, <3>2 DEF Linear
  <2> QED BY <1>1, <2>1, <2>2
<1>4. ASSUME Turned(r, p, first, open) PROVE ~Linear(r)
  <2>1. PICK split \in first..Len(p) + 1 : TurnedAt(r, p, first, split, open)
    BY <1>4 DEF Turned
  <2>2. r.write <= r.read /\ r.read > 0
    BY <2>1 DEF TurnedAt
  <2>3. ASSUME r.write = r.read PROVE marked # Len(p)
    <3>1. split <= Len(p)
      BY <1>1, <2>1, <2>2, <2>3 DEF TurnedAt, Segment
    <3>2. CASE split = first
      <4>1. p[first].at = 0
        BY <1>1, <2>1, <3>1, <3>2 DEF TurnedAt, Segment
      <4> QED BY <1>1, <2>2, <3>1, <3>2, <4>1
    <3>3. CASE split > first
      BY <1>1, <3>1, <3>3
    <3> QED BY <1>1, <3>2, <3>3
  <2> QED BY <1>2, <2>2, <2>3 DEF Linear
<1> QED BY <1>3, <1>4

(* Room that was found is set aside; a ring with room in front only turns. *)
LEMMA RingReserved ==
    ASSUME NEW p \in Seq(Places), NEW first \in 1..Len(p) + 1, NEW capacity \in Nat,
           NEW n \in Nat, n > 0, NEW r, r.read \in Nat, r.write \in Nat, r.wrap \in 0..capacity,
           RingShape(r), Tiled(r, p, first, capacity, 0),
           InLine(r, p, first, capacity, 0) => Linear(r),
           Turned(r, p, first, 0) => ~Linear(r), HasRoom(r, capacity, n),
           NEW q, q = Reserved(r, capacity, n)
    PROVE  /\ Tiled(q, p, first, capacity, n) /\ RingShape(q)
           /\ q.read = r.read /\ q.last = r.last /\ q.consumed = r.consumed
           /\ q.write \in Nat /\ q.wrap \in 0..capacity
           /\ Turned(r, p, first, 0) => Turned(q, p, first, n)
           /\ InLine(r, p, first, capacity, 0) =>
                \/ InLine(q, p, first, capacity, n) \/ r.read > 0
           /\ q.wrap = r.wrap \/ (q.wrap = r.write /\ r.write + n > capacity)
           /\ q.write = r.write \/ (q.write = 0 /\ r.write + n > capacity)
           /\ q.write + n <= capacity
<1>1. RingShape(q)
  BY ProducedShapes
<1>2. CASE FitsInFront(r, capacity, n)
  <2>1. Linear(r) /\ r.write + n > capacity /\ r.read >= n
    BY <1>2 DEF FitsInFront
  <2>2. InLine(r, p, first, capacity, 0)
    BY <2>1 DEF Tiled
  <2>3. q = [r EXCEPT !.wrap = r.write, !.write = 0]
    BY <1>2 DEF Reserved
  <2>4. /\ q.write = 0 /\ q.wrap = r.write /\ q.read = r.read /\ q.last = r.last
        /\ q.consumed = r.consumed
    BY <2>3 DEF RingShape
  <2>5. Segment(p, first, Len(p), r.read, r.write) /\ r.write <= capacity /\ r.read <= r.write
    BY <2>2 DEF InLine, Segment
  <2>6. Segment(p, Len(p) + 1, Len(p), 0, 0)
    BY DEF Segment
  <2>7. TurnedAt(q, p, first, Len(p) + 1, n)
    BY <2>1, <2>4, <2>5, <2>6 DEF TurnedAt
  <2>8. Turned(q, p, first, n)
    BY <2>7 DEF Turned
  <2> QED BY <1>1, <2>1, <2>4, <2>5, <2>8 DEF Tiled
<1>3. CASE ~FitsInFront(r, capacity, n)
  <2>1. q = r /\ Fits(r, capacity, n)
    BY <1>3 DEF Reserved, HasRoom
  <2>2. CASE InLine(r, p, first, capacity, 0)
    <3>1. r.write + n <= capacity
      BY <2>1, <2>2 DEF Fits
    <3>2. InLine(r, p, first, capacity, n)
      BY <2>2, <3>1 DEF InLine
    <3> QED BY <1>1, <2>1, <2>2, <3>1, <3>2 DEF Tiled
  <2>3. CASE Turned(r, p, first, 0)
    <3>1. PICK split \in first..Len(p) + 1 : TurnedAt(r, p, first, split, 0)
      BY <2>3 DEF Turned
    <3>2. r.write + n <= r.read
      BY <2>1, <2>3 DEF Fits
    <3>3. TurnedAt(r, p, first, split, n)
      BY <3>1, <3>2 DEF TurnedAt
    <3>4. Turned(r, p, first, n)
      BY <3>3 DEF Turned
    <3>5. r.read <= r.wrap
      BY <3>1 DEF TurnedAt, Segment
    <3>6. r.write + n <= capacity
      BY <3>2, <3>5
    <3>7. ~InLine(r, p, first, capacity, 0)
      BY <2>3
    <3> QED BY <1>1, <2>1, <3>4, <3>6, <3>7 DEF Tiled
  <2> QED BY <2>2, <2>3 DEF Tiled
<1> QED BY <1>2, <1>3

(* The entry that fills what was set aside is completed. *)
LEMMA RingCompleted ==
    ASSUME NEW p \in Seq(Places), NEW first \in 1..Len(p) + 1, NEW capacity \in Nat,
           NEW n \in Nat, n > 0, NEW r, r.read \in Nat, r.write \in Nat, r.wrap \in Nat,
           NEW e \in Places, e.at = r.write, e.count = n,
           NEW q, q.read = r.read, q.wrap = r.wrap, q.write = r.write + n
    PROVE  /\ InLine(r, p, first, capacity, n) => InLine(q, Append(p, e), first, capacity, 0)
           /\ Turned(r, p, first, n) => Turned(q, Append(p, e), first, 0)
<1>1. Len(Append(p, e)) = Len(p) + 1 /\ \A k \in 1..Len(p) : Append(p, e)[k] = p[k]
      /\ Len(p) \in Nat /\ first \in Nat
  BY PlacesAppended
<1>2. ASSUME InLine(r, p, first, capacity, n)
      PROVE  InLine(q, Append(p, e), first, capacity, 0)
  <2>1. Segment(Append(p, e), first, Len(p) + 1, r.read, r.write + n)
    BY <1>2, SegmentAppend DEF InLine
  <2> QED BY <1>1, <1>2, <2>1 DEF InLine
<1>3. ASSUME Turned(r, p, first, n) PROVE Turned(q, Append(p, e), first, 0)
  <2>1. PICK split \in first..Len(p) + 1 : TurnedAt(r, p, first, split, n)
    BY <1>3 DEF Turned
  <2>2. split \in 1..Len(p) + 1 /\ split \in first..Len(p) + 1 + 1
    BY <1>1
  <2>3. Segment(Append(p, e), split, Len(p) + 1, 0, r.write + n)
    BY <2>1, <2>2, SegmentAppend DEF TurnedAt
  <2>4. Segment(Append(p, e), first, split - 1, r.read, r.wrap)
    <3>1. \A k \in first..split - 1 : Append(p, e)[k] = p[k]
      BY <1>1, <2>2
    <3>2. Segment(p, first, split - 1, r.read, r.wrap) /\ split - 1 \in Int
      BY <1>1, <2>1, <2>2 DEF TurnedAt
    <3> DEFINE last == split - 1
    <3> HIDE DEF last
    <3>3. Segment(p, first, last, r.read, r.wrap) /\ last \in Int /\ first \in Nat
          /\ \A k \in first..last : Append(p, e)[k] = p[k]
      BY <1>1, <3>1, <3>2 DEF last
    <3>4. Segment(Append(p, e), first, last, r.read, r.wrap)
      BY <3>3, SegmentSame
    <3> QED BY <3>4 DEF last
  <2>5. TurnedAt(q, Append(p, e), first, split, 0)
    BY <1>1, <2>1, <2>3, <2>4 DEF TurnedAt
  <2> QED BY <1>1, <2>2, <2>5 DEF Turned
<1> QED BY <1>2, <1>3

(* What was set aside is given up. *)
LEMMA RingGivenUp ==
    ASSUME NEW p \in Seq(Places), NEW first \in 1..Len(p) + 1, NEW capacity \in Nat,
           NEW n \in Nat, NEW r, r.read \in Nat, r.write \in Nat
    PROVE  /\ InLine(r, p, first, capacity, n) => InLine(r, p, first, capacity, 0)
           /\ Turned(r, p, first, n) => Turned(r, p, first, 0)
<1>1. \A split : TurnedAt(r, p, first, split, n) => TurnedAt(r, p, first, split, 0)
  BY DEF TurnedAt
<1> QED BY <1>1 DEF InLine, Turned

(* No slot of an entry is among those set aside, and none behind the ring. *)
LEMMA RingApart ==
    ASSUME NEW p \in Seq(Places), NEW first \in 1..Len(p) + 1, NEW capacity \in Nat,
           NEW n \in Nat, NEW r, r.read \in Nat, r.write \in Nat, r.wrap \in 0..capacity,
           Tiled(r, p, first, capacity, n), NEW k \in first..Len(p)
    PROVE  /\ p[k].at + p[k].count <= r.write \/ r.write + n <= p[k].at
           /\ p[k].at + p[k].count <= capacity
<1>1. p[k].at \in Nat /\ p[k].count \in Nat /\ first \in Nat /\ Len(p) \in Nat
  BY PlaceType
<1>2. CASE InLine(r, p, first, capacity, n)
  BY <1>1, <1>2, SMTT(30) DEF InLine, Segment
<1>3. CASE Turned(r, p, first, n)
  <2>1. PICK split \in first..Len(p) + 1 : TurnedAt(r, p, first, split, n)
    BY <1>3 DEF Turned
  <2>2. r.write + n <= r.read /\ r.read <= r.wrap
    BY <2>1 DEF TurnedAt, Segment
  <2>3. CASE k < split
    <3>1. r.read <= p[k].at /\ p[k].at + p[k].count <= r.wrap
      BY <1>1, <2>1, <2>3 DEF TurnedAt, Segment
    <3>2. r.write + n <= p[k].at
      BY <1>1, <2>2, <3>1, SMTT(30)
    <3>3. p[k].at + p[k].count <= capacity
      BY <1>1, <3>1, SMTT(30)
    <3> QED BY <3>2, <3>3
  <2>4. CASE k >= split
    <3>1. p[k].at + p[k].count <= r.write
      <4>1. Segment(p, split, Len(p), 0, r.write) /\ k \in split..Len(p)
        BY <1>1, <2>1, <2>4 DEF TurnedAt
      <4> QED BY <4>1 DEF Segment
    <3>2. p[k].at + p[k].count <= capacity
      BY <1>1, <2>2, <3>1, SMTT(30)
    <3> QED BY <3>1, <3>2
  <2> QED BY <1>1, <2>3, <2>4
<1> QED BY <1>2, <1>3 DEF Tiled

-----------------------------------------------------------------------------
(* Slots. *)

LEMMA IntactKept ==
    ASSUME NEW capacity \in Nat, NEW X, NEW slots \in [0..capacity - 1 -> X], NEW e \in Places,
           NEW i \in Nat, NEW x, Intact(slots, e), e.at + e.count <= capacity,
           e.at + e.count <= i \/ i < e.at
    PROVE  Intact([slots EXCEPT ![i] = x], e)
<1>1. e.at \in Nat /\ e.count \in Nat /\ e.count > 0
  BY DEF Places
<1> DEFINE s == [slots EXCEPT ![i] = x]
<1>2. \A k \in 0..e.count - 1 : s[e.at + k] = slots[e.at + k]
  BY <1>1
<1>3. s[e.at] = slots[e.at]
  BY <1>1
<1> HIDE DEF s
<1>4. Intact(s, e)
  BY <1>2, <1>3 DEF Intact
<1> QED BY <1>4 DEF s

LEMMA EntryFound ==
    ASSUME NEW capacity \in Nat, NEW X, NEW slots \in [0..capacity - 1 -> X], NEW e \in Places,
           Intact(slots, e), e.at + e.count <= capacity
    PROVE  EntryAt(slots, e.at) = e
<1>1. /\ e.at \in Nat /\ e.count \in Nat /\ e.count > 0 /\ e.frame \in Nat /\ e.frame > 0
      /\ e = [at |-> e.at, count |-> e.count, frame |-> e.frame]
  BY DEF Places
<1>2. 0 \in 0..e.count - 1 /\ e.at + 0 = e.at
  BY <1>1
<1>3. slots[e.at].frame = e.frame /\ slots[e.at].idx = 0 /\ slots[e.at].count = e.count
  BY <1>2 DEF Intact
<1>4. e.at + e.count - 1 \in DOMAIN slots
  BY <1>1
<1>5. \A k \in 0..e.count - 1 : slots[e.at + k].frame = e.frame /\ slots[e.at + k].idx = k
  BY DEF Intact
<1>6. EntryAt(slots, e.at) = Place(e.at, e.count, e.frame)
  BY <1>1, <1>3, <1>4, <1>5 DEF EntryAt, NONE
<1> QED BY <1>1, <1>6 DEF Place

LEMMA PrefixOf ==
    ASSUME NEW s, NEW n \in Nat, \A k \in 1..n : s[k] \in Places
    PROVE  /\ SubSeq(s, 1, n) \in Seq(Places) /\ Len(SubSeq(s, 1, n)) = n
           /\ \A k \in 1..n : SubSeq(s, 1, n)[k] = s[k]
<1> DEFINE q == SubSeq(s, 1, n)
<1>1. /\ q \in Seq(Places) /\ Len(q) = IF 1 <= n THEN n - 1 + 1 ELSE 0
      /\ \A k \in 1..n - 1 + 1 : q[k] = s[1 + k - 1]
  BY SubSeqProperties
<1> HIDE DEF q
<1>2. Len(q) = n
  BY <1>1
<1>3. \A k \in 1..n : k \in 1..n - 1 + 1 /\ 1 + k - 1 = k
  OBVIOUS
<1>4. \A k \in 1..n : q[k] = s[k]
  BY <1>1, <1>3
<1> QED BY <1>1, <1>2, <1>4 DEF q

LEMMA PrefixTold ==
    ASSUME NEW s \in Seq(Places), NEW t \in Seq(Places), Len(s) <= Len(t),
           \A k \in 1..Len(s) : s[k] = t[k]
    PROVE  IsPrefix(s, t)
<1> DEFINE n == Len(s)
<1>1. n \in Nat /\ \A k \in 1..n : s[k] \in Places /\ t[k] \in Places /\ s[k] = t[k]
  BY ElementOfSeq
<1> HIDE DEF n
<1>2. /\ SubSeq(s, 1, n) \in Seq(Places) /\ SubSeq(t, 1, n) \in Seq(Places)
      /\ Len(SubSeq(s, 1, n)) = n /\ Len(SubSeq(t, 1, n)) = n
      /\ \A k \in 1..n : SubSeq(s, 1, n)[k] = s[k] /\ SubSeq(t, 1, n)[k] = t[k]
  BY <1>1, PrefixOf
<1>3. SubSeq(s, 1, n) = SubSeq(t, 1, n)
  BY <1>1, <1>2, SeqEqual
<1> QED BY <1>3 DEF IsPrefix, n


-----------------------------------------------------------------------------
(* The video ring: what its invariant says at every place. *)

LEMMA VideoFacts ==
    ASSUME Shapes, VideoInv
    PROVE  /\ VideoCapacity \in Nat /\ video.read \in Nat /\ video.write \in Nat
           /\ video.wrap \in 0..VideoCapacity /\ video.read <= VideoCapacity
           /\ taken.video \in Seq(Places) /\ stored.video \in Seq(Places)
           /\ Len(taken.video) \in 0..Len(stored.video) /\ Len(stored.video) \in Nat
           /\ VideoFirst \in 1..Len(stored.video) + 1
           /\ fg.at = "release_video" => VideoFirst = Len(taken.video)
           /\ fg.at # "release_video" => VideoFirst = Len(taken.video) + 1
           /\ Ascending(stored.video) /\ Open("video") \in Nat
           /\ InLine(video, stored.video, VideoFirst, VideoCapacity, Open("video")) =>
                Linear(video)
           /\ VideoTurned => ~Linear(video)
<1>1. /\ VideoCapacity \in Nat /\ video.read \in Nat /\ video.write \in Nat
      /\ video.wrap \in 0..VideoCapacity /\ video.read <= VideoCapacity
  BY Capacities DEF VideoInv, VideoTypes, RingOK
<1>2. taken.video \in Seq(Places) /\ stored.video \in Seq(Places) /\ Open("video") \in Nat
  BY OpenType DEF VideoInv, VideoTypes
<1>3. Len(stored.video) \in Nat /\ Len(taken.video) \in Nat
      /\ Len(taken.video) \in 0..Len(stored.video)
  BY <1>2 DEF VideoInv, VideoTaken
<1>4. fg.at = "release_video" => VideoFirst = Len(taken.video)
  BY <1>3 DEF VideoFirst
<1>5. fg.at # "release_video" => VideoFirst = Len(taken.video) + 1
  BY <1>3 DEF VideoFirst
<1>6. fg.at = "release_video" => VideoFound
  BY DEF VideoInv, VideoRead
<1>7. VideoFirst \in 1..Len(stored.video) + 1
  BY <1>3, <1>4, <1>5, <1>6 DEF VideoFound
<1>8. Ascending(stored.video)
  BY DEF VideoInv, Producing, Ordered, Ascending
<1>9. Len(taken.video) \in {VideoFirst - 1, VideoFirst}
      /\ (Len(taken.video) = VideoFirst => stored.video[VideoFirst].at = video.read)
  BY <1>3, <1>4, <1>5, <1>6 DEF VideoFound
<1>10. video.last = Marker(stored.video, Len(stored.video))
       /\ video.consumed = Marker(stored.video, Len(taken.video)) /\ video.wrap \in Nat
  BY <1>1 DEF VideoInv, VideoMarked
<1>11. /\ InLine(video, stored.video, VideoFirst, VideoCapacity, Open("video")) => Linear(video)
       /\ Turned(video, stored.video, VideoFirst, Open("video")) => ~Linear(video)
  BY <1>1, <1>2, <1>3, <1>7, <1>8, <1>9, <1>10, ModeTold
<1> QED BY <1>1, <1>2, <1>3, <1>4, <1>5, <1>7, <1>8, <1>11 DEF VideoTurned

LEMMA VideoInit == Init => VideoInv
<1> SUFFICES ASSUME Init PROVE VideoInv
  OBVIOUS
<1>1. Producing
  BY ProducingInit
<1>2. /\ video = ring /\ stored.video = <<>> /\ taken.video = <<>> /\ fg.at = "update"
      /\ fg.local = 0 /\ fg.vlc = 0 /\ producer.remaining = 0
      /\ vslots = [i \in 0..VideoCapacity - 1 |-> Blank]
  BY DEF Init
<1>3. Open("video") = 0 /\ VideoFirst = 1
  BY <1>2 DEF Open, VideoFirst
<1>4. VideoTypes
  BY <1>2, Capacities, StreamAssumption DEF VideoTypes, RingOK, ring, NONE
<1>5. VideoMarked
  BY <1>2 DEF VideoMarked, Marker, ring, NONE
<1>6. VideoHeld
  <2>1. InLine(video, stored.video, 1, VideoCapacity, 0)
    BY <1>2, Capacities DEF InLine, Segment, ring
  <2> QED BY <1>2, <1>3, <2>1 DEF VideoHeld, Tiled, Filling, ring
<1>7. VideoTaken /\ VideoRead
  BY <1>2 DEF VideoTaken, VideoRead
<1> QED BY <1>1, <1>4, <1>5, <1>6, <1>7 DEF VideoInv

(* A step that leaves the ring, its slots and its entries alone. *)
LEMMA VideoLooks ==
    ASSUME Shapes, VideoInv, Producing',
           UNCHANGED <<producer, stored, vslots, video>>, taken'.video = taken.video,
           fg'.at \in {"wrap_video", "release_video"} => fg'.local \in Nat,
           fg'.vlc \in 0..VlcRetries, VideoRead',
           fg'.at = "release_video" <=> fg.at = "release_video"
    PROVE  VideoInv'
<1>1. VideoFirst' = VideoFirst /\ Open("video")' = Open("video")
  BY DEF VideoFirst, Open
<1>2. VideoHeld'
  BY <1>1 DEF VideoInv, VideoHeld
<1>3. VideoTypes' /\ VideoMarked' /\ VideoTaken'
  BY DEF VideoInv, VideoTypes, VideoMarked, VideoTaken
<1> QED BY <1>2, <1>3 DEF VideoInv

(* A step that completes at most one entry or sets slots aside. *)
LEMMA VideoProduced ==
    ASSUME Shapes, VideoInv, Producing', UNCHANGED <<fg, taken>>,
           RingOK(video', VideoCapacity), vslots' \in [0..VideoCapacity - 1 -> Sector \cup {Blank}],
           video'.read = video.read, video'.consumed = video.consumed,
           Len(stored.video) <= Len(stored'.video),
           \A k \in 1..Len(stored.video) : stored'.video[k] = stored.video[k],
           video'.last = Marker(stored'.video, Len(stored'.video)),
           Tiled(video', stored'.video, VideoFirst, VideoCapacity, Open("video")'),
           VideoTurned => /\ Turned(video', stored'.video, VideoFirst, Open("video")')
                          /\ video'.wrap = video.wrap,
           video.read = 0 /\ InLine(video, stored.video, VideoFirst, VideoCapacity, Open("video"))
             => InLine(video', stored'.video, VideoFirst, VideoCapacity, Open("video")'),
           video'.wrap = video.wrap \/ video'.wrap > AudioCapacity,
           \A k \in VideoFirst..Len(stored'.video) : Intact(vslots', stored'.video[k]),
           Filling(vslots', video'.write, Open("video")', producer'.chunk, producer'.frame)
    PROVE  VideoInv'
<1>1. /\ VideoFirst \in 1..Len(stored.video) + 1 /\ Len(stored.video) \in Nat
      /\ Len(taken.video) \in 0..Len(stored.video)
  BY VideoFacts
<1>2. VideoFirst' = VideoFirst
  BY DEF VideoFirst
<1>3. Len(stored'.video) \in Nat
  BY DEF Producing
<1>4. VideoTypes'
  BY DEF VideoInv, VideoTypes
<1>5. VideoMarked'
  BY <1>1 DEF VideoInv, VideoMarked, Marker
<1>6. VideoHeld'
  BY <1>2 DEF VideoInv, VideoHeld
<1>7. VideoTaken'
  BY <1>1, <1>3, SMTT(30) DEF VideoInv, VideoTaken
<1>8. VideoFound => VideoFound'
  BY <1>1, <1>2, <1>3 DEF VideoFound
<1>9. VideoTurned => VideoTurned' /\ video'.wrap = video.wrap
  BY <1>2 DEF VideoTurned
<1>10. VideoFound => stored'.video[VideoFirst] = stored.video[VideoFirst]
  BY <1>1 DEF VideoFound
<1>11. VideoRead'
  BY <1>2, <1>8, <1>9, <1>10 DEF VideoInv, VideoRead
<1> QED BY <1>4, <1>5, <1>6, <1>7, <1>11 DEF VideoInv

LEMMA VideoSector == ASSUME Shapes, VideoInv, SectorReady PROVE VideoInv'
<1> DEFINE p == stored.video
           first == VideoFirst
           open == Open("video")
           room == VideoCapacity
<1>1. /\ room \in Nat /\ video.read \in Nat /\ video.write \in Nat
      /\ video.wrap \in 0..room /\ video.read <= room /\ p \in Seq(Places)
      /\ first \in 1..Len(p) + 1 /\ Len(p) \in Nat /\ open \in Nat
      /\ InLine(video, p, first, room, open) => Linear(video)
      /\ VideoTurned => ~Linear(video)
  BY VideoFacts
<1>2. Shapes' /\ Producing /\ Producing'
  BY ShapesStep, ProducingSector DEF VideoInv, Next
<1>3. UNCHANGED <<fg, taken>> /\ pos <= Len(stream)
  BY DEF SectorReady
<1>4. /\ Tiled(video, p, first, room, open)
      /\ \A k \in first..Len(p) : Intact(vslots, p[k])
      /\ Filling(vslots, video.write, open, producer.chunk, producer.frame)
      /\ vslots \in [0..room - 1 -> Sector \cup {Blank}] /\ RingOK(video, room)
      /\ video.last = Marker(p, Len(p))
  BY DEF VideoInv, VideoHeld, VideoTypes, VideoMarked
<1>5. /\ Coming \in Sector /\ Coming.count \in Nat /\ Coming.count > 0 /\ Coming.frame \in Nat
      /\ Coming.frame > 0 /\ Coming.count <= room - AudioCapacity
      /\ AudioCapacity \in Nat /\ AudioCapacity > 0
  BY <1>2, <1>3, SectorType, Capacities
<1>6. /\ producer.remaining \in Nat /\ producer.chunk \in Nat /\ producer.frame \in Nat
      /\ producer.remaining = 0 => open = 0
      /\ producer.remaining > 0 => producer.chunk > 0 /\ producer.frame > 0
  BY <1>2, OpenType
<1> HIDE DEF p, first, open, room
(* The rest of an entry is not stored: what is in the slots stays. *)
<1>7. ASSUME UNCHANGED <<video, stored>>, Open("video")' = 0,
             vslots' \in [0..room - 1 -> Sector \cup {Blank}],
             \A k \in first..Len(p) : Intact(vslots', p[k])
      PROVE  VideoInv'
  <2>1. /\ InLine(video, p, first, room, open) => InLine(video, p, first, room, 0)
        /\ Turned(video, p, first, open) => Turned(video, p, first, 0)
    BY <1>1, RingGivenUp
  <2>2. Tiled(video, p, first, room, 0)
    BY <1>4, <2>1 DEF Tiled
  <2>3. VideoTurned => Turned(video, p, first, 0)
    BY <2>1 DEF VideoTurned, p, first, open
  <2>4. video.read = 0 /\ InLine(video, stored.video, VideoFirst, VideoCapacity, Open("video"))
          => InLine(video, p, first, room, 0)
    BY <2>1 DEF p, first, open, room
  <2>5. Filling(vslots', video'.write, Open("video")', producer'.chunk, producer'.frame)
    BY <1>7 DEF Filling
  <2> QED
    BY <1>2, <1>3, <1>4, <1>7, <2>2, <2>3, <2>4, <2>5, VideoProduced DEF p, first, room
<1>8. ASSUME UNCHANGED <<video, stored, vslots>>, open = 0, Open("video")' = 0
      PROVE  VideoInv'
  BY <1>4, <1>7, <1>8
<1>9. ASSUME producer.remaining = 0, producer'.remaining = 0, UNCHANGED <<video, stored, vslots>>
      PROVE  VideoInv'
  BY <1>6, <1>8, <1>9 DEF Open
<1>10. CASE NewEntryPastEnd
  BY <1>9, <1>10 DEF NewEntryPastEnd
<1>11. CASE Skipped
  <2>1. producer.remaining = 0 /\ UNCHANGED <<video, stored, vslots>>
        /\ producer' = [producer EXCEPT !.frame = Coming.frame]
    BY <1>11 DEF Skipped
  <2>2. producer'.remaining = 0
    BY <2>1 DEF Shapes
  <2> QED BY <1>9, <2>1, <2>2
<1>13. ASSUME UNCHANGED <<video, vslots>>, stored'.video = p, open = 0, Open("video")' = 0
       PROVE  VideoInv'
  <2>1. Filling(vslots', video'.write, Open("video")', producer'.chunk, producer'.frame)
    BY <1>13 DEF Filling
  <2> QED
    BY <1>1, <1>2, <1>3, <1>4, <1>13, <2>1, VideoProduced
    DEF p, first, open, room, VideoTurned
<1>12. CASE NewAudio
  <2>1. producer.remaining = 0 /\ UNCHANGED <<video, vslots>> /\ stored'.video = p
        /\ Coming.type = "audio"
    BY <1>12 DEF NewAudio, Shapes, p
  <2>2. Open("video")' = 0
    <3>1. CASE Opened("audio")
      <4>1. /\ Coming.count = 1 => \A u : Open(u)' = 0
            /\ Coming.count > 1 => \A u : Open(u)' = IF u = "audio" THEN Coming.count ELSE 0
        BY <1>2, <1>3, <2>1, <3>1, OpenedType
      <4> QED BY <1>5, <4>1
    <3>2. CASE producer' = [producer EXCEPT !.frame = Coming.frame]
      BY <2>1, <3>2 DEF Open, Shapes
    <3> QED BY <1>12, <3>1, <3>2 DEF NewAudio
  <2>3. open = 0
    BY <1>6, <2>1
  <2> QED BY <1>13, <2>1, <2>2, <2>3
<1>14. CASE ContinueAudio
  <2>1. /\ producer.remaining > 0 /\ producer.continuation = "audio" /\ Continued
        /\ UNCHANGED <<video, vslots>> /\ stored'.video = p
    BY <1>14 DEF ContinueAudio, Expected, Shapes, p
  <2>2. open = 0
    BY <2>1 DEF Open, open
  <2>3. Open("video")' = 0
    <3>1. /\ producer.remaining = 1 => \A u : Open(u)' = 0
          /\ producer.remaining > 1 => \A u : Open(u)' = Open(u)
      BY <1>2, <2>1, ContinuedType
    <3> QED BY <1>6, <2>1, <2>2, <3>1 DEF open
  <2> QED BY <1>13, <2>1, <2>2, <2>3
<1>15. CASE Abandoned
  <2> DEFINE i == video.write + producer.chunk
  <2>1. /\ producer.remaining > 0 /\ UNCHANGED <<video, stored>>
        /\ producer' = [producer EXCEPT !.frame = Coming.frame, !.remaining = 0]
    BY <1>15 DEF Abandoned
  <2>2. producer'.remaining = 0
    BY <2>1 DEF Shapes
  <2>3. Open("video")' = 0
    BY <2>2 DEF Open
  <2>4. CASE producer.continuation # "video"
    <3>1. vslots' = vslots
      BY <1>15, <2>4 DEF Abandoned
    <3> QED BY <1>4, <1>7, <2>1, <2>3, <3>1
  <2>5. CASE producer.continuation = "video"
    <3>1. vslots' = [vslots EXCEPT ![i] = Blank]
      BY <1>15, <2>5 DEF Abandoned
    <3>o. open = producer.chunk + producer.remaining
      BY <1>1, <1>6, <2>1, <2>5 DEF open, Open
    <3>n. /\ video.write \in Nat /\ producer.chunk \in Nat /\ producer.remaining \in Nat
          /\ producer.remaining > 0
      BY <1>1, <1>6, <2>1
    <3>2. i \in Nat /\ video.write <= i /\ i < video.write + open
      BY <3>n, <3>o
    <3>3. vslots' \in [0..room - 1 -> Sector \cup {Blank}]
      BY <1>4, <3>1
    <3>4. ASSUME NEW k \in first..Len(p) PROVE Intact(vslots', p[k])
      <4>1. /\ p[k].at + p[k].count <= video.write \/ video.write + open <= p[k].at
            /\ p[k].at + p[k].count <= room
        BY <1>1, <1>4, RingApart
      <4>2. k \in 1..Len(p)
        BY <1>1
      <4>3. p[k] \in Places /\ p[k].at \in Nat /\ p[k].count \in Nat
        BY <1>1, <4>2, PlaceType
      <4>4. p[k].at + p[k].count <= i \/ i < p[k].at
        <5> HIDE DEF i
        <5>1. CASE p[k].at + p[k].count <= video.write
          BY <1>1, <3>2, <4>3, <5>1, SMTT(30)
        <5>2. CASE video.write + open <= p[k].at
          BY <1>1, <3>2, <4>3, <5>2
        <5> QED BY <4>1, <5>1, <5>2
      <4>5. Intact(vslots, p[k])
        BY <1>4
      <4> HIDE DEF i
      <4> QED BY <1>1, <1>4, <3>1, <3>2, <4>1, <4>3, <4>4, <4>5, IntactKept
    <3> QED BY <1>7, <2>1, <2>3, <3>3, <3>4
  <2> QED BY <2>4, <2>5
<1>16. CASE NewVideo
  <2> DEFINE n == Coming.count
             q == Reserved(video, room, n)
             i == q.write
             slots == [vslots EXCEPT ![i] = Coming]
  <2>1. /\ producer.remaining = 0 /\ HasRoom(video, room, n) /\ Opened("video")
        /\ Coming.type = "video" /\ Coming.idx = 0 /\ vslots' = slots
    BY <1>16 DEF NewVideo, room
  <2>2. open = 0
    BY <1>6, <2>1
  <2>r. RingShape(video)
    BY DEF Shapes
  <2>t. /\ InLine(video, p, first, room, 0) => Linear(video)
        /\ Turned(video, p, first, 0) => ~Linear(video)
        /\ VideoTurned <=> Turned(video, p, first, 0)
    BY <1>1, <2>2 DEF VideoTurned, p, first, open
  <2>q. q = Reserved(video, room, n) /\ HasRoom(video, room, n) /\ n \in Nat /\ n > 0
        /\ Tiled(video, p, first, room, 0)
    BY <1>4, <1>5, <2>1, <2>2
  <2> HIDE DEF n, q
  <2>3. /\ Tiled(q, p, first, room, n) /\ RingShape(q)
        /\ q.read = video.read /\ q.last = video.last /\ q.consumed = video.consumed
        /\ q.write \in Nat /\ q.wrap \in 0..room
        /\ Turned(video, p, first, 0) => Turned(q, p, first, n)
        /\ InLine(video, p, first, room, 0) => InLine(q, p, first, room, n) \/ video.read > 0
        /\ q.wrap = video.wrap \/ (q.wrap = video.write /\ video.write + n > room)
        /\ q.write + n <= room
    BY <1>1, <2>q, <2>r, <2>t, RingReserved, SMTT(30)
  <2>w. VideoTurned => q.wrap = video.wrap
    BY <1>1 DEF q, Reserved, FitsInFront
  <2>4. n \in Nat /\ n > 0 /\ n <= room - AudioCapacity /\ Coming.count = n
    BY <1>5 DEF n
  <2>5. i \in Nat /\ i < q.write + n /\ i \in 0..room - 1
    BY <1>1, <2>3, <2>4
  <2>6. slots \in [0..room - 1 -> Sector \cup {Blank}] /\ slots[i] = Coming
    BY <1>4, <1>5, <2>5
  <2> HIDE DEF i
  <2>7. ASSUME NEW k \in first..Len(p) PROVE Intact(slots, p[k])
    <3>1. /\ p[k].at + p[k].count <= q.write \/ q.write + n <= p[k].at
          /\ p[k].at + p[k].count <= room
      BY <1>1, <2>3, <2>4, RingApart
    <3>2. k \in 1..Len(p)
      BY <1>1
    <3>3. p[k] \in Places /\ p[k].at \in Nat /\ p[k].count \in Nat
      BY <1>1, <3>2, PlaceType
    <3>4. p[k].at + p[k].count <= i \/ i < p[k].at
      <4>1. CASE p[k].at + p[k].count <= q.write
        BY <4>1 DEF i
      <4>2. CASE q.write + n <= p[k].at
        BY <2>3, <2>4, <2>5, <3>3, <4>2
      <4> QED BY <3>1, <4>1, <4>2
    <3>5. Intact(vslots, p[k])
      BY <1>4
    <3> QED BY <1>1, <1>4, <2>5, <3>1, <3>3, <3>4, <3>5, IntactKept
  <2>8. q.wrap = video.wrap \/ q.wrap > AudioCapacity
    BY <1>1, <1>5, <2>3, <2>4
  <2> HIDE DEF slots
  <2>9. CASE n > 1
    <3>1. video' = q /\ UNCHANGED stored
      BY <1>16, <2>4, <2>9 DEF NewVideo, room, q, n
    <3>2. /\ Open("video")' = n /\ producer'.chunk = 1 /\ producer'.frame = Coming.frame
      BY <1>2, <1>3, <2>1, <2>4, <2>9, OpenedType
    <3>3. Filling(vslots', video'.write, n, producer'.chunk, producer'.frame)
      <4>1. slots[i + 0] = Coming /\ \A k \in 0..1 - 1 : k = 0
        BY <2>5, <2>6
      <4> QED BY <2>1, <2>4, <2>6, <3>1, <3>2, <4>1 DEF Filling, i
    <3>4. RingOK(video', room)
      BY <1>1, <1>4, <2>3, <2>4, <3>1, SMTT(30) DEF RingOK
    <3> QED
      BY <1>1, <1>2, <1>3, <1>4, <2>1, <2>2, <2>3, <2>6, <2>7, <2>8, <2>t, <2>w, <3>1, <3>2, <3>3,
         <3>4, VideoProduced DEF p, first, room, open
  <2>10. CASE n = 1
    <3> DEFINE e == Place(i, 1, Coming.frame)
    <3>1. video' = Completed(q, 1, Coming.frame) /\ stored'.video = Append(p, e)
      BY <1>16, <2>4, <2>10 DEF NewVideo, room, q, n, i, p, Shapes
    <3>2. video' = [write |-> q.write + 1, read |-> q.read, wrap |-> q.wrap,
                    last |-> Coming.frame, consumed |-> q.consumed]
      BY <2>3, <3>1 DEF Completed, RingShape
    <3>3. Open("video")' = 0
      BY <1>2, <1>3, <2>1, <2>4, <2>10, OpenedType
    <3>4. e \in Places /\ e.at = q.write /\ e.count = 1 /\ e.frame = Coming.frame
      BY <1>5, <2>5 DEF Place, Places, i
    <3> HIDE DEF e
    <3>5. /\ Len(Append(p, e)) = Len(p) + 1 /\ Append(p, e)[Len(p) + 1] = e
          /\ \A k \in 1..Len(p) : Append(p, e)[k] = p[k]
      BY <1>1, <3>4, PlacesAppended
    <3>6. /\ InLine(q, p, first, room, 1) => InLine(video', Append(p, e), first, room, 0)
          /\ Turned(q, p, first, 1) => Turned(video', Append(p, e), first, 0)
      <4>1. /\ q.read \in Nat /\ q.write \in Nat /\ q.wrap \in Nat
            /\ video'.read = q.read /\ video'.wrap = q.wrap /\ video'.write = q.write + 1
        BY <1>1, <2>3, <3>2
      <4> QED BY <1>1, <3>4, <4>1, RingCompleted
    <3>7. Tiled(video', Append(p, e), first, room, 0)
      BY <2>3, <2>10, <3>6 DEF Tiled
    <3>8. Intact(slots, e)
      <4>1. \A k \in 0..1 - 1 : k = 0
        OBVIOUS
      <4>2. slots[i + 0] = Coming /\ slots[i] = Coming
        BY <2>5, <2>6
      <4> QED BY <2>1, <2>4, <2>10, <3>4, <4>1, <4>2 DEF Intact, i
    <3>9. \A k \in first..Len(p) + 1 : Intact(slots, Append(p, e)[k])
      <4>1. \A k \in first..Len(p) + 1 : (k \in first..Len(p) /\ k \in 1..Len(p)) \/ k = Len(p) + 1
        BY <1>1
      <4> QED BY <2>7, <3>5, <3>8, <4>1
    <3>10. video'.last = Marker(Append(p, e), Len(p) + 1)
      BY <1>1, <3>2, <3>4, <3>5 DEF Marker
    <3>11. RingOK(video', room)
      <4>1. /\ video'.write \in 0..room /\ video'.read \in 0..room /\ video'.wrap \in 0..room
        BY <1>1, <2>3, <2>4, <2>10, <3>2
      <4>2. video'.last \in Nat /\ video'.consumed \in Nat
        BY <1>4, <1>5, <2>3, <3>2 DEF RingOK
      <4> QED BY <4>1, <4>2 DEF RingOK
    <3>12. Filling(vslots', video'.write, Open("video")', producer'.chunk, producer'.frame)
      BY <3>3 DEF Filling
    <3>13. VideoTurned => Turned(video', Append(p, e), first, 0) /\ video'.wrap = video.wrap
      BY <2>3, <2>10, <2>t, <2>w, <3>2, <3>6
    <3>14. video.read = 0 /\ InLine(video, p, first, room, 0) =>
             InLine(video', Append(p, e), first, room, 0)
      BY <2>3, <2>10, <3>6
    <3>15. /\ video'.read = video.read /\ video'.consumed = video.consumed
           /\ video'.wrap = video.wrap \/ video'.wrap > AudioCapacity
      BY <2>3, <2>8, <3>2
    <3>16. /\ Len(p) <= Len(stored'.video) /\ \A k \in 1..Len(p) : stored'.video[k] = p[k]
           /\ video'.last = Marker(stored'.video, Len(stored'.video))
           /\ Tiled(video', stored'.video, first, room, Open("video")')
           /\ VideoTurned => Turned(video', stored'.video, first, Open("video")')
           /\ \A k \in first..Len(stored'.video) : Intact(vslots', stored'.video[k])
      BY <1>1, <2>1, <3>1, <3>3, <3>5, <3>7, <3>9, <3>10, <3>13
    <3>17. video.read = 0 /\ InLine(video, p, first, room, open) =>
             InLine(video', stored'.video, first, room, Open("video")')
      BY <2>2, <3>1, <3>3, <3>14
    <3> QED
      BY <1>2, <1>3, <2>1, <2>6, <3>11, <3>12, <3>13, <3>15, <3>16, <3>17, VideoProduced
      DEF p, first, room, open
  <2> QED BY <2>4, <2>9, <2>10
<1>17. CASE ContinueVideo
  <2> DEFINE c == producer.chunk
             w == video.write
             i == w + c
             slots == [vslots EXCEPT ![i] = Coming]
  <2>1. /\ producer.remaining > 0 /\ producer.continuation = "video" /\ Continued
        /\ Coming.frame = producer.frame /\ Coming.idx = c /\ vslots' = slots
    BY <1>17 DEF ContinueVideo, Expected
  <2>2. open = c + producer.remaining /\ open > c /\ open > 0 /\ c \in Nat /\ c > 0
        /\ w \in Nat /\ (producer.remaining = 1 => open = 1 + c)
    BY <1>1, <1>6, <2>1 DEF open, Open
  <2>3. w + open <= room
    <3>1. CASE InLine(video, p, first, room, open)
      BY <3>1 DEF InLine
    <3>2. CASE Turned(video, p, first, open)
      BY <1>1, <2>2, <3>2 DEF Turned, TurnedAt
    <3> QED BY <1>4, <3>1, <3>2 DEF Tiled
  <2> HIDE DEF c, w
  <2>4. i \in Nat /\ i \in 0..room - 1 /\ w <= i /\ i < w + open
    BY <1>1, <2>2, <2>3
  <2>5. slots \in [0..room - 1 -> Sector \cup {Blank}] /\ slots[i] = Coming
        /\ \A k \in 0..room - 1 : k # i => slots[k] = vslots[k]
    BY <1>4, <1>5, <2>4
  <2>6. ASSUME NEW k \in first..Len(p) PROVE Intact(slots, p[k])
    <3>1. /\ p[k].at + p[k].count <= w \/ w + open <= p[k].at
          /\ p[k].at + p[k].count <= room
      BY <1>1, <1>4, RingApart DEF w
    <3>2. k \in 1..Len(p)
      BY <1>1
    <3>3. p[k] \in Places /\ p[k].at \in Nat /\ p[k].count \in Nat
      BY <1>1, <3>2, PlaceType
    <3> HIDE DEF i, slots
    <3>4. p[k].at + p[k].count <= i \/ i < p[k].at
      <4>1. CASE p[k].at + p[k].count <= w
        BY <2>2, <2>4, <3>3, <4>1
      <4>2. CASE w + open <= p[k].at
        BY <1>1, <2>2, <2>4, <3>3, <4>2, SMTT(30)
      <4> QED BY <3>1, <4>1, <4>2
    <3>5. Intact(vslots, p[k])
      BY <1>4
    <3> QED BY <1>1, <1>4, <2>4, <3>1, <3>3, <3>4, <3>5, IntactKept DEF slots
  <2>7. slots[w].count = open
    <3>1. w \in 0..room - 1 /\ w # i
      BY <1>1, <2>2, <2>3
    <3>2. vslots[w].count = open
      BY <1>4, <2>2 DEF Filling, w
    <3> QED BY <2>5, <3>1, <3>2
  <2>8. ASSUME NEW k \in 0..c
        PROVE  slots[w + k].frame = producer.frame /\ slots[w + k].idx = k
    <3>1. CASE k = c
      BY <2>1, <2>5, <3>1
    <3>2. CASE k # c
      <4>1. k \in 0..c - 1
        BY <2>2, <3>2
      <4>2. vslots[w + k].frame = producer.frame /\ vslots[w + k].idx = k
        BY <1>4, <2>2, <4>1 DEF Filling, w, c
      <4>3. w + k \in 0..room - 1 /\ w + k # i
        BY <1>1, <2>2, <2>3, <4>1
      <4> QED BY <2>5, <4>2, <4>3
    <3> QED BY <3>1, <3>2
  <2> HIDE DEF i, slots
  <2>9. CASE producer.remaining > 1
    <3>1. UNCHANGED <<video, stored>>
      BY <1>17, <2>9 DEF ContinueVideo
    <3>2. /\ Open("video")' = open /\ producer'.chunk = c + 1 /\ producer'.frame = producer.frame
      BY <1>2, <2>1, <2>9, ContinuedType DEF open, c
    <3> DEFINE come == c + 1
    <3>3. \A k \in 0..come - 1 : slots[w + k].frame = producer.frame /\ slots[w + k].idx = k
      BY <2>2, <2>8
    <3> HIDE DEF come
    <3>5. Filling(slots, w, open, come, producer.frame)
      BY <2>7, <3>3 DEF Filling
    <3>4. Filling(vslots', video'.write, open, c + 1, producer.frame)
      BY <2>1, <3>1, <3>5 DEF w, come
    <3> QED
      BY <1>1, <1>2, <1>3, <1>4, <2>1, <2>5, <2>6, <3>1, <3>2, <3>4, VideoProduced
      DEF p, first, room, open, VideoTurned
  <2>10. CASE producer.remaining = 1
    <3> DEFINE e == CompletedEntry(video)
    <3>1. video' = Completed(video, 1 + c, producer.frame) /\ stored'.video = Append(p, e)
      BY <1>17, <2>10 DEF ContinueVideo, c, p, Shapes
    <3>2. video' = [write |-> w + (1 + c), read |-> video.read, wrap |-> video.wrap,
                    last |-> producer.frame, consumed |-> video.consumed]
      BY <3>1 DEF Completed, RingShape, Shapes, w
    <3>3. Open("video")' = 0
      BY <1>2, <2>1, <2>10, ContinuedType
    <3>4. e \in Places /\ e.at = w /\ e.count = open /\ e.frame = producer.frame
          /\ open = 1 + c
      BY <1>6, <2>1, <2>2, <2>10 DEF CompletedEntry, Place, Places, w, c
    <3> HIDE DEF e
    <3>5. /\ Len(Append(p, e)) = Len(p) + 1 /\ Append(p, e)[Len(p) + 1] = e
          /\ \A k \in 1..Len(p) : Append(p, e)[k] = p[k]
      BY <1>1, <3>4, PlacesAppended
    <3>6. /\ InLine(video, p, first, room, open) => InLine(video', Append(p, e), first, room, 0)
          /\ Turned(video, p, first, open) => Turned(video', Append(p, e), first, 0)
      <4>1. /\ video.wrap \in Nat /\ w = video.write
            /\ video'.read = video.read /\ video'.wrap = video.wrap /\ video'.write = w + open
        BY <1>1, <3>2, <3>4 DEF w
      <4> QED BY <1>1, <2>2, <3>4, <4>1, RingCompleted
    <3>7. Tiled(video', Append(p, e), first, room, 0)
      BY <1>4, <3>6 DEF Tiled
    <3>8. Intact(slots, e)
      <4>1. \A k \in 0..open - 1 : slots[w + k].frame = producer.frame /\ slots[w + k].idx = k
        BY <2>2, <2>8, <3>4
      <4> QED BY <2>7, <3>4, <4>1 DEF Intact
    <3>9. \A k \in first..Len(p) + 1 : Intact(slots, Append(p, e)[k])
      <4>1. \A k \in first..Len(p) + 1 : (k \in first..Len(p) /\ k \in 1..Len(p)) \/ k = Len(p) + 1
        BY <1>1
      <4> QED BY <2>6, <3>5, <3>8, <4>1
    <3>10. video'.last = Marker(Append(p, e), Len(p) + 1)
      BY <1>1, <3>2, <3>4, <3>5 DEF Marker
    <3>11. RingOK(video', room)
      <4>1. /\ video'.write \in 0..room /\ video'.read \in 0..room /\ video'.wrap \in 0..room
        BY <1>1, <2>2, <2>3, <3>2, <3>4
      <4>2. video'.last \in Nat /\ video'.consumed \in Nat
        BY <1>4, <1>6, <3>2 DEF RingOK
      <4> QED BY <4>1, <4>2 DEF RingOK
    <3>12. Filling(vslots', video'.write, Open("video")', producer'.chunk, producer'.frame)
      BY <3>3 DEF Filling
    <3>13. VideoTurned => Turned(video', Append(p, e), first, 0) /\ video'.wrap = video.wrap
      BY <3>2, <3>6 DEF VideoTurned, p, first, open
    <3>15. /\ video'.read = video.read /\ video'.consumed = video.consumed
           /\ video'.wrap = video.wrap
      BY <3>2
    <3>16. /\ Len(p) <= Len(stored'.video) /\ \A k \in 1..Len(p) : stored'.video[k] = p[k]
           /\ video'.last = Marker(stored'.video, Len(stored'.video))
           /\ Tiled(video', stored'.video, first, room, Open("video")')
           /\ VideoTurned => Turned(video', stored'.video, first, Open("video")')
           /\ \A k \in first..Len(stored'.video) : Intact(vslots', stored'.video[k])
      BY <1>1, <2>1, <3>1, <3>3, <3>5, <3>7, <3>9, <3>10, <3>13
    <3>17. video.read = 0 /\ InLine(video, p, first, room, open) =>
             InLine(video', stored'.video, first, room, Open("video")')
      BY <3>1, <3>3, <3>6
    <3>18. vslots' \in [0..room - 1 -> Sector \cup {Blank}]
      BY <2>1, <2>5
    <3> QED
      BY <1>2, <1>3, <3>11, <3>12, <3>13, <3>15, <3>16, <3>17, <3>18, VideoProduced
      DEF p, first, room, open
  <2> QED BY <1>6, <2>1, <2>9, <2>10
<1> QED BY <1>10, <1>11, <1>12, <1>14, <1>15, <1>16, <1>17 DEF SectorReady

(* A ring with an entry left holds the oldest at the read index, unless the *)
(* older segment is used up: then reading goes on at the start.             *)
LEMMA VideoFrontFound ==
    ASSUME Shapes, VideoInv, fg.at # "release_video"
    PROVE  /\ InLine(video, stored.video, VideoFirst, VideoCapacity, Open("video")) /\ ~Empty(video)
                => VideoFound /\ video.read < video.write
           /\ VideoTurned /\ video.read # video.wrap => VideoFound
           /\ VideoTurned => video.write <= video.read
           /\ VideoTurned /\ video.read = video.wrap =>
                /\ Segment(stored.video, VideoFirst, Len(stored.video), 0, video.write)
                /\ video.write + Open("video") <= VideoCapacity
<1> DEFINE p == stored.video
           first == VideoFirst
           open == Open("video")
<1>1. /\ video.read \in Nat /\ video.write \in Nat /\ p \in Seq(Places)
      /\ video.wrap \in 0..VideoCapacity /\ VideoCapacity \in Nat /\ open \in Nat
      /\ first \in 1..Len(p) + 1 /\ Len(p) \in Nat
      /\ first = Len(taken.video) + 1 /\ Len(taken.video) \in Nat
  BY VideoFacts
<1>2. first = Len(p) + 1 => video.last = video.consumed
  <2>1. first = Len(p) + 1 => Len(taken.video) = Len(p)
    BY <1>1
  <2> QED BY <2>1 DEF VideoInv, VideoMarked
<1>3. first <= Len(p) => p[first].count \in Nat /\ p[first].count > 0 /\ p[first].at \in Nat
  BY <1>1, PlaceType
<1>w. VideoTurned <=> Turned(video, p, first, open)
  BY DEF VideoTurned
<1>f. VideoFound <=> first <= Len(p) /\ p[first].at = video.read
  BY <1>1 DEF VideoFound
<1> HIDE DEF p, first, open
<1>4. ASSUME InLine(video, p, first, VideoCapacity, open), ~Empty(video)
      PROVE  VideoFound /\ video.read < video.write
  <2>1. first <= Len(p)
    <3>1. ASSUME first > Len(p) PROVE FALSE
      <4>1. video.read = video.write
        BY <1>4, <3>1 DEF InLine, Segment
      <4>2. first = Len(p) + 1
        BY <1>1, <3>1
      <4> QED BY <1>2, <1>4, <4>1, <4>2 DEF Empty
    <3> QED BY <1>1, <3>1
  <2>2. p[first].at = video.read /\ p[first].at + p[first].count <= video.write
    BY <1>1, <1>4, <2>1, SMTT(30) DEF InLine, Segment
  <2> QED BY <1>1, <1>3, <1>f, <2>1, <2>2
<1>5. ASSUME Turned(video, p, first, open)
      PROVE  /\ video.read # video.wrap => VideoFound
             /\ video.write <= video.read
             /\ video.read = video.wrap =>
                  /\ Segment(p, first, Len(p), 0, video.write)
                  /\ video.write + open <= VideoCapacity
  <2>1. PICK split \in first..Len(p) + 1 : TurnedAt(video, p, first, split, open)
    BY <1>5 DEF Turned
  <2>2. video.write + open <= video.read
    BY <2>1 DEF TurnedAt
  <2>3. CASE split = first
    <3>1. video.read = video.wrap
      BY <1>1, <2>1, <2>3 DEF TurnedAt, Segment
    <3>2. Segment(p, first, Len(p), 0, video.write)
      BY <2>1, <2>3 DEF TurnedAt
    <3> QED BY <1>1, <2>2, <3>1, <3>2
  <2>4. CASE split # first
    <3>1. first <= split - 1 /\ first <= Len(p)
      BY <1>1, <2>4
    <3>2. p[first].at = video.read /\ p[first].at + p[first].count <= video.wrap
      BY <1>1, <2>1, <3>1, SMTT(30) DEF TurnedAt, Segment
    <3>3. VideoFound
      BY <1>f, <3>1, <3>2
    <3>4. video.write <= video.read
      BY <1>1, <2>2
    <3>5. video.read # video.wrap
      BY <1>1, <1>3, <3>1, <3>2
    <3> QED BY <3>3, <3>4, <3>5
  <2> QED BY <2>3, <2>4
<1> QED BY <1>4, <1>5, <1>w DEF p, first, open

(* The oldest entry is freed. *)
LEMMA RingFreed ==
    ASSUME NEW p \in Seq(Places), NEW first \in 1..Len(p), NEW capacity \in Nat,
           NEW open \in Nat, NEW r, r.read \in Nat, r.write \in Nat, r.wrap \in 0..capacity,
           r.read <= capacity, p[first].at = r.read,
           Tiled(r, p, first, capacity, open),
           NEW q, q.write = r.write, q.wrap = r.wrap,
           \/ q.read = r.read + p[first].count
           \/ /\ q.read = 0 /\ r.wrap = r.read + p[first].count
              /\ Turned(r, p, first, open)
    PROVE  Tiled(q, p, first + 1, capacity, open)
<1>1. /\ Len(p) \in Nat /\ first \in Nat /\ first \in 1..Len(p)
      /\ p[first].count \in Nat /\ p[first].count > 0
  BY PlaceType
<1>2. CASE InLine(r, p, first, capacity, open) /\ q.read = r.read + p[first].count
  <2>1. Segment(p, first + 1, Len(p), r.read + p[first].count, r.write)
    BY <1>1, <1>2, SegmentDrop, SMTT(30) DEF InLine
  <2> QED BY <1>2, <2>1 DEF InLine, Tiled
<1>3. ASSUME Turned(r, p, first, open) PROVE Tiled(q, p, first + 1, capacity, open)
  <2>1. PICK split \in first..Len(p) + 1 : TurnedAt(r, p, first, split, open)
    BY <1>3 DEF Turned
  <2>2. r.write + open <= r.read /\ r.read > 0 /\ split \in Nat
    BY <1>1, <2>1 DEF TurnedAt
  <2>3. split > first
    <3>1. ASSUME split = first PROVE FALSE
      <4>1. p[first].at = 0
        BY <1>1, <2>1, <3>1 DEF TurnedAt, Segment
      <4> QED BY <2>2, <4>1
    <3> QED BY <1>1, <2>1, <3>1
  <2> DEFINE last == split - 1
  <2>4. last \in 1..Len(p) /\ first <= last /\ split = last + 1
    BY <1>1, <2>3
  <2>5. Segment(p, first, last, r.read, r.wrap)
    BY <2>1 DEF TurnedAt
  <2> HIDE DEF last
  <2>6. Segment(p, first + 1, last, r.read + p[first].count, r.wrap)
    BY <1>1, <2>4, <2>5, SegmentDrop
  <2>7. CASE q.read = r.read + p[first].count
    <3>1. TurnedAt(q, p, first + 1, split, open)
      BY <1>1, <2>1, <2>2, <2>6, <2>7, SMTT(30) DEF TurnedAt, last
    <3> QED BY <1>1, <2>3, <3>1 DEF Turned, Tiled
  <2>8. CASE q.read = 0 /\ r.wrap = r.read + p[first].count
    <3>1. last = first
      <4>1. ASSUME first < last PROVE FALSE
        <5>1. p[last].at + p[last].count <= r.wrap /\ r.read + p[first].count <= p[last].at
          BY <1>1, <2>4, <2>5, <4>1 DEF Segment
        <5>2. p[last].at \in Nat /\ p[last].count \in Nat /\ p[last].count > 0
          BY <2>4, PlaceType
        <5> QED BY <1>1, <2>8, <5>1, <5>2
      <4> QED BY <1>1, <2>4, <4>1
    <3>2. Segment(p, first + 1, Len(p), q.read, q.write)
      BY <2>1, <2>4, <2>8, <3>1 DEF TurnedAt
    <3>3. q.write + open <= capacity
      BY <2>2
    <3> QED BY <3>2, <3>3 DEF InLine, Tiled
  <2> QED BY <2>7, <2>8
<1> QED BY <1>2, <1>3 DEF Tiled

LEMMA VideoUpdate == ASSUME Shapes, VideoInv, Foreground PROVE VideoInv'
<1> DEFINE p == stored.video
           first == VideoFirst
           open == Open("video")
<1>1. /\ video.read \in Nat /\ video.write \in Nat /\ p \in Seq(Places)
      /\ video.wrap \in 0..VideoCapacity /\ VideoCapacity \in Nat /\ open \in Nat
      /\ first \in 1..Len(p) + 1 /\ Len(p) \in Nat /\ video.read <= VideoCapacity
      /\ Len(taken.video) \in Nat /\ taken.video \in Seq(Places)
  BY VideoFacts
<1>2. Shapes' /\ Producing'
  BY ShapesStep, ProducingStep DEF VideoInv, Next
<1>3. UNCHANGED <<producer, stored, vslots>>
  BY DEF Foreground, others
<1>4. /\ fg.vlc \in 0..VlcRetries /\ VlcRetries \in Nat
      /\ fg.at \in {"wrap_video", "release_video"} => fg.local \in Nat
  BY StreamAssumption DEF VideoInv, VideoTypes
<1>5. fg = [at |-> fg.at, local |-> fg.local, vlc |-> fg.vlc]
  BY DEF Shapes
<1>6. \A place : Goto(place) => /\ fg'.at = place /\ fg'.local = fg.local
                               /\ fg'.vlc = fg.vlc
  BY <1>5 DEF Goto
<1>7. VideoRead
  BY DEF VideoInv
<1>8. /\ UNCHANGED video /\ taken'.video = taken.video
      /\ (fg'.at = "release_video" <=> fg.at = "release_video")
      => /\ VideoFound' <=> VideoFound
         /\ VideoTurned' <=> VideoTurned
         /\ VideoFirst' = VideoFirst
         /\ InLine(video, stored.video, VideoFirst, VideoCapacity, Open("video"))'
             <=> InLine(video, stored.video, VideoFirst, VideoCapacity, Open("video"))
  BY <1>3 DEF VideoFirst, VideoFound, VideoTurned, Open
(* Places that know nothing of the ring. *)
<1>9. ASSUME UNCHANGED video, taken'.video = taken.video, fg.at # "release_video",
             fg'.at \notin {"wrap_video", "look_again", "begin", "expanding", "expanded",
                           "release_video"},
             fg'.vlc = fg.vlc, fg'.at = "video" => fg.vlc = 0
      PROVE  VideoInv'
  <2>1. VideoRead'
    BY <1>7, <1>8, <1>9 DEF VideoRead
  <2> QED BY <1>2, <1>3, <1>4, <1>9, <2>1, VideoLooks
<1>10. CASE Check
  <2>1. /\ fg.at = "check" /\ fg' = [fg EXCEPT !.at = IF ends.state = "done" THEN "over" ELSE "update"]
        /\ UNCHANGED <<video, taken>>
    BY <1>10 DEF Check, Goto
  <2>2. fg'.at \in {"over", "update"} /\ fg'.local = fg.local /\ fg'.vlc = fg.vlc
    BY <1>5, <2>1
  <2> QED BY <1>4, <1>9, <2>1, <2>2
<1>11. CASE UpdateBegin
  <2> DEFINE next == IF mdec'.retry_pending THEN "audio"
                     ELSE IF fg.vlc > 0 THEN "expanding" ELSE "video"
  <2>1. fg.at = "update" /\ UNCHANGED <<video, taken>> /\ fg' = [fg EXCEPT !.at = next]
    BY <1>11 DEF UpdateBegin, Goto
  <2>2. next = "audio" \/ (next = "expanding" /\ fg.vlc > 0) \/ (next = "video" /\ ~(fg.vlc > 0))
    BY Zenon
  <2> HIDE DEF next
  <2>3. fg'.at = next /\ fg'.local = fg.local /\ fg'.vlc = fg.vlc
    BY <1>5, <2>1
  <2>4. CASE next = "expanding" /\ fg.vlc > 0
    <3>1. VideoRead'
      BY <1>7, <1>8, <2>1, <2>3, <2>4 DEF VideoRead
    <3> QED BY <1>2, <1>3, <1>4, <2>1, <2>3, <2>4, <3>1, VideoLooks
  <2>5. CASE next = "audio" \/ (next = "video" /\ ~(fg.vlc > 0))
    <3>1. ~(fg.vlc > 0) => fg.vlc = 0
      BY <1>4
    <3> QED BY <1>4, <1>9, <2>1, <2>3, <2>5, <3>1
  <2> QED BY <2>2, <2>4, <2>5
<1>12. CASE LookForVideo
  <2>1. /\ fg.at = "video" /\ UNCHANGED <<video, taken>>
    BY <1>12 DEF LookForVideo
  <2>2. CASE Empty(video)
    <3>1. Goto("audio")
      BY <1>12, <2>2 DEF LookForVideo, NoVideo
    <3> QED BY <1>4, <1>6, <1>9, <2>1, <3>1
  <2>3. CASE ~Empty(video)
    <3>1. fg' = [at |-> "wrap_video", local |-> video.write, vlc |-> fg.vlc]
      <4>1. fg' = [fg EXCEPT !.at = "wrap_video", !.local = video.write]
        BY <1>12, <2>3 DEF LookForVideo
      <4> QED BY <1>5, <4>1
    <3>2. fg.vlc = 0
      BY <1>7, <2>1 DEF VideoRead
    <3>3. InLine(video, p, first, VideoCapacity, open) \/ VideoTurned
      BY DEF VideoInv, VideoHeld, Tiled, VideoTurned
    <3>4. IF video.write > video.read THEN VideoFound ELSE VideoTurned
      BY <1>1, <2>1, <2>3, <3>3, VideoFrontFound
    <3>5. VideoRead'
      BY <1>8, <2>1, <3>1, <3>2, <3>4 DEF VideoRead
    <3> QED BY <1>1, <1>2, <1>3, <1>4, <2>1, <3>1, <3>5, VideoLooks
  <2> QED BY <2>2, <2>3
<1>13. CASE LookAgainForVideo
  <2>1. fg.at = "look_again" /\ UNCHANGED <<video, taken>>
    BY <1>13 DEF LookAgainForVideo
  <2>2. /\ video.read = 0
        /\ InLine(video, stored.video, VideoFirst, VideoCapacity, Open("video")) /\ fg.vlc = 0
    BY <1>7, <2>1 DEF VideoRead
  <2>3. CASE Goto("audio")
    BY <1>4, <1>6, <1>9, <2>1, <2>3
  <2>4. CASE ~(video.write = 0 /\ video.last = video.consumed)
    <3>1. Goto("begin")
      BY <1>13, <2>4 DEF LookAgainForVideo
    <3>2. VideoFound
      BY <2>1, <2>2, <2>4, VideoFrontFound DEF Empty
    <3>3. VideoRead'
      BY <1>6, <1>8, <2>1, <2>2, <3>1, <3>2 DEF VideoRead
    <3> QED BY <1>2, <1>3, <1>4, <1>6, <2>1, <3>1, <3>3, VideoLooks
  <2> QED BY <1>13, <2>3, <2>4 DEF LookAgainForVideo, NoVideo
<1>14. CASE BeginFrame
  <2>1. fg.at = "begin" /\ UNCHANGED <<video, taken>>
    BY <1>14 DEF BeginFrame
  <2>2. VideoFound /\ fg.vlc = 0
    BY <1>7, <2>1 DEF VideoRead
  <2>3. \/ fg' = [at |-> "expanded", local |-> fg.local, vlc |-> 0]
        \/ fg' = [at |-> "audio", local |-> fg.local, vlc |-> VlcRetries]
    <3>1. \/ fg' = [fg EXCEPT !.at = "expanded"]
          \/ fg' = [fg EXCEPT !.at = "audio", !.vlc = VlcRetries]
      BY <1>14 DEF BeginFrame
    <3> QED BY <1>5, <2>2, <3>1
  <2>4. VideoRead'
    BY <1>8, <2>1, <2>2, <2>3 DEF VideoRead
  <2> QED BY <1>2, <1>3, <1>4, <2>1, <2>3, <2>4, VideoLooks
<1>15. CASE Expand
  <2>1. fg.at = "expanding" /\ UNCHANGED <<video, taken>>
    BY <1>15 DEF Expand
  <2>2. VideoFound
    BY <1>7, <2>1 DEF VideoRead
  <2>3. \/ fg' = [at |-> "expanded", local |-> fg.local, vlc |-> 0]
        \/ fg' = [at |-> "audio", local |-> fg.local, vlc |-> fg.vlc - 1] /\ fg.vlc > 1
    <3>1. \/ fg' = [fg EXCEPT !.at = "expanded", !.vlc = 0]
          \/ fg' = [fg EXCEPT !.at = "audio", !.vlc = fg.vlc - 1] /\ fg.vlc > 1
      BY <1>15, <1>5 DEF Expand
    <3> QED BY <1>5, <3>1
  <2>4. VideoRead'
    BY <1>8, <2>1, <2>2, <2>3 DEF VideoRead
  <2>5. fg'.vlc \in 0..VlcRetries
    BY <1>4, <2>3
  <2> QED BY <1>2, <1>3, <1>4, <2>1, <2>3, <2>4, <2>5, VideoLooks
<1>16. CASE WrapVideo
  <2>1. fg.at = "wrap_video" /\ taken' = taken
    BY <1>16 DEF WrapVideo
  <2>2. fg.vlc = 0 /\ IF fg.local > video.read THEN VideoFound ELSE VideoTurned
    BY <1>7, <2>1 DEF VideoRead
  <2>3. CASE video.read >= fg.local /\ video.read = video.wrap
    <3>1. video' = [video EXCEPT !.read = 0] /\ Goto("look_again")
      BY <1>16, <2>3 DEF WrapVideo
    <3>2. video' = [write |-> video.write, read |-> 0, wrap |-> video.wrap,
                    last |-> video.last, consumed |-> video.consumed]
      BY <3>1 DEF RingShape, Shapes
    <3>3. VideoTurned
      BY <1>1, <1>4, <2>1, <2>2, <2>3
    <3>4. Segment(p, first, Len(p), 0, video.write) /\ video.write + open <= VideoCapacity
      BY <2>1, <2>3, <3>3, VideoFrontFound
    <3>5. VideoFirst' = first /\ Open("video")' = open
      <4>1. fg'.at = "look_again"
        BY <1>6, <3>1
      <4>2. VideoFirst' = VideoFirst
        BY <2>1, <4>1 DEF VideoFirst
      <4> QED BY <1>3, <4>2 DEF Open
    <3>6. InLine(video', p, first, VideoCapacity, open)
      BY <3>2, <3>4 DEF InLine
    <3>7. InLine(video, stored.video, VideoFirst, VideoCapacity, Open("video"))'
      BY <1>3, <3>5, <3>6
    <3>8. VideoHeld'
      BY <1>3, <3>2, <3>5, <3>7 DEF VideoInv, VideoHeld, Tiled
    <3>9. RingOK(video', VideoCapacity)
      BY <1>1, <3>2 DEF VideoInv, VideoTypes, RingOK
    <3>10. VideoTypes'
      BY <1>3, <1>6, <2>1, <3>1, <3>9 DEF VideoInv, VideoTypes
    <3>11. VideoMarked' /\ VideoTaken'
      BY <1>3, <2>1, <3>2 DEF VideoInv, VideoMarked, VideoTaken
    <3>12. VideoRead'
      BY <1>6, <2>2, <3>1, <3>2, <3>7 DEF VideoRead
    <3> QED BY <1>2, <3>8, <3>10, <3>11, <3>12 DEF VideoInv
  <2>4. CASE ~(video.read >= fg.local /\ video.read = video.wrap)
    <3>1. UNCHANGED video /\ Goto("begin")
      BY <1>16, <2>4 DEF WrapVideo
    <3>2. VideoFound
      BY <1>1, <1>4, <2>1, <2>2, <2>4, VideoFrontFound
    <3>3. VideoRead'
      BY <1>6, <1>8, <2>1, <2>2, <3>1, <3>2 DEF VideoRead
    <3> QED BY <1>2, <1>3, <1>4, <1>6, <2>1, <3>1, <3>3, VideoLooks
  <2> QED BY <2>3, <2>4
<1>17. CASE ReleaseVideo
  <2> DEFINE e == p[first]
  <2>1. /\ fg.at = "expanded"
        /\ taken' = [taken EXCEPT !.video = Append(@, EntryAt(vslots, video.read))]
        /\ fg' = [fg EXCEPT !.at = "release_video",
                            !.local = Behind(video, vslots[video.read].count, video.wrap)]
        /\ video' = [video EXCEPT !.consumed = vslots[video.read].frame]
    BY <1>17 DEF ReleaseVideo
  <2>2. fg.vlc = 0 /\ VideoFound
    BY <1>7, <2>1 DEF VideoRead
  <2>3. /\ first \in 1..Len(p) /\ first = Len(taken.video) + 1 /\ e.at = video.read
        /\ first \in first..Len(p)
    BY <1>1, <2>1, <2>2, VideoFacts DEF VideoFound
  <2>4. e \in Places /\ e.count \in Nat /\ e.count > 0 /\ e.frame \in Nat /\ e.frame > 0
    BY <1>1, <2>3, PlaceType
  <2>5. /\ Intact(vslots, e) /\ vslots \in [0..VideoCapacity - 1 -> Sector \cup {Blank}]
        /\ Tiled(video, p, first, VideoCapacity, open)
    BY <2>3 DEF VideoInv, VideoHeld, VideoTypes
  <2>6. e.at + e.count <= VideoCapacity
    BY <1>1, <2>3, <2>5, RingApart
  <2>7. EntryAt(vslots, video.read) = e
    BY <1>1, <2>3, <2>4, <2>5, <2>6, EntryFound
  <2>8. vslots[video.read].count = e.count /\ vslots[video.read].frame = e.frame
    <3> HIDE DEF e
    <3>1. e.at \in Nat /\ 0 \in 0..e.count - 1
      BY <2>4 DEF Places
    <3>2. e.at + 0 = e.at
      BY <3>1
    <3> QED BY <2>3, <2>5, <3>1, <3>2 DEF Intact
  <2> HIDE DEF p, first, open, e
  <2>9. taken'.video = Append(taken.video, e)
    BY <2>1, <2>7 DEF Shapes
  <2>10. /\ Len(taken'.video) = first /\ taken'.video[first] = e /\ taken'.video \in Seq(Places)
         /\ \A k \in 1..Len(taken.video) : taken'.video[k] = taken.video[k]
    BY <1>1, <2>3, <2>4, <2>9, PlacesAppended
  <2>11. video' = [write |-> video.write, read |-> video.read, wrap |-> video.wrap,
                   last |-> video.last, consumed |-> e.frame]
    BY <2>1, <2>8 DEF Shapes, RingShape
  <2>12. fg' = [at |-> "release_video", local |-> Behind(video, e.count, video.wrap), vlc |-> 0]
    BY <1>5, <2>1, <2>2, <2>8
  <2>13. VideoFirst' = first /\ Open("video")' = open
    BY <1>1, <1>3, <2>3, <2>10, <2>12 DEF VideoFirst, Open, open
  <2>14. /\ InLine(video', p, first, VideoCapacity, open) <=>
             InLine(video, p, first, VideoCapacity, open)
         /\ Turned(video', p, first, open) <=> Turned(video, p, first, open)
    BY <2>11 DEF InLine, Turned, TurnedAt
  <2>15. VideoHeld'
    BY <1>3, <2>5, <2>11, <2>13, <2>14 DEF VideoInv, VideoHeld, Tiled, p, first, open
  <2>16. VideoTypes'
    <3>1. Behind(video, e.count, video.wrap) \in Nat
      BY <1>1, <2>4 DEF Behind
    <3>2. RingOK(video', VideoCapacity)
      BY <2>4, <2>11 DEF VideoInv, VideoTypes, RingOK
    <3> QED BY <1>3, <1>4, <2>5, <2>10, <2>12, <3>1, <3>2 DEF VideoTypes
  <2>17. VideoMarked'
    BY <1>3, <2>3, <2>10, <2>11 DEF VideoInv, VideoMarked, Marker, p, e
  <2>18. VideoTaken'
    <3>1. \A k \in 1..first : k \in 1..Len(taken.video) \/ k = first
      BY <1>1, <2>3
    <3> QED BY <1>1, <1>3, <2>3, <2>10, <3>1 DEF VideoInv, VideoTaken, p, e
  <2>19. VideoFound'
    BY <1>3, <2>3, <2>11, <2>13 DEF VideoFound, p, e
  <2>20. LET end == video.read + e.count
         IN Behind(video, e.count, video.wrap) = end
            \/ /\ Behind(video, e.count, video.wrap) = 0 /\ video.wrap = end
               /\ Turned(video, p, first, open)
    <3>1. CASE video.read >= video.write /\ video.read + e.count = video.wrap
      <4>1. ~InLine(video, p, first, VideoCapacity, open)
        <5>1. ASSUME InLine(video, p, first, VideoCapacity, open) PROVE FALSE
          <6>1. e.at + e.count <= video.write
            BY <1>1, <2>3, <5>1 DEF InLine, Segment, e
          <6> QED BY <1>1, <2>3, <2>4, <3>1, <6>1
        <5> QED BY <5>1
      <4> QED BY <2>5, <3>1, <4>1 DEF Behind, Tiled
    <3>2. CASE ~(video.read >= video.write /\ video.read + e.count = video.wrap)
      BY <3>2 DEF Behind
    <3> QED BY <3>1, <3>2
  <2>21. VideoRead'
    BY <1>3, <2>11, <2>12, <2>13, <2>14, <2>19, <2>20 DEF VideoRead, VideoTurned, p, first, open, e
  <2> QED BY <1>2, <2>15, <2>16, <2>17, <2>18, <2>21 DEF VideoInv
<1>18. CASE AdvanceVideo
  <2>1. fg.at = "release_video" /\ taken' = taken /\ Goto("audio")
        /\ video' = [video EXCEPT !.read = fg.local]
    BY <1>18 DEF AdvanceVideo
  <2>2. video' = [write |-> video.write, read |-> fg.local, wrap |-> video.wrap,
                  last |-> video.last, consumed |-> video.consumed]
    BY <2>1 DEF RingShape, Shapes
  <2>3. /\ VideoFound /\ fg.vlc = 0
        /\ \/ fg.local = video.read + p[first].count
           \/ fg.local = 0 /\ video.wrap = video.read + p[first].count /\ VideoTurned
    BY <1>7, <2>1 DEF VideoRead
  <2>4. first \in 1..Len(p) /\ p[first].at = video.read /\ first = Len(taken.video)
    BY <1>1, <2>1, <2>3, VideoFacts DEF VideoFound
  <2>5. VideoFirst' = first + 1 /\ Open("video")' = open
    <3>1. fg'.at = "audio"
      BY <1>6, <2>1
    <3>2. VideoFirst' = Len(taken.video) + 1
      BY <2>1, <3>1 DEF VideoFirst
    <3> QED BY <1>3, <2>4, <3>2 DEF Open
  <2>6. Tiled(video, p, first, VideoCapacity, open)
        /\ (VideoTurned => Turned(video, p, first, open))
    BY DEF VideoInv, VideoHeld, VideoTurned
  <2>e. p[first].count \in Nat /\ p[first].at + p[first].count <= VideoCapacity
    <3>1. first \in first..Len(p)
      BY <1>1, <2>4
    <3> QED BY <1>1, <2>4, <2>6, <3>1, RingApart, PlaceType
  <2> HIDE DEF p, first, open
  <2>7. Tiled(video', p, first + 1, VideoCapacity, open)
    BY <1>1, <2>2, <2>3, <2>4, <2>6, RingFreed
  <2>8. VideoHeld'
    <3>1. \A k \in first + 1..Len(p) : k \in first..Len(p)
      BY <1>1
    <3> QED BY <1>3, <2>2, <2>5, <2>7, <3>1 DEF VideoInv, VideoHeld, p, first, open
  <2>9. VideoTypes'
    <3>1. fg.local \in 0..VideoCapacity
      BY <1>1, <2>3, <2>4, <2>e
    <3>2. RingOK(video', VideoCapacity)
      BY <2>2, <3>1 DEF VideoInv, VideoTypes, RingOK
    <3> QED BY <1>3, <1>6, <2>1, <3>2 DEF VideoInv, VideoTypes
  <2>10. VideoMarked' /\ VideoTaken'
    BY <1>3, <2>1, <2>2 DEF VideoInv, VideoMarked, VideoTaken
  <2>11. VideoRead'
    BY <1>6, <2>1, <2>3 DEF VideoRead
  <2> QED BY <1>2, <2>8, <2>9, <2>10, <2>11 DEF VideoInv
<1>19. CASE LookForAudio \/ WrapAudio \/ QueueAudio \/ ResumeAudio \/ NoteResumed \/ AdvanceAudio
  <2>1. UNCHANGED video /\ taken'.video = taken.video
    BY <1>19 DEF LookForAudio, WrapAudio, QueueAudio, AdvanceFrame, ResumeAudio, NoteResumed,
       AdvanceAudio, Shapes
  <2>2. fg.at \in {"audio", "wrap_audio", "compare_audio", "prime", "resumed", "release_audio"}
    BY <1>19 DEF LookForAudio, WrapAudio, QueueAudio, ResumeAudio, NoteResumed, AdvanceAudio
  <2>3. \E place \in {"prime", "wrap_audio", "next_audio", "resumed", "position", "check"} :
          fg' = [fg EXCEPT !.at = place]
    BY <1>19 DEF LookForAudio, WrapAudio, QueueAudio, ResumeAudio, NoteResumed, AdvanceAudio, Goto
  <2>4. /\ fg'.at \in {"prime", "wrap_audio", "next_audio", "resumed", "position", "check"}
        /\ fg'.local = fg.local /\ fg'.vlc = fg.vlc
    BY <1>5, <2>3
  <2> QED BY <1>4, <1>9, <2>1, <2>2, <2>4
<1>20. CASE NextAudio \/ ReleaseAudio
  <2>1. UNCHANGED <<video, taken>> /\ fg.at \in {"next_audio", "position"}
    BY <1>20 DEF NextAudio, ReleaseAudio
  <2>2. \E place \in {"compare_audio", "release_audio", "check"} : \E x :
          fg' = [fg EXCEPT !.at = place, !.local = x]
    <3>1. CASE Goto("check")
      <4>1. fg' = [fg EXCEPT !.at = "check", !.local = fg.local]
        BY <1>5, <3>1 DEF Goto
      <4> QED BY <4>1
    <3>2. CASE NextAudio
      BY <3>2 DEF NextAudio
    <3>3. CASE ReleaseAudio /\ ~Goto("check")
      BY <3>3 DEF ReleaseAudio
    <3> QED BY <1>20, <3>1, <3>2, <3>3
  <2>3. fg'.at \in {"compare_audio", "release_audio", "check"} /\ fg'.vlc = fg.vlc
    BY <1>5, <2>2
  <2> QED BY <1>9, <2>1, <2>3
<1> QED
  BY <1>10, <1>11, <1>12, <1>13, <1>14, <1>15, <1>16, <1>17, <1>18, <1>19, <1>20
  DEF Foreground, Update

LEMMA VideoStep == ASSUME Shapes, VideoInv, [Next]_vars PROVE VideoInv'
<1>1. Shapes' /\ Producing'
  BY ShapesStep, ProducingStep DEF VideoInv
<1>2. ASSUME UNCHANGED <<producer, stored, vslots, video, fg>>, taken'.video = taken.video
      PROVE  VideoInv'
  <2>1. VideoRead'
    BY <1>2 DEF VideoInv, VideoRead, VideoFound, VideoTurned, VideoFirst, Open
  <2>2. fg.vlc \in 0..VlcRetries
        /\ (fg.at \in {"wrap_video", "release_video"} => fg.local \in Nat)
    BY DEF VideoInv, VideoTypes
  <2> QED BY <1>1, <1>2, <2>1, <2>2, VideoLooks
<1>3. CASE DriveFails \/ DriveRecovers \/ UNCHANGED vars
  BY <1>2, <1>3 DEF DriveFails, DriveRecovers, vars
<1>4. CASE ImageDone \/ Refill
  BY <1>2, <1>4 DEF ImageDone, Refill, others, Shapes
<1> QED BY <1>3, <1>4, VideoSector, VideoUpdate DEF Next

(***************************************************************************)
(* Every completed video entry is expanded once, whole and in order,       *)
(* whatever the sizes of the rings and whenever the interrupt comes        *)
(* (cd_sector_callback, get_next_video_entry, advance_video_read).         *)
(***************************************************************************)
THEOREM VideoKeepsOrder == Spec => []VideoInOrder
<1>1. Shapes /\ VideoInv => VideoInOrder
  <2> SUFFICES ASSUME Shapes, VideoInv PROVE VideoInOrder
    OBVIOUS
  <2>1. /\ taken.video \in Seq(Places) /\ stored.video \in Seq(Places)
        /\ Len(taken.video) <= Len(stored.video)
        /\ \A k \in 1..Len(taken.video) : taken.video[k] = stored.video[k]
    BY DEF VideoInv, VideoTypes, VideoTaken, Producing
  <2> QED BY <2>1, PrefixTold DEF VideoInOrder
<1>2. Init => Shapes /\ VideoInv
  BY ShapesInit, VideoInit
<1>3. Shapes /\ VideoInv /\ [Next]_vars => Shapes' /\ VideoInv'
  BY ShapesStep, VideoStep
<1> QED BY <1>1, <1>2, <1>3, PTL DEF Spec

-----------------------------------------------------------------------------
(* Blocks. *)

LEMMA SectorsFacts ==
    /\ \A a \in Int : Sectors(a) \in Int /\ (a >= 0 => Sectors(a) >= 0)
    /\ \A a, b \in Int : /\ Sectors(a + b) = Sectors(a) + Sectors(b)
                         /\ Sectors(a - b) = Sectors(a) - Sectors(b)
    /\ \A a, b \in Int : a < b => Sectors(a) + BlockSectors <= Sectors(b)
    /\ Sectors(0) = 0 /\ Sectors(1) = BlockSectors /\ Sectors(Blocks) = AudioCapacity
<1>1. BlockSectors \in Nat /\ BlockSectors > 0 /\ Blocks \in Nat
      /\ AudioCapacity = Blocks * BlockSectors
  BY Capacities
<1>2. \A a \in Int : a * BlockSectors \in Int /\ (a >= 0 => a * BlockSectors >= 0)
  BY <1>1
<1>3. \A a, b \in Int : /\ (a + b) * BlockSectors = a * BlockSectors + b * BlockSectors
                        /\ (a - b) * BlockSectors = a * BlockSectors - b * BlockSectors
  BY <1>1
<1>4. ASSUME NEW a \in Int, NEW b \in Int, a < b
      PROVE  a * BlockSectors + BlockSectors <= b * BlockSectors
  <2>1. b - a - 1 \in Int /\ b - a - 1 >= 0
    BY <1>4
  <2>2. (b - a - 1) * BlockSectors >= 0
    BY <1>2, <2>1
  <2>3. (b - a - 1) * BlockSectors = (b - a) * BlockSectors - 1 * BlockSectors
    BY <1>3
  <2>4. (b - a) * BlockSectors = b * BlockSectors - a * BlockSectors
    BY <1>3
  <2> QED BY <1>1, <1>2, <2>2, <2>3, <2>4
<1> QED BY <1>1, <1>2, <1>3, <1>4 DEF Sectors

LEMMA SectorsOrder ==
    ASSUME NEW a \in Int, NEW b \in Int
    PROVE  /\ a < b <=> Sectors(a) < Sectors(b)
           /\ a = b <=> Sectors(a) = Sectors(b)
           /\ a <= b <=> Sectors(a) <= Sectors(b)
           /\ a < b => Sectors(a) + BlockSectors <= Sectors(b)
<1>1. /\ Sectors(a) \in Int /\ Sectors(b) \in Int /\ BlockSectors \in Nat /\ BlockSectors > 0
      /\ a < b => Sectors(a) + BlockSectors <= Sectors(b)
      /\ b < a => Sectors(b) + BlockSectors <= Sectors(a)
  BY SectorsFacts, Capacities
<1>2. a < b \/ a = b \/ b < a
  OBVIOUS
<1> QED BY <1>1, <1>2

LEMMA SectorsDivided == ASSUME NEW a \in Nat PROVE Sectors(a) \div BlockSectors = a
<1>1. BlockSectors \in Nat /\ BlockSectors > 0
  BY Capacities
<1> DEFINE q == Sectors(a) \div BlockSectors
           r == Sectors(a) % BlockSectors
<1>2. Sectors(a) \in Int
  BY SectorsFacts
<1>3. q \in Int /\ r \in 0..BlockSectors - 1 /\ Sectors(a) = BlockSectors * q + r
  BY <1>1, <1>2
<1> HIDE DEF q, r
<1>4. Sectors(a) = Sectors(q) + r
  BY <1>1, <1>3 DEF Sectors
<1>5. Sectors(a) \in Int /\ Sectors(q) \in Int
  BY <1>3, SectorsFacts
<1>6. /\ a < q => Sectors(a) + BlockSectors <= Sectors(q)
      /\ q < a => Sectors(q) + BlockSectors <= Sectors(a)
  BY <1>3, SectorsOrder
<1>7. ~(a < q) /\ ~(q < a)
  BY <1>1, <1>3, <1>4, <1>5, <1>6
<1> QED BY <1>3, <1>7 DEF q

LEMMA LaterSlot ==
    ASSUME NEW k \in Nat, NEW d \in 0..Blocks
    PROVE  /\ Slot(k) \in 0..Blocks - 1
           /\ Slot(k + d) = IF Slot(k) + d >= Blocks THEN Slot(k) + d - Blocks ELSE Slot(k) + d
<1> DEFINE n == Blocks
<1>0. n \in Nat /\ n > 0 /\ d \in 0..n
  BY Capacities
<1> HIDE DEF n
<1> DEFINE q == k \div n
           r == k % n
           q1 == (k + d) \div n
           r1 == (k + d) % n
<1>s. Slot(k) = r /\ Slot(k + d) = r1
  BY DEF Slot, n
<1>1. q \in Int /\ r \in 0..n - 1 /\ k = n * q + r
  BY <1>0
<1>2. q1 \in Int /\ r1 \in 0..n - 1 /\ k + d = n * q1 + r1
  BY <1>0
<1> HIDE DEF q, r, q1, r1
<1>3. n * q \in Int /\ n * q1 \in Int /\ n * (q1 - q) = n * q1 - n * q
  BY <1>0, <1>1, <1>2
<1> DEFINE e == q1 - q
<1>4. e \in Int /\ n * e = r + d - r1
  BY <1>0, <1>1, <1>2, <1>3
<1> HIDE DEF e
<1>5. ~(e < 0)
  <2>1. e < 0 => n * e <= -n
    <3> SUFFICES ASSUME e < 0 PROVE n * e <= -n
      OBVIOUS
    <3>1. -1 - e \in Nat /\ n * (-1 - e) >= 0
      BY <1>0, <1>4
    <3>2. n * (-1 - e) = -n - n * e
      BY <1>0, <1>4
    <3> QED BY <1>0, <1>4, <3>1, <3>2
  <2> QED BY <1>0, <1>1, <1>2, <1>4, <2>1
<1>6. ~(e > 1)
  <2>1. e > 1 => n * e >= n + n
    <3> SUFFICES ASSUME e > 1 PROVE n * e >= n + n
      OBVIOUS
    <3>1. e - 2 \in Nat /\ n * (e - 2) >= 0
      BY <1>0, <1>4
    <3>2. n * (e - 2) = n * e - (n + n)
      BY <1>0, <1>4
    <3> QED BY <1>0, <1>4, <3>1, <3>2
  <2> QED BY <1>0, <1>1, <1>2, <1>4, <2>1
<1>7. CASE e = 0
  <2>1. r1 = r + d
    BY <1>0, <1>1, <1>2, <1>4, <1>7
  <2> QED BY <1>0, <1>1, <1>2, <1>s, <2>1 DEF n
<1>8. CASE e = 1
  <2>1. r1 = r + d - n /\ r + d >= n
    BY <1>0, <1>1, <1>2, <1>4, <1>8
  <2> QED BY <1>0, <1>1, <1>2, <1>s, <2>1 DEF n
<1> QED BY <1>4, <1>5, <1>6, <1>7, <1>8

(* Blocks one behind the other, as far as once around the ring. *)
LEMMA BlockBehind ==
    ASSUME NEW k \in Nat, NEW d \in 0..Blocks
    PROVE  /\ BlockAt(k) \in Nat /\ BlockAt(k) + BlockSectors <= AudioCapacity
           /\ BlockAt(k + d) = IF BlockAt(k) + Sectors(d) >= AudioCapacity
                              THEN BlockAt(k) + Sectors(d) - AudioCapacity
                              ELSE BlockAt(k) + Sectors(d)
           /\ 0 < d /\ d < Blocks => \/ BlockAt(k) + BlockSectors <= BlockAt(k + d)
                                    \/ BlockAt(k + d) + BlockSectors <= BlockAt(k)
<1> DEFINE r == Slot(k)
           s == Slot(k + d)
<1>1. Blocks \in Nat /\ Blocks > 2 /\ AudioCapacity \in Nat /\ BlockSectors \in Nat
      /\ BlockSectors > 0 /\ d \in Nat /\ d <= Blocks
  BY Capacities
<1>2. r \in 0..Blocks - 1 /\ s = IF r + d >= Blocks THEN r + d - Blocks ELSE r + d
  BY LaterSlot
<1>3. BlockAt(k) = Sectors(r) /\ BlockAt(k + d) = Sectors(s)
  BY DEF BlockAt
<1> HIDE DEF r, s
<1>n. r \in Int /\ r >= 0 /\ r < Blocks /\ d \in Int /\ d >= 0 /\ Blocks \in Int /\ r + d \in Int
      /\ 0 \in Int
  BY <1>1, <1>2
<1>o. /\ Sectors(r) \in Int /\ Sectors(d) \in Int /\ Sectors(r) >= 0 /\ Sectors(d) >= 0
      /\ Sectors(r + d) = Sectors(r) + Sectors(d) /\ Sectors(Blocks) = AudioCapacity
      /\ Sectors(r + d - Blocks) = Sectors(r + d) - Sectors(Blocks)
      /\ Sectors(0) = 0
  <2> DEFINE e == r + d
  <2>1. Sectors(e) = Sectors(r) + Sectors(d) /\ e \in Int
    BY <1>n, SectorsFacts
  <2> HIDE DEF e
  <2>2. Sectors(e - Blocks) = Sectors(e) - Sectors(Blocks)
    BY <1>n, <2>1, SectorsFacts
  <2> QED BY <1>n, <2>1, <2>2, SectorsFacts DEF e
<1>p. /\ Sectors(r) + BlockSectors <= Sectors(Blocks)
      /\ d < Blocks => Sectors(d) + BlockSectors <= Sectors(Blocks)
      /\ 0 < d => Sectors(0) + BlockSectors <= Sectors(d)
  BY <1>n, SectorsOrder
<1>4. /\ Sectors(r) \in Int /\ Sectors(d) \in Int /\ Sectors(r) >= 0 /\ Sectors(d) >= 0
      /\ Sectors(r + d) = Sectors(r) + Sectors(d) /\ Sectors(Blocks) = AudioCapacity
      /\ Sectors(r + d - Blocks) = Sectors(r + d) - Sectors(Blocks)
      /\ Sectors(r) + BlockSectors <= Sectors(Blocks)
      /\ d < Blocks => Sectors(d) + BlockSectors <= Sectors(Blocks)
      /\ 0 < d => BlockSectors <= Sectors(d)
  <2>1. 0 < d => 0 + BlockSectors <= Sectors(d)
    BY <1>o, <1>p
  <2> QED BY <1>1, <1>o, <1>p, <2>1
<1>5. r + d >= Blocks <=> Sectors(r) + Sectors(d) >= AudioCapacity
  <2>1. r + d \in Int /\ (Blocks <= r + d <=> Sectors(Blocks) <= Sectors(r + d))
    BY <1>1, <1>2, SectorsOrder
  <2> QED BY <1>1, <1>2, <1>4, <2>1
<1>6. /\ Sectors(r) + Sectors(d) >= AudioCapacity =>
           Sectors(s) = Sectors(r) + Sectors(d) - AudioCapacity
      /\ ~(Sectors(r) + Sectors(d) >= AudioCapacity) => Sectors(s) = Sectors(r) + Sectors(d)
  <2>1. CASE r + d >= Blocks
    <3>1. s = r + d - Blocks
      BY <1>2, <2>1
    <3>2. Sectors(s) = Sectors(r + d - Blocks)
      BY <3>1
    <3>3. Sectors(r) + Sectors(d) >= AudioCapacity
      BY <1>5, <2>1
    <3>4. Sectors(s) = (Sectors(r) + Sectors(d)) - AudioCapacity
      BY <1>4, <3>2
    <3> QED BY <1>1, <1>4, <3>3, <3>4
  <2>2. CASE ~(r + d >= Blocks)
    BY <1>2, <1>4, <1>5, <2>2
  <2> QED BY <2>1, <2>2
<1> QED BY <1>1, <1>3, <1>4, <1>6

-----------------------------------------------------------------------------
(* The audio ring: what its invariant says at every place. *)

LEMMA AudioFacts ==
    ASSUME Shapes, Producing, AudioInv
    PROVE  /\ AudioCapacity \in Nat /\ BlockSectors \in Nat /\ BlockSectors > 0
           /\ audio.r.read \in 0..AudioCapacity /\ audio.r.write \in 0..AudioCapacity
           /\ audio.r.wrap \in {0, AudioCapacity}
           /\ stored.audio \in Seq(Places) /\ taken.audio \in Seq(Places)
           /\ Queued \in Nat /\ Released \in Nat /\ Freed \in Nat /\ xa.filled \in Nat
           /\ Len(taken.audio) \in Nat /\ audio.buffered \in Nat
           /\ Freed <= Released /\ Released <= Len(taken.audio)
           /\ Len(taken.audio) <= xa.filled /\ xa.filled <= Queued
           /\ Released <= xa.filled /\ Released <= Queued /\ Freed <= Queued
           /\ fg.at # "release_audio" => Freed = Released
           /\ fg.at = "release_audio" => Released = Freed + 1
           /\ Ascending(stored.audio)
           /\ Open("audio") \in {0, BlockSectors}
           /\ audio.r.last = audio.r.consumed <=> Released = Queued
<1>1. /\ AudioCapacity \in Nat /\ BlockSectors \in Nat /\ BlockSectors > 0
      /\ audio.r.read \in 0..AudioCapacity /\ audio.r.write \in 0..AudioCapacity
      /\ audio.r.wrap \in {0, AudioCapacity} /\ xa.filled \in Nat /\ audio.buffered \in Nat
  BY Capacities DEF AudioInv, AudioTypes, AudioHeld, RingOK
<1>2. /\ stored.audio \in Seq(Places) /\ taken.audio \in Seq(Places)
      /\ Open("audio") \in {0, BlockSectors} /\ Ascending(stored.audio)
  BY DEF Producing, AudioInv, AudioTypes, Ascending, Ordered
<1>3. Queued \in Nat /\ Len(taken.audio) \in Nat
  BY <1>2 DEF Queued
<1>4. Released \in Int
  BY <1>1 DEF Released
<1>5. /\ fg.at # "release_audio" => Freed = Released
      /\ fg.at = "release_audio" => Released = Freed + 1
      /\ Freed <= Released /\ Freed \in Int
  BY <1>4 DEF Freed
<1>6. Freed >= 0 /\ Freed <= Queued /\ Released <= Len(taken.audio)
      /\ Len(taken.audio) <= xa.filled /\ xa.filled <= Queued
  BY DEF AudioInv, AudioHeld, AudioTaken
<1>7. Freed \in Nat /\ Released \in Nat /\ Released <= xa.filled /\ Released <= Queued
  BY <1>1, <1>3, <1>4, <1>5, <1>6
<1>8. audio.r.last = audio.r.consumed <=> Released = Queued
  <2>1. Released \in 0..Len(stored.audio)
    BY <1>3, <1>7 DEF Queued
  <2> QED BY <1>2, <2>1, MarkersTell DEF AudioInv, AudioMarked, Queued
<1> QED BY <1>1, <1>2, <1>3, <1>5, <1>6, <1>7, <1>8

(* How full the ring is, and how its indices lie. *)
LEMMA AudioLies ==
    ASSUME Shapes, Producing, AudioInv
    PROVE  /\ AudioInLine => /\ Linear(audio.r) /\ audio.r.read <= audio.r.write
                             /\ Freed < Queued => audio.r.read < audio.r.write
                             /\ Freed = Queued => audio.r.read = audio.r.write
           /\ AudioTurned => ~Linear(audio.r) /\ audio.r.write <= audio.r.read
           /\ Queued - Freed <= Blocks
           /\ Open("audio") > 0 => /\ Queued - Freed < Blocks
                                   /\ audio.r.write = BlockAt(Queued)
           /\ audio.r.read # AudioCapacity => audio.r.read = BlockAt(Freed)
<1>1. /\ AudioCapacity \in Nat /\ BlockSectors \in Nat /\ BlockSectors > 0
      /\ audio.r.read \in 0..AudioCapacity /\ audio.r.write \in 0..AudioCapacity
      /\ Queued \in Nat /\ Freed \in Nat /\ Released \in Nat /\ Freed <= Queued
      /\ Released <= Queued /\ Released \in {Freed, Freed + 1}
      /\ Open("audio") \in {0, BlockSectors}
      /\ audio.r.last = audio.r.consumed <=> Released = Queued
  BY AudioFacts
<1> DEFINE n == Queued - Freed
<1>2. /\ n \in Int /\ n >= 0 /\ Blocks \in Int /\ Blocks > 2 /\ Sectors(n) \in Int
      /\ Sectors(Blocks) = AudioCapacity /\ Sectors(0) = 0
      /\ 0 < n <=> 0 < Sectors(n)
      /\ n <= Blocks <=> Sectors(n) <= AudioCapacity
      /\ n < Blocks <=> Sectors(n) < AudioCapacity
  <2>1. n \in Int /\ n >= 0 /\ Blocks \in Int /\ Blocks > 2 /\ 0 \in Int
    BY <1>1, Capacities
  <2> HIDE DEF n
  <2>2. Sectors(Blocks) = AudioCapacity /\ Sectors(0) = 0 /\ Sectors(n) \in Int
    BY <2>1, SectorsFacts
  <2>3. (0 < n <=> Sectors(0) < Sectors(n)) /\ (n <= Blocks <=> Sectors(n) <= Sectors(Blocks))
        /\ (n < Blocks <=> Sectors(n) < Sectors(Blocks))
    BY <2>1, SectorsOrder
  <2> QED BY <2>1, <2>2, <2>3
<1>3. /\ AudioInLine => audio.r.write - audio.r.read = Sectors(n)
                        /\ audio.r.write + Open("audio") <= AudioCapacity
      /\ AudioTurned => /\ audio.r.write + AudioCapacity - audio.r.read = Sectors(n)
                        /\ audio.r.write + Open("audio") <= audio.r.read /\ audio.r.read > 0
      /\ AudioInLine \/ AudioTurned
  BY DEF AudioInLine, AudioTurned, AudioInv, AudioHeld
<1>4. Freed < Queued <=> 0 < n
  BY <1>1
<1>h. Points(audio.r.read, Freed) /\ Points(audio.r.write, Queued)
  BY DEF AudioInv, AudioHeld
<1>i. n = Queued - Freed
  OBVIOUS
<1> HIDE DEF n
<1>5. ASSUME AudioInLine
      PROVE  /\ audio.r.read <= audio.r.write
             /\ Freed < Queued => audio.r.read < audio.r.write
             /\ Freed = Queued => audio.r.read = audio.r.write
             /\ n <= Blocks /\ (Open("audio") > 0 => n < Blocks /\ audio.r.write < AudioCapacity)
  <2>1. audio.r.write - audio.r.read = Sectors(n)
        /\ audio.r.write + Open("audio") <= AudioCapacity
    BY <1>3, <1>5
  <2>2. Sectors(n) >= 0 /\ (Freed < Queued => Sectors(n) > 0) /\ (Freed = Queued => Sectors(n) = 0)
    BY <1>1, <1>2, <1>4, <1>i
  <2>3. Sectors(n) <= AudioCapacity
    BY <1>1, <2>1
  <2>4. Open("audio") > 0 => Sectors(n) < AudioCapacity /\ audio.r.write < AudioCapacity
    BY <1>1, <2>1
  <2> QED BY <1>1, <1>2, <2>1, <2>2, <2>3, <2>4
<1>6. ASSUME AudioTurned
      PROVE  /\ audio.r.write <= audio.r.read /\ audio.r.read > 0
             /\ n <= Blocks /\ (Open("audio") > 0 => n < Blocks /\ audio.r.write < AudioCapacity)
             /\ audio.r.write = audio.r.read => n = Blocks
  <2>1. /\ audio.r.write + AudioCapacity - audio.r.read = Sectors(n)
        /\ audio.r.write + Open("audio") <= audio.r.read /\ audio.r.read > 0
    BY <1>3, <1>6
  <2>2. Sectors(n) <= AudioCapacity /\ audio.r.write <= audio.r.read
    BY <1>1, <2>1
  <2>3. Open("audio") > 0 => Sectors(n) < AudioCapacity /\ audio.r.write < AudioCapacity
    BY <1>1, <2>1
  <2>4. audio.r.write = audio.r.read => Sectors(n) = AudioCapacity
    BY <1>1, <2>1
  <2>5. Sectors(n) = AudioCapacity => n = Blocks
    BY <1>2
  <2> QED BY <1>2, <2>1, <2>2, <2>3, <2>4, <2>5
<1>7. AudioInLine => Linear(audio.r)
  <2>1. Freed = Queued => Released = Queued
    BY <1>1
  <2>2. Freed < Queued \/ Freed = Queued
    BY <1>1
  <2> QED BY <1>1, <1>5, <2>1, <2>2 DEF Linear
<1>8. AudioTurned => ~Linear(audio.r)
  <2>1. n = Blocks => Released # Queued
    BY <1>1, <1>2, <1>i
  <2> QED BY <1>1, <1>6, <2>1 DEF Linear
<1>9. Open("audio") > 0 => audio.r.write = BlockAt(Queued)
  BY <1>1, <1>3, <1>5, <1>6, <1>h DEF Points
<1>10. audio.r.read # AudioCapacity => audio.r.read = BlockAt(Freed)
  BY <1>h DEF Points
<1> QED BY <1>3, <1>5, <1>6, <1>7, <1>8, <1>9, <1>10, <1>i

(* A step of the producer: at most one block is completed. *)
LEMMA AudioProduced ==
    ASSUME Shapes, Producing, Producing', AudioInv, UNCHANGED <<fg, taken, xa>>,
           audio'.buffered = audio.buffered,
           audio'.r.read = audio.r.read, audio'.r.consumed = audio.r.consumed,
           RingOK(audio'.r, AudioCapacity),
           aslots' \in [0..AudioCapacity - 1 -> Sector \cup {Blank}],
           Queued <= Queued', \A k \in 1..Queued : stored'.audio[k] = stored.audio[k],
           audio'.r.last = Marker(stored'.audio, Queued'),
           Points(audio'.r.write, Queued'), audio'.r.wrap \in {0, AudioCapacity},
           AudioInLine' \/ AudioTurned', AudioTurned => AudioTurned',
           \A k \in 1..Queued' : /\ stored'.audio[k].at = BlockAt(k - 1)
                                 /\ stored'.audio[k].count = BlockSectors,
           \A k \in Freed + 1..Queued' : Intact(aslots', stored'.audio[k]),
           Filling(aslots', audio'.r.write, Open("audio")', producer'.chunk, producer'.frame),
           fg.at # "compare_audio"
    PROVE  AudioInv'
<1>1. /\ Queued \in Nat /\ Released \in Nat /\ Freed \in Nat /\ xa.filled \in Nat
      /\ Freed <= Queued /\ Released <= Queued /\ Len(taken.audio) <= Queued
      /\ Len(taken.audio) \in Nat /\ Len(taken.audio) <= xa.filled /\ xa.filled <= Queued
  BY AudioFacts
<1>2. Queued' \in Nat
  BY DEF Producing, Queued
<1>3. Released' = Released
  BY DEF Released
<1>4. Freed' = Freed
  BY <1>3 DEF Freed
<1>5. AudioTypes'
  BY <1>3 DEF AudioInv, AudioTypes
<1>6. AudioMarked'
  <2>1. Released # 0 => Released \in 1..Queued
    BY <1>1
  <2> QED BY <1>3, <2>1 DEF AudioInv, AudioMarked, Marker
<1>7. AudioHeld'
  <2>1. Freed <= Queued'
    BY <1>1, <1>2
  <2> QED BY <1>4, <2>1 DEF AudioInv, AudioHeld
<1>8. AudioTaken'
  <2>1. \A k \in 1..Len(taken.audio) : k \in 1..Queued
    BY <1>1
  <2>2. xa.filled <= Queued'
    BY <1>1, <1>2
  <2> QED BY <1>3, <2>1, <2>2 DEF AudioInv, AudioTaken
<1>9. Streaming'
  BY DEF AudioInv, Streaming
<1>10. AudioRead'
  <2>1. Released < Queued => Released < Queued'
    BY <1>1, <1>2
  <2> QED BY <1>3, <2>1 DEF AudioInv, AudioRead
<1> QED BY <1>5, <1>6, <1>7, <1>8, <1>9, <1>10 DEF AudioInv

(* The block behind the newest is apart from those not freed. *)
LEMMA AudioApart ==
    ASSUME NEW last \in Nat, NEW first \in Nat, last - first < Blocks, first <= last,
           NEW k \in first + 1..last
    PROVE  /\ BlockAt(k - 1) \in Nat /\ BlockAt(last) \in Nat
           /\ BlockAt(k - 1) + BlockSectors <= AudioCapacity
           /\ \/ BlockAt(k - 1) + BlockSectors <= BlockAt(last)
              \/ BlockAt(last) + BlockSectors <= BlockAt(k - 1)
<1> DEFINE j == k - 1
           d == last - j
<1>1. j \in Nat /\ d \in 0..Blocks /\ 0 < d /\ d < Blocks /\ j + d = last /\ Blocks \in Nat
      /\ 0 \in 0..Blocks
  BY Capacities
<1> HIDE DEF j, d
<1>2. /\ BlockAt(j) \in Nat /\ BlockAt(j) + BlockSectors <= AudioCapacity
      /\ \/ BlockAt(j) + BlockSectors <= BlockAt(j + d)
         \/ BlockAt(j + d) + BlockSectors <= BlockAt(j)
  BY <1>1, BlockBehind
<1>3. BlockAt(last) \in Nat
  BY <1>1, BlockBehind
<1> QED BY <1>1, <1>2, <1>3 DEF j

(* A sector behind the newest block is written. *)
Writes(i, x) ==
    /\ i \in Nat /\ BlockAt(Queued) <= i /\ i < BlockAt(Queued) + BlockSectors
    /\ x \in Sector \cup {Blank} /\ aslots' = [aslots EXCEPT ![i] = x]

(* That touches none of the blocks not freed. *)
LEMMA AudioWritten ==
    ASSUME Shapes, Producing, AudioInv, Queued - Freed < Blocks, NEW i, NEW x, Writes(i, x)
    PROVE  /\ aslots' \in [0..AudioCapacity - 1 -> Sector \cup {Blank}] /\ aslots'[i] = x
           /\ \A k \in 0..AudioCapacity - 1 : k # i => aslots'[k] = aslots[k]
           /\ \A k \in Freed + 1..Queued : Intact(aslots', stored.audio[k])
<1>0. /\ i \in Nat /\ BlockAt(Queued) <= i /\ i < BlockAt(Queued) + BlockSectors
      /\ x \in Sector \cup {Blank} /\ aslots' = [aslots EXCEPT ![i] = x]
  BY DEF Writes
<1>1. /\ AudioCapacity \in Nat /\ BlockSectors \in Nat /\ BlockSectors > 0
      /\ Queued \in Nat /\ Freed \in Nat /\ Freed <= Queued /\ stored.audio \in Seq(Places)
  BY AudioFacts
<1>2. 0 \in 0..Blocks
  BY Capacities
<1>3. BlockAt(Queued) \in Nat /\ BlockAt(Queued) + BlockSectors <= AudioCapacity
  BY <1>1, <1>2, BlockBehind
<1>4. i \in 0..AudioCapacity - 1
  BY <1>0, <1>1, <1>3
<1>5. aslots \in [0..AudioCapacity - 1 -> Sector \cup {Blank}]
  BY DEF AudioInv, AudioTypes
<1>6. ASSUME NEW k \in Freed + 1..Queued PROVE Intact(aslots', stored.audio[k])
  <2> DEFINE e == stored.audio[k]
  <2>1. k \in 1..Queued
    BY <1>1
  <2>2. e \in Places /\ e.at = BlockAt(k - 1) /\ e.count = BlockSectors
    BY <1>1, <2>1, PlaceType DEF Queued, AudioInv, AudioHeld
  <2>3. Intact(aslots, e)
    BY DEF AudioInv, AudioHeld
  <2> HIDE DEF e
  <2>4. /\ BlockAt(k - 1) \in Nat /\ BlockAt(k - 1) + BlockSectors <= AudioCapacity
        /\ \/ BlockAt(k - 1) + BlockSectors <= BlockAt(Queued)
           \/ BlockAt(Queued) + BlockSectors <= BlockAt(k - 1)
    BY <1>1, AudioApart
  <2>5. e.at + e.count <= i \/ i < e.at
    <3>1. CASE BlockAt(k - 1) + BlockSectors <= BlockAt(Queued)
      BY <1>0, <1>1, <1>3, <2>2, <2>4, <3>1
    <3>2. CASE BlockAt(Queued) + BlockSectors <= BlockAt(k - 1)
      BY <1>0, <1>1, <1>3, <2>2, <2>4, <3>2
    <3> QED BY <2>4, <3>1, <3>2
  <2>6. e.at + e.count <= AudioCapacity
    BY <2>2, <2>4
  <2>7. Intact(aslots', e)
    BY <1>0, <1>1, <1>5, <2>2, <2>3, <2>5, <2>6, IntactKept
  <2> QED BY <2>7 DEF e
<1> QED BY <1>0, <1>4, <1>5, <1>6

(* The ring with the slots of one more block set aside. *)
SetAside(r) ==
    /\ r.write = BlockAt(Queued) /\ r.wrap \in {0, AudioCapacity}
    /\ r.write + BlockSectors <= AudioCapacity
    /\ r.read = audio.r.read /\ r.last = audio.r.last /\ r.consumed = audio.r.consumed
    /\ \/ r.write - r.read = Sectors(Queued - Freed) /\ ~AudioTurned
       \/ /\ r.write + AudioCapacity - r.read = Sectors(Queued - Freed)
          /\ r.wrap = AudioCapacity /\ r.write + BlockSectors <= r.read /\ r.read > 0

LEMMA AudioReserved ==
    ASSUME Shapes, Producing, AudioInv, Open("audio") = 0,
           HasRoom(audio.r, AudioCapacity, BlockSectors),
           NEW q, q = Reserved(audio.r, AudioCapacity, BlockSectors)
    PROVE  SetAside(q) /\ Queued - Freed < Blocks /\ RingShape(q)
<1>1. /\ AudioCapacity \in Nat /\ BlockSectors \in Nat /\ BlockSectors > 0
      /\ audio.r.read \in 0..AudioCapacity /\ audio.r.write \in 0..AudioCapacity
      /\ Queued \in Nat /\ Freed \in Nat /\ Freed <= Queued
      /\ audio.r.wrap \in {0, AudioCapacity}
  BY AudioFacts
<1>2. /\ AudioInLine => Linear(audio.r) /\ audio.r.read <= audio.r.write
      /\ AudioTurned => ~Linear(audio.r)
  BY AudioLies
<1>3. /\ AudioInLine => audio.r.write - audio.r.read = Sectors(Queued - Freed)
      /\ AudioTurned => /\ audio.r.write + AudioCapacity - audio.r.read = Sectors(Queued - Freed)
                        /\ audio.r.wrap = AudioCapacity /\ audio.r.read > 0
                        /\ audio.r.write <= audio.r.read
      /\ AudioInLine \/ AudioTurned
      /\ Points(audio.r.write, Queued)
  BY <1>1 DEF AudioInLine, AudioTurned, AudioInv, AudioHeld
<1>4. BlockAt(Queued) \in Nat /\ BlockAt(Queued) + BlockSectors <= AudioCapacity
  <2>1. 0 \in 0..Blocks
    BY Capacities
  <2> QED BY <1>1, <2>1, BlockBehind
<1>5. ASSUME NEW d \in Int, Sectors(d) < AudioCapacity PROVE d < Blocks
  <2>1. Blocks \in Int /\ Sectors(Blocks) = AudioCapacity
    BY Capacities, SectorsFacts
  <2> QED BY <1>5, <2>1, SectorsOrder
<1>6. Queued - Freed \in Int /\ Sectors(Queued - Freed) \in Int
  BY <1>1, SectorsFacts
<1>7. RingShape(q)
  BY ProducedShapes DEF Shapes
<1>8. CASE FitsInFront(audio.r, AudioCapacity, BlockSectors)
  <2>1. /\ Linear(audio.r) /\ audio.r.write + BlockSectors > AudioCapacity
        /\ audio.r.read >= BlockSectors
    BY <1>8 DEF FitsInFront
  <2>2. AudioInLine /\ ~AudioTurned
    BY <1>2, <1>3, <2>1
  <2>3. audio.r.write = AudioCapacity /\ BlockAt(Queued) = 0
    BY <1>1, <1>3, <1>4, <2>1 DEF Points
  <2>4. q = [audio.r EXCEPT !.wrap = audio.r.write, !.write = 0]
    BY <1>8 DEF Reserved
  <2>5. /\ q.write = 0 /\ q.wrap = AudioCapacity /\ q.read = audio.r.read
        /\ q.last = audio.r.last /\ q.consumed = audio.r.consumed
    BY <2>3, <2>4 DEF Shapes, RingShape
  <2>6. Sectors(Queued - Freed) < AudioCapacity
    BY <1>1, <1>3, <2>1, <2>2, <2>3
  <2>7. 0 + AudioCapacity - q.read = Sectors(Queued - Freed)
    BY <1>1, <1>3, <2>2, <2>3, <2>5
  <2>8. q.write + BlockSectors <= AudioCapacity /\ q.write + BlockSectors <= q.read /\ q.read > 0
    BY <1>1, <1>4, <2>1, <2>3, <2>5
  <2> QED BY <1>5, <1>6, <1>7, <2>3, <2>5, <2>6, <2>7, <2>8 DEF SetAside
<1>9. CASE ~FitsInFront(audio.r, AudioCapacity, BlockSectors)
  <2>1. q = audio.r /\ Fits(audio.r, AudioCapacity, BlockSectors)
    BY <1>9 DEF Reserved, HasRoom
  <2>2. CASE AudioInLine
    <3>1. audio.r.write + BlockSectors <= AudioCapacity /\ ~AudioTurned
      BY <1>2, <2>1, <2>2 DEF Fits
    <3>2. audio.r.write = BlockAt(Queued)
      BY <1>1, <1>3, <3>1 DEF Points
    <3>3. Sectors(Queued - Freed) < AudioCapacity
      BY <1>1, <1>3, <2>2, <3>1
    <3> QED BY <1>1, <1>3, <1>5, <1>6, <1>7, <2>1, <2>2, <3>1, <3>2, <3>3 DEF SetAside
  <2>3. CASE AudioTurned
    <3>1. audio.r.write + BlockSectors <= audio.r.read
      BY <1>2, <2>1, <2>3 DEF Fits
    <3>2. audio.r.write + BlockSectors <= AudioCapacity
      BY <1>1, <3>1
    <3>3. audio.r.write = BlockAt(Queued)
      BY <1>1, <1>3, <3>2 DEF Points
    <3>4. Sectors(Queued - Freed) < AudioCapacity
      BY <1>1, <1>3, <2>3, <3>1
    <3> QED BY <1>1, <1>3, <1>5, <1>6, <1>7, <2>1, <2>3, <3>1, <3>2, <3>3, <3>4 DEF SetAside
  <2> QED BY <1>3, <2>2, <2>3
<1> QED BY <1>8, <1>9

(* A block is completed in the slots set aside for it. *)
LEMMA AudioCompleted ==
    ASSUME Shapes, Producing, Producing', AudioInv, UNCHANGED <<fg, taken, xa>>,
           audio'.buffered = audio.buffered, fg.at # "compare_audio",
           NEW q, RingShape(q), SetAside(q), Queued - Freed < Blocks,
           NEW frame \in Nat \ {0}, audio'.r = Completed(q, BlockSectors, frame),
           NEW e, e = Place(q.write, BlockSectors, frame),
           stored'.audio = Append(stored.audio, e), Open("audio")' = 0,
           aslots' \in [0..AudioCapacity - 1 -> Sector \cup {Blank}],
           \A k \in Freed + 1..Queued : Intact(aslots', stored.audio[k]),
           Intact(aslots', e)
    PROVE  AudioInv'
<1> DEFINE r == audio'.r
           w == BlockAt(Queued)
           p == stored'.audio
<1>1. /\ AudioCapacity \in Nat /\ BlockSectors \in Nat /\ BlockSectors > 0
      /\ audio.r.read \in 0..AudioCapacity
      /\ Queued \in Nat /\ Freed \in Nat /\ Freed <= Queued /\ stored.audio \in Seq(Places)
  BY AudioFacts
<1>2. 1 \in 0..Blocks /\ Blocks \in Int
  BY Capacities
<1>3. /\ w \in Nat /\ w + BlockSectors <= AudioCapacity
      /\ BlockAt(Queued + 1) = IF w + BlockSectors >= AudioCapacity
                               THEN w + BlockSectors - AudioCapacity ELSE w + BlockSectors
  <2>1. Sectors(1) = BlockSectors
    BY SectorsFacts
  <2> QED BY <1>1, <1>2, <2>1, BlockBehind
<1>4. q.write = w
  BY DEF SetAside
<1>5. r = [write |-> w + BlockSectors, read |-> audio.r.read, wrap |-> q.wrap, last |-> frame,
           consumed |-> audio.r.consumed]
  BY <1>4 DEF SetAside, Completed, RingShape
<1>6. e \in Places /\ e.at = w /\ e.count = BlockSectors /\ e.frame = frame
  BY <1>1, <1>3, <1>4 DEF Place, Places
<1>7. /\ Queued' = Queued + 1 /\ p[Queued + 1] = e
      /\ \A k \in 1..Queued : p[k] = stored.audio[k]
  BY <1>1, <1>6, PlacesAppended DEF Queued
<1> HIDE DEF r, w, p
<1>8. Freed' = Freed
  BY DEF Freed, Released
<1>9. Sectors(Queued' - Freed') = Sectors(Queued - Freed) + BlockSectors
      /\ Sectors(Queued - Freed) \in Int
  <2> DEFINE n == Queued - Freed
  <2>1. n \in Int /\ 1 \in Int /\ Queued' - Freed' = n + 1
    BY <1>1, <1>7, <1>8
  <2> HIDE DEF n
  <2>2. Sectors(n + 1) = Sectors(n) + Sectors(1) /\ Sectors(1) = BlockSectors
        /\ Sectors(n) \in Int
    BY <2>1, SectorsFacts
  <2> QED BY <2>1, <2>2 DEF n
<1>10. Points(r.write, Queued')
  BY <1>1, <1>3, <1>5, <1>7 DEF Points
<1>11. \/ /\ w - audio.r.read = Sectors(Queued - Freed) /\ ~AudioTurned
       \/ /\ w + AudioCapacity - audio.r.read = Sectors(Queued - Freed)
          /\ q.wrap = AudioCapacity /\ w + BlockSectors <= audio.r.read /\ audio.r.read > 0
  BY <1>4 DEF SetAside
<1>13. ASSUME AudioInLine' \/ AudioTurned', AudioTurned => AudioTurned' PROVE AudioInv'
  <2>1. r.read = audio.r.read /\ r.consumed = audio.r.consumed /\ r.wrap \in {0, AudioCapacity}
    BY <1>5 DEF SetAside
  <2>2. RingOK(r, AudioCapacity)
    <3>1. audio.r.consumed \in Nat
      BY DEF AudioInv, AudioTypes, RingOK
    <3>2. {r.write, r.read, r.wrap} \subseteq 0..AudioCapacity
      BY <1>1, <1>3, <1>5, <2>1
    <3>3. {r.last, r.consumed} \subseteq Nat
      BY <1>5, <3>1
    <3> QED BY <3>2, <3>3 DEF RingOK
  <2>3. r.last = Marker(p, Queued')
    BY <1>1, <1>5, <1>6, <1>7 DEF Marker
  <2>4. \A k \in 1..Queued' : p[k].at = BlockAt(k - 1) /\ p[k].count = BlockSectors
    <3>2. \A k \in 1..Queued' : k \in 1..Queued \/ k = Queued + 1
      BY <1>1, <1>7
    <3>3. \A k \in 1..Queued : p[k].at = BlockAt(k - 1) /\ p[k].count = BlockSectors
      BY <1>7 DEF AudioInv, AudioHeld
    <3>5. ASSUME NEW k \in 1..Queued' PROVE p[k].at = BlockAt(k - 1) /\ p[k].count = BlockSectors
      <4>1. CASE k \in 1..Queued
        BY <3>3, <4>1
      <4>2. CASE k = Queued + 1
        <5>1. k - 1 = Queued
          BY <1>1, <4>2
        <5>2. BlockAt(k - 1) = w
          BY <5>1 DEF w
        <5> QED BY <1>6, <1>7, <4>2, <5>2
      <4> QED BY <3>2, <4>1, <4>2
    <3> QED BY <3>5
  <2>5. \A k \in Freed + 1..Queued' : Intact(aslots', p[k])
    <3>1. \A k \in Freed + 1..Queued' :
            (k \in Freed + 1..Queued /\ k \in 1..Queued) \/ k = Queued + 1
      BY <1>1, <1>7
    <3> QED BY <1>7, <3>1
  <2>6. Filling(aslots', r.write, Open("audio")', producer'.chunk, producer'.frame)
    BY DEF Filling
  <2>7. Queued <= Queued'
    BY <1>1, <1>7
  <2> QED BY <1>7, <1>10, <1>13, <2>1, <2>2, <2>3, <2>4, <2>5, <2>6, <2>7, AudioProduced DEF r, p
<1>12. CASE w - audio.r.read = Sectors(Queued - Freed) /\ ~AudioTurned
  <2>1. r.write - r.read = Sectors(Queued' - Freed')
    BY <1>1, <1>3, <1>5, <1>9, <1>12
  <2>2. r.write + 0 <= AudioCapacity
    BY <1>1, <1>3, <1>5
  <2>3. AudioInLine'
    BY <2>1, <2>2 DEF AudioInLine, r
  <2> QED BY <1>12, <2>3, <1>13
<1>14. CASE /\ w + AudioCapacity - audio.r.read = Sectors(Queued - Freed)
            /\ q.wrap = AudioCapacity /\ w + BlockSectors <= audio.r.read /\ audio.r.read > 0
  <2>1. r.write + AudioCapacity - r.read = Sectors(Queued' - Freed')
    BY <1>1, <1>3, <1>5, <1>9, <1>14
  <2>2. r.wrap = AudioCapacity /\ r.write + 0 <= r.read /\ r.read > 0
    BY <1>1, <1>3, <1>5, <1>14
  <2>3. AudioTurned'
    BY <2>1, <2>2 DEF AudioTurned, r
  <2> QED BY <2>3, <1>13
<1> QED BY <1>11, <1>12, <1>14

LEMMA AudioSector ==
    ASSUME ~CompareWindow, Shapes, Producing, AudioInv, SectorReady
    PROVE  AudioInv'
<1> DEFINE open == Open("audio")
           w == BlockAt(Queued)
<1>1. /\ AudioCapacity \in Nat /\ BlockSectors \in Nat /\ BlockSectors > 0
      /\ audio.r.read \in 0..AudioCapacity /\ audio.r.write \in 0..AudioCapacity
      /\ audio.r.wrap \in {0, AudioCapacity} /\ open \in {0, BlockSectors}
      /\ Queued \in Nat /\ Freed \in Nat /\ Freed <= Queued /\ stored.audio \in Seq(Places)
  BY AudioFacts
<1>2. Shapes' /\ Producing'
  BY ShapesStep, ProducingSector DEF Next
<1>3. UNCHANGED <<fg, taken, xa>> /\ pos <= Len(stream) /\ fg.at # "compare_audio"
  BY DEF SectorReady
<1>4. /\ aslots \in [0..AudioCapacity - 1 -> Sector \cup {Blank}]
      /\ RingOK(audio.r, AudioCapacity) /\ audio.r.last = Marker(stored.audio, Queued)
      /\ Points(audio.r.write, Queued) /\ (AudioInLine \/ AudioTurned)
      /\ \A k \in 1..Queued : /\ stored.audio[k].at = BlockAt(k - 1)
                              /\ stored.audio[k].count = BlockSectors
      /\ \A k \in Freed + 1..Queued : Intact(aslots, stored.audio[k])
      /\ Filling(aslots, audio.r.write, open, producer.chunk, producer.frame)
  BY DEF AudioInv, AudioTypes, AudioMarked, AudioHeld
<1>5. /\ Coming \in Sector /\ Coming.count \in Nat /\ Coming.count > 0 /\ Coming.frame \in Nat
      /\ Coming.frame > 0 /\ (Coming.type = "audio" => Coming.count = BlockSectors)
  BY <1>3, SectorType
<1>6. /\ producer.remaining \in Nat /\ producer.chunk \in Nat /\ producer.frame \in Nat
      /\ producer.remaining = 0 => open = 0
      /\ producer.remaining > 0 => producer.chunk > 0 /\ producer.frame > 0
  BY OpenType
<1>7. w \in Nat /\ w + BlockSectors <= AudioCapacity
  <2>1. 0 \in 0..Blocks
    BY Capacities
  <2> QED BY <1>1, <2>1, BlockBehind
<1>8. open > 0 => Queued - Freed < Blocks /\ audio.r.write = w
  BY AudioLies
<1> HIDE DEF open, w
(* The ring stays as it is, and nothing is set aside any more. *)
<1>9. ASSUME UNCHANGED audio, stored'.audio = stored.audio, Open("audio")' = 0,
             aslots' \in [0..AudioCapacity - 1 -> Sector \cup {Blank}],
             \A k \in Freed + 1..Queued : Intact(aslots', stored.audio[k])
      PROVE  AudioInv'
  <2>1. Queued' = Queued /\ Freed' = Freed
    BY <1>3, <1>9 DEF Queued, Freed, Released
  <2>2. AudioInLine => AudioInLine'
    BY <1>1, <1>9, <2>1 DEF AudioInLine, open
  <2>3. AudioTurned => AudioTurned'
    BY <1>1, <1>9, <2>1, SMTT(30) DEF AudioTurned, open
  <2>4. Filling(aslots', audio'.r.write, Open("audio")', producer'.chunk, producer'.frame)
    BY <1>9 DEF Filling
  <2>5. AudioInLine' \/ AudioTurned'
    BY <1>4, <2>2, <2>3
  <2>6. /\ RingOK(audio'.r, AudioCapacity) /\ audio'.r.last = Marker(stored'.audio, Queued')
        /\ Points(audio'.r.write, Queued') /\ audio'.r.wrap \in {0, AudioCapacity}
        /\ audio'.r.read = audio.r.read /\ audio'.r.consumed = audio.r.consumed
        /\ audio'.buffered = audio.buffered
    BY <1>1, <1>4, <1>9, <2>1
  <2>7. Queued <= Queued' /\ \A k \in 1..Queued : stored'.audio[k] = stored.audio[k]
    BY <1>1, <1>9, <2>1
  <2>8. \A k \in 1..Queued' : /\ stored'.audio[k].at = BlockAt(k - 1)
                            /\ stored'.audio[k].count = BlockSectors
    BY <1>4, <1>9, <2>1
  <2>9. \A k \in Freed + 1..Queued' : Intact(aslots', stored'.audio[k])
    BY <1>9, <2>1
  <2> QED
    BY <1>2, <1>3, <1>9, <2>3, <2>4, <2>5, <2>6, <2>7, <2>8, <2>9, AudioProduced
<1>10. ASSUME UNCHANGED <<audio, aslots>>, stored'.audio = stored.audio, Open("audio")' = 0
       PROVE  AudioInv'
  BY <1>4, <1>9, <1>10
<1>11. CASE NewEntryPastEnd \/ Skipped
  <2>1. producer.remaining = 0 /\ UNCHANGED <<audio, stored, aslots>>
        /\ (producer' = producer \/ producer' = [producer EXCEPT !.frame = Coming.frame])
    BY <1>11 DEF NewEntryPastEnd, Skipped
  <2>2. producer'.remaining = 0
    BY <2>1 DEF Shapes
  <2> QED BY <1>10, <2>1, <2>2 DEF Open
<1>12. CASE NewVideo
  <2>1. /\ producer.remaining = 0 /\ UNCHANGED <<audio, aslots>> /\ Opened("video")
        /\ stored'.audio = stored.audio /\ Coming.type = "video"
    BY <1>12 DEF NewVideo, Shapes
  <2>2. Open("audio")' = 0
    <3>1. /\ Coming.count = 1 => \A u : Open(u)' = 0
          /\ Coming.count > 1 => \A u : Open(u)' = IF u = "video" THEN Coming.count ELSE 0
      BY <1>3, <2>1, OpenedType
    <3> QED BY <1>5, <3>1
  <2> QED BY <1>10, <2>1, <2>2
<1>13. CASE ContinueVideo
  <2>1. /\ producer.remaining > 0 /\ producer.continuation = "video" /\ Continued
        /\ UNCHANGED <<audio, aslots>> /\ stored'.audio = stored.audio
    BY <1>13 DEF ContinueVideo, Expected, Shapes
  <2>2. Open("audio")' = 0
    <3>1. /\ producer.remaining = 1 => \A u : Open(u)' = 0
          /\ producer.remaining > 1 => \A u : Open(u)' = Open(u)
      BY <2>1, ContinuedType
    <3>2. Open("audio") = 0
      BY <2>1 DEF Open
    <3> QED BY <1>6, <2>1, <3>1, <3>2
  <2> QED BY <1>10, <2>1, <2>2
<1>14. CASE Abandoned
  <2> DEFINE i == audio.r.write + producer.chunk
  <2>1. /\ producer.remaining > 0 /\ UNCHANGED <<audio, stored>>
        /\ producer' = [producer EXCEPT !.frame = Coming.frame, !.remaining = 0]
    BY <1>14 DEF Abandoned
  <2>2. producer'.remaining = 0
    BY <2>1 DEF Shapes
  <2>3. Open("audio")' = 0
    BY <2>2 DEF Open
  <2>4. CASE producer.continuation = "video"
    <3>1. aslots' = aslots
      BY <1>14, <2>4 DEF Abandoned
    <3> QED BY <1>10, <2>1, <2>3, <3>1
  <2>5. CASE producer.continuation # "video"
    <3>1. aslots' = [aslots EXCEPT ![i] = Blank]
      BY <1>14, <2>5 DEF Abandoned
    <3>2. open = producer.chunk + producer.remaining
      <4>1. producer.continuation = "audio"
        BY <2>5, OpenType
      <4> QED BY <2>1, <4>1 DEF open, Open
    <3>3. open > 0 /\ open = BlockSectors
      BY <1>1, <1>6, <2>1, <3>2
    <3>4. i \in Nat /\ w <= i /\ i < w + BlockSectors /\ Queued - Freed < Blocks
      <4>1. /\ audio.r.write = w /\ w \in Nat /\ Queued - Freed < Blocks
            /\ producer.chunk \in Nat /\ producer.remaining \in Nat /\ producer.remaining > 0
            /\ producer.chunk + producer.remaining = BlockSectors
        BY <1>6, <1>7, <1>8, <2>1, <3>2, <3>3
      <4>2. i = w + producer.chunk
        BY <4>1
      <4> HIDE DEF i
      <4> QED BY <1>1, <4>1, <4>2, SMTT(30)
    <3> HIDE DEF i
    <3>5. /\ aslots' \in [0..AudioCapacity - 1 -> Sector \cup {Blank}]
          /\ \A k \in Freed + 1..Queued : Intact(aslots', stored.audio[k])
      <4>1. Writes(i, Blank)
        BY <3>1, <3>4 DEF Writes, w
      <4> QED BY <3>4, <4>1, AudioWritten
    <3> QED BY <1>9, <2>1, <2>3, <3>5
  <2> QED BY <2>4, <2>5
<1>15. CASE NewAudio
  <2> DEFINE q == Reserved(audio.r, AudioCapacity, BlockSectors)
  <2>a. producer.remaining = 0 /\ Coming.type = "audio" /\ Coming.idx = 0
    BY <1>15 DEF NewAudio
  <2>1. producer.remaining = 0 /\ Coming.type = "audio" /\ Coming.count = BlockSectors
        /\ Coming.idx = 0
    BY <1>5, <2>a
  <2>2. open = 0
    BY <1>6, <2>1
  <2>3. CASE ~HasRoom(audio.r, AudioCapacity, BlockSectors)
    <3>1. producer' = [producer EXCEPT !.frame = Coming.frame] /\ UNCHANGED <<stored, audio, aslots>>
      BY <1>15, <2>1, <2>3 DEF NewAudio
    <3>2. producer'.remaining = 0
      BY <2>1, <3>1 DEF Shapes
    <3> QED BY <1>10, <3>1, <3>2 DEF Open
  <2>4. CASE HasRoom(audio.r, AudioCapacity, BlockSectors)
    <3>1. SetAside(q) /\ Queued - Freed < Blocks /\ RingShape(q) /\ q.write = w
      <4>1. SetAside(q) /\ Queued - Freed < Blocks /\ RingShape(q)
        BY <2>2, <2>4, AudioReserved DEF open
      <4> QED BY <4>1 DEF SetAside, w
    <3>2. aslots' = [aslots EXCEPT ![w] = Coming] /\ Opened("audio")
      BY <1>15, <2>1, <2>4, <3>1 DEF NewAudio
    <3>3. /\ aslots' \in [0..AudioCapacity - 1 -> Sector \cup {Blank}] /\ aslots'[w] = Coming
          /\ \A k \in Freed + 1..Queued : Intact(aslots', stored.audio[k])
      <4>1. w \in Nat /\ w <= w /\ w < w + BlockSectors /\ Queued - Freed < Blocks
        BY <1>1, <1>7, <3>1
      <4>2. Coming \in Sector \cup {Blank} /\ aslots' = [aslots EXCEPT ![w] = Coming]
        BY <1>5, <3>2
      <4>3. Writes(w, Coming)
        BY <4>1, <4>2 DEF Writes, w
      <4> QED BY <4>1, <4>3, AudioWritten
    <3>o. /\ Coming.count = 1 => \A u : Open(u)' = 0
          /\ Coming.count > 1 => /\ producer'.chunk = 1
                                 /\ \A u : Open(u)' = IF u = "audio" THEN Coming.count ELSE 0
          /\ producer'.frame = Coming.frame
      BY <1>3, <2>1, <3>2, OpenedType
    <3>w. aslots'[w + 0] = Coming
      BY <1>7, <3>3
    <3> HIDE DEF q
    <3>4. CASE BlockSectors = 1
      <4> DEFINE e == Place(q.write, BlockSectors, Coming.frame)
      <4>1. /\ audio' = [audio EXCEPT !.r = Completed(q, BlockSectors, Coming.frame)]
            /\ stored'.audio = Append(stored.audio, e)
        BY <1>15, <2>1, <2>4, <3>4 DEF NewAudio, Shapes, q
      <4>2. audio'.r = Completed(q, BlockSectors, Coming.frame) /\ audio'.buffered = audio.buffered
        BY <4>1 DEF Shapes
      <4>3. e.at = w /\ e.count = 1 /\ e.frame = Coming.frame
        BY <3>1, <3>4 DEF Place
      <4> HIDE DEF e
      <4>4. Intact(aslots', e)
        <5>1. \A k \in 0..1 - 1 : k = 0
          OBVIOUS
        <5> QED BY <2>1, <3>3, <3>4, <3>w, <4>3, <5>1 DEF Intact
      <4>c. Coming.count = 1
        BY <2>1, <3>4
      <4>o. \A u : Open(u)' = 0
        BY <3>o, <4>c
      <4>f. Coming.frame \in Nat \ {0}
        BY <1>5
      <4>5. Open("audio")' = 0 /\ Coming.frame \in Nat \ {0}
        BY <4>o, <4>f
      <4> QED
        BY <1>2, <1>3, <3>1, <3>2, <3>3, <4>1, <4>2, <4>4, <4>5, AudioCompleted DEF e
    <3>5. CASE BlockSectors > 1
      <4>1. audio' = [audio EXCEPT !.r = q] /\ stored'.audio = stored.audio
        BY <1>15, <2>1, <2>4, <3>5 DEF NewAudio, q
      <4>2. audio'.r = q /\ audio'.buffered = audio.buffered
        BY <4>1 DEF Shapes
      <4>3. Open("audio")' = BlockSectors /\ producer'.chunk = 1
        BY <2>1, <3>5, <3>o
      <4>4. Filling(aslots', audio'.r.write, Open("audio")', producer'.chunk, producer'.frame)
        <5>1. \A k \in 0..1 - 1 : k = 0
          OBVIOUS
        <5> QED BY <2>1, <3>1, <3>2, <3>3, <3>o, <3>w, <4>2, <4>3, <5>1 DEF Filling
      <4>5. Queued' = Queued /\ Freed' = Freed
        BY <1>3, <4>1, <4>2 DEF Queued, Freed, Released
      <4>6. /\ q.read = audio.r.read /\ q.last = audio.r.last /\ q.consumed = audio.r.consumed
            /\ q.wrap \in {0, AudioCapacity} /\ q.write + BlockSectors <= AudioCapacity
        BY <3>1 DEF SetAside
      <4>7. AudioTurned' \/ (AudioInLine' /\ ~AudioTurned)
        BY <3>1, <4>2, <4>3, <4>5, <4>6 DEF SetAside, AudioTurned, AudioInLine
      <4>8. RingOK(audio'.r, AudioCapacity)
        <5>1. {q.write, q.read, q.wrap} \subseteq 0..AudioCapacity
          BY <1>1, <1>7, <3>1, <4>6
        <5> QED BY <1>4, <4>2, <4>6, <5>1 DEF RingOK
      <4>9. Points(audio'.r.write, Queued')
        BY <3>1, <4>2, <4>5 DEF Points, w
      <4>10. audio'.r.last = Marker(stored'.audio, Queued')
        BY <1>4, <4>1, <4>2, <4>5, <4>6
      <4>11. Queued <= Queued' /\ \A k \in 1..Queued : stored'.audio[k] = stored.audio[k]
        BY <1>1, <4>1, <4>5
      <4>12. \A k \in 1..Queued' : /\ stored'.audio[k].at = BlockAt(k - 1)
                                  /\ stored'.audio[k].count = BlockSectors
        BY <1>4, <4>1, <4>5
      <4>13. \A k \in Freed + 1..Queued' : Intact(aslots', stored'.audio[k])
        BY <3>3, <4>1, <4>5
      <4> QED
        BY <1>2, <1>3, <3>1, <3>3, <4>2, <4>4, <4>6, <4>7, <4>8, <4>9, <4>10, <4>11, <4>12, <4>13, AudioProduced
    <3> QED BY <1>1, <3>4, <3>5
  <2> QED BY <2>3, <2>4
<1>16. CASE ContinueAudio
  <2> DEFINE c == producer.chunk
             i == w + c
  <2>1. /\ producer.remaining > 0 /\ producer.continuation = "audio" /\ Continued
        /\ Coming.frame = producer.frame /\ Coming.idx = c
        /\ aslots' = [aslots EXCEPT ![audio.r.write + c] = Coming]
    BY <1>16 DEF ContinueAudio, Expected
  <2>2. open = c + producer.remaining /\ c \in Nat /\ c > 0 /\ producer.remaining \in Nat
    BY <1>6, <2>1 DEF open, Open
  <2>3. open = BlockSectors /\ open > 0 /\ open > c
        /\ (producer.remaining = 1 => BlockSectors = 1 + c)
    BY <1>1, <2>1, <2>2
  <2>4. audio.r.write = w /\ Queued - Freed < Blocks
    BY <1>8, <2>3
  <2>w. aslots' = [aslots EXCEPT ![i] = Coming]
    BY <2>1, <2>4
  <2> HIDE DEF c
  <2>5. i \in Nat /\ w <= i /\ i < w + BlockSectors
    BY <1>1, <1>7, <2>2, <2>3
  <2>6. Coming \in Sector \cup {Blank} /\ aslots' = [aslots EXCEPT ![i] = Coming]
    BY <1>5, <2>w
  <2> HIDE DEF i
  <2>7. /\ aslots' \in [0..AudioCapacity - 1 -> Sector \cup {Blank}] /\ aslots'[i] = Coming
        /\ \A k \in 0..AudioCapacity - 1 : k # i => aslots'[k] = aslots[k]
        /\ \A k \in Freed + 1..Queued : Intact(aslots', stored.audio[k])
    <3>1. Writes(i, Coming)
      BY <2>5, <2>6 DEF Writes, w
    <3> QED BY <2>4, <3>1, AudioWritten
  <2>8. aslots'[w].count = BlockSectors
    <3>1. w \in 0..AudioCapacity - 1 /\ w # i
      BY <1>1, <1>7, <2>2 DEF i
    <3>2. aslots[w].count = BlockSectors
      BY <1>4, <2>3, <2>4 DEF Filling
    <3> QED BY <2>7, <3>1, <3>2
  <2>9. ASSUME NEW k \in 0..c
        PROVE  aslots'[w + k].frame = producer.frame /\ aslots'[w + k].idx = k
    <3>1. CASE k = c
      BY <2>1, <2>7, <3>1 DEF i
    <3>2. CASE k # c
      <4>1. k \in 0..c - 1
        BY <2>2, <3>2
      <4>2. aslots[w + k].frame = producer.frame /\ aslots[w + k].idx = k
        BY <1>4, <2>3, <2>4, <4>1 DEF Filling, c
      <4>3. w + k \in 0..AudioCapacity - 1 /\ w + k # i
        BY <1>1, <1>7, <2>2, <2>3, <4>1, SMTT(30) DEF i
      <4> QED BY <2>7, <4>2, <4>3
    <3> QED BY <3>1, <3>2
  <2>10. CASE producer.remaining > 1
    <3>1. UNCHANGED <<audio, stored>>
      BY <1>16, <2>10 DEF ContinueAudio
    <3>2. /\ Open("audio")' = open /\ producer'.chunk = c + 1 /\ producer'.frame = producer.frame
      BY <2>1, <2>10, ContinuedType DEF open, c
    <3> DEFINE come == c + 1
    <3>3. \A k \in 0..come - 1 : aslots'[w + k].frame = producer.frame /\ aslots'[w + k].idx = k
      BY <2>2, <2>9
    <3> HIDE DEF come
    <3>4. Filling(aslots', w, BlockSectors, come, producer.frame)
      BY <2>8, <3>3 DEF Filling
    <3>5. Filling(aslots', audio'.r.write, Open("audio")', producer'.chunk, producer'.frame)
      BY <2>3, <2>4, <3>1, <3>2, <3>4 DEF come
    <3>6. Queued' = Queued /\ Freed' = Freed
      BY <1>3, <3>1 DEF Queued, Freed, Released
    <3>7. AudioInLine => AudioInLine'
      BY <3>1, <3>2, <3>6 DEF AudioInLine, open
    <3>8. AudioTurned => AudioTurned'
      BY <3>1, <3>2, <3>6 DEF AudioTurned, open
    <3>9. AudioInLine' \/ AudioTurned'
      BY <1>4, <3>7, <3>8
    <3>10. /\ RingOK(audio'.r, AudioCapacity) /\ audio'.r.last = Marker(stored'.audio, Queued')
           /\ Points(audio'.r.write, Queued') /\ audio'.r.wrap \in {0, AudioCapacity}
           /\ audio'.r.read = audio.r.read /\ audio'.r.consumed = audio.r.consumed
           /\ audio'.buffered = audio.buffered
      BY <1>1, <1>4, <3>1, <3>6
    <3>11. Queued <= Queued' /\ \A k \in 1..Queued : stored'.audio[k] = stored.audio[k]
      BY <1>1, <3>1, <3>6
    <3>12. \A k \in 1..Queued' : /\ stored'.audio[k].at = BlockAt(k - 1)
                                /\ stored'.audio[k].count = BlockSectors
      BY <1>4, <3>1, <3>6
    <3>13. \A k \in Freed + 1..Queued' : Intact(aslots', stored'.audio[k])
      BY <2>7, <3>1, <3>6
    <3> QED
      BY <1>2, <1>3, <2>7, <3>5, <3>8, <3>9, <3>10, <3>11, <3>12, <3>13, AudioProduced
  <2>11. CASE producer.remaining = 1
    <3> DEFINE e == CompletedEntry(audio.r)
    <3>1. /\ audio' = [audio EXCEPT !.r = Completed(@, 1 + c, producer.frame)]
          /\ stored' = [stored EXCEPT !.audio = Append(@, e)]
      BY <1>16, <2>11 DEF ContinueAudio, c
    <3>2. /\ audio'.r = Completed(audio.r, BlockSectors, producer.frame)
          /\ audio'.buffered = audio.buffered /\ stored'.audio = Append(stored.audio, e)
      BY <2>3, <2>11, <3>1 DEF Shapes
    <3>3. e = Place(audio.r.write, BlockSectors, producer.frame)
      BY <2>3, <2>11 DEF CompletedEntry, c
    <3>4. e.at = w /\ e.count = BlockSectors /\ e.frame = producer.frame
      BY <2>4, <3>3 DEF Place
    <3> HIDE DEF e
    <3>5. Open("audio")' = 0
      BY <2>1, <2>11, ContinuedType
    <3>6. SetAside(audio.r)
      <4>1. AudioInLine => ~AudioTurned
        BY AudioLies
      <4>2. /\ AudioInLine => audio.r.write - audio.r.read = Sectors(Queued - Freed)
            /\ AudioTurned =>
                 /\ audio.r.write + AudioCapacity - audio.r.read = Sectors(Queued - Freed)
                 /\ audio.r.wrap = AudioCapacity /\ audio.r.write + BlockSectors <= audio.r.read
                 /\ audio.r.read > 0
        BY <2>3 DEF AudioInLine, AudioTurned, open
      <4>3. audio.r.write = BlockAt(Queued) /\ audio.r.write + BlockSectors <= AudioCapacity
        BY <1>7, <2>4 DEF w
      <4> QED BY <1>1, <1>4, <4>1, <4>2, <4>3 DEF SetAside
    <3>7. RingShape(audio.r)
      BY DEF Shapes
    <3>8. Intact(aslots', e)
      <4>1. \A k \in 0..BlockSectors - 1 :
              aslots'[w + k].frame = producer.frame /\ aslots'[w + k].idx = k
        BY <2>2, <2>3, <2>9, <2>11
      <4> QED BY <2>8, <3>4, <4>1 DEF Intact
    <3>9. producer.frame \in Nat \ {0}
      BY <1>6, <2>1
    <3>10. /\ aslots' \in [0..AudioCapacity - 1 -> Sector \cup {Blank}]
           /\ \A k \in Freed + 1..Queued : Intact(aslots', stored.audio[k])
      BY <2>7
    <3> QED
      BY <1>2, <1>3, <2>4, <3>2, <3>3, <3>5, <3>6, <3>7, <3>8, <3>9, <3>10, AudioCompleted
  <2> QED BY <2>1, <2>2, <2>10, <2>11
<1> QED BY <1>11, <1>12, <1>13, <1>14, <1>15, <1>16 DEF SectorReady

LEMMA AudioInit == Init => AudioInv
<1> SUFFICES ASSUME Init PROVE AudioInv
  OBVIOUS
<1>1. /\ AudioCapacity \in Nat /\ BlockSectors \in Nat /\ BlockSectors > 0 /\ AudioCapacity > 0
      /\ Sectors(0) = 0
  BY Capacities, SectorsFacts
<1>2. /\ audio = [r |-> ring, buffered |-> 0] /\ stored.audio = <<>> /\ taken.audio = <<>>
      /\ xa.filled = 0 /\ xa.waiting = TRUE /\ xa.playing = FALSE /\ xa.fill_block = 0
      /\ xa.upload_block = UPLOAD_NONE /\ fg.at = "update" /\ fg.local = 0
      /\ aslots \in [0..AudioCapacity - 1 -> Sector \cup {Blank}] /\ producer.remaining = 0
  BY DEF Init
<1>3. Released = 0 /\ Freed = 0 /\ Queued = 0 /\ Open("audio") = 0
  <2>1. 0 \div BlockSectors = 0
    BY <1>1
  <2> QED BY <1>2, <2>1 DEF Released, Freed, Queued, Open
<1>4. BlockAt(0) = 0
  <2>1. 0 \in Nat /\ 0 \in 0..Blocks /\ Blocks \in Nat /\ Blocks > 2
    BY Capacities
  <2>2. Slot(0) = 0
    BY <2>1 DEF Slot
  <2> QED BY <1>1, <2>2 DEF BlockAt
<1>5. AudioTypes
  <2>1. xa.filled - Released = 0
    BY <1>2, <1>3
  <2>2. RingOK(audio.r, AudioCapacity)
    BY <1>1, <1>2 DEF RingOK, ring, NONE
  <2>3. taken.audio \in Seq(Places)
    BY <1>2
  <2> QED BY <1>1, <1>2, <2>1, <2>2, <2>3 DEF AudioTypes
<1>6. AudioMarked
  BY <1>2, <1>3 DEF AudioMarked, Marker, ring
<1>7. AudioHeld
  <2>1. Points(audio.r.read, Freed) /\ Points(audio.r.write, Queued)
    BY <1>2, <1>3, <1>4 DEF Points, ring
  <2>2. AudioInLine
    BY <1>1, <1>2, <1>3 DEF AudioInLine, ring
  <2>3. Filling(aslots, audio.r.write, Open("audio"), producer.chunk, producer.frame)
    BY <1>3 DEF Filling
  <2>4. \A k \in 1..Queued : FALSE
    BY <1>3
  <2>5. \A k \in Freed + 1..Queued : FALSE
    BY <1>3
  <2> QED BY <1>2, <1>3, <2>1, <2>2, <2>3, <2>4, <2>5 DEF AudioHeld, ring
<1>8. AudioTaken
  BY <1>2, <1>3 DEF AudioTaken
<1>9. Streaming
  <2>1. Len(taken.audio) = 0 /\ xa.filled < StartFillBlock
    BY <1>2 DEF StartFillBlock
  <2>2. xa.waiting \in BOOLEAN /\ xa.playing \in BOOLEAN /\ xa.waiting /\ ~xa.playing
    BY <1>2
  <2> QED BY <1>2, <2>1, <2>2 DEF Streaming
<1>10. AudioRead
  BY <1>2 DEF AudioRead
<1> QED BY <1>5, <1>6, <1>7, <1>8, <1>9, <1>10 DEF AudioInv

(* A step of the foreground that leaves the ring and the stream alone. *)
LEMMA AudioLooks ==
    ASSUME Shapes, AudioInv, UNCHANGED <<producer, stored, audio, aslots>>,
           taken'.audio = taken.audio, xa'.waiting = xa.waiting, xa'.playing = xa.playing,
           xa'.filled = xa.filled, xa'.fill_block = xa.fill_block,
           xa'.upload_block = xa.upload_block,
           fg'.local \in Nat, AudioRead',
           fg'.at = "release_audio" <=> fg.at = "release_audio"
    PROVE  AudioInv'
<1>1. Released' = Released /\ Queued' = Queued
  BY DEF Released, Queued
<1>2. Freed' = Freed /\ Open("audio")' = Open("audio")
  BY <1>1 DEF Freed, Open
<1>3. AudioTypes'
  BY <1>1 DEF AudioInv, AudioTypes
<1>4. AudioMarked'
  BY <1>1 DEF AudioInv, AudioMarked
<1>5. AudioHeld'
  <2>1. AudioInLine => AudioInLine'
    BY <1>1, <1>2 DEF AudioInLine
  <2>2. AudioTurned => AudioTurned'
    BY <1>1, <1>2 DEF AudioTurned
  <2> QED BY <1>1, <1>2, <2>1, <2>2 DEF AudioInv, AudioHeld
<1>6. AudioTaken'
  BY <1>1 DEF AudioInv, AudioTaken
<1>7. Streaming'
  BY DEF AudioInv, Streaming
<1> QED BY <1>3, <1>4, <1>5, <1>6, <1>7 DEF AudioInv

(* Between two releases the entry behind the announced ones is the next the *)
(* producer completed, or where it writes if there is none.                 *)
LEMMA NextEntryTold ==
    ASSUME Shapes, Producing, AudioInv, fg.at # "release_audio",
           Released < Queued, audio.r.read # AudioCapacity
    PROVE  /\ NextEntry \in Nat
           /\ xa.filled < Queued => NextEntry = BlockAt(xa.filled)
           /\ xa.filled = Queued => NextEntry = audio.r.write /\ audio.buffered # 0
<1> DEFINE d == xa.filled - Released
           n == Queued - Released
           read == audio.r.read
           write == audio.r.write
           next == read + audio.buffered
<1>1. /\ AudioCapacity \in Nat /\ BlockSectors \in Nat /\ BlockSectors > 0
      /\ read \in 0..AudioCapacity /\ write \in 0..AudioCapacity
      /\ Queued \in Nat /\ Released \in Nat /\ xa.filled \in Nat /\ Freed = Released
      /\ Released <= xa.filled /\ xa.filled <= Queued /\ audio.buffered \in Nat
  BY AudioFacts
<1>2. d \in Int /\ n \in Int /\ d >= 0 /\ d <= n /\ n > 0 /\ Released + d = xa.filled
      /\ (xa.filled < Queued <=> d < n) /\ (xa.filled = Queued <=> d = n)
  BY <1>1
<1>3. n <= Blocks /\ read = BlockAt(Released)
  BY <1>1, AudioLies
<1>4. audio.buffered = Sectors(d)
  BY DEF AudioInv, AudioTypes
<1>5. /\ AudioInLine => write - read = Sectors(n)
      /\ AudioTurned => write + AudioCapacity - read = Sectors(n) /\ audio.r.wrap = AudioCapacity
      /\ AudioInLine \/ AudioTurned
  BY <1>1 DEF AudioInLine, AudioTurned, AudioInv, AudioHeld
<1>6. /\ AudioInLine => read <= write /\ (Freed < Queued => read < write)
      /\ AudioTurned => write <= read
  BY AudioLies
<1>7. NextEntry = IF read >= write /\ next >= audio.r.wrap THEN next - audio.r.wrap ELSE next
  BY DEF NextEntry
<1> HIDE DEF d, n, read, write
<1>8. /\ Sectors(d) \in Int /\ Sectors(n) \in Int /\ Sectors(d) >= 0
      /\ d < n => Sectors(d) + BlockSectors <= Sectors(n)
      /\ Sectors(n) > 0
  <2>1. 0 \in Int /\ Sectors(0) = 0
    BY SectorsFacts
  <2>2. 0 < n => Sectors(0) < Sectors(n)
    BY <1>2, <2>1, SectorsOrder
  <2> QED BY <1>2, <2>1, <2>2, SectorsFacts, SectorsOrder
<1>9. BlockAt(xa.filled) = IF read + Sectors(d) >= AudioCapacity
                           THEN read + Sectors(d) - AudioCapacity ELSE read + Sectors(d)
  <2>1. d \in 0..Blocks /\ Released \in Nat
    BY <1>1, <1>2, <1>3, Capacities
  <2>2. BlockAt(Released + d) = IF BlockAt(Released) + Sectors(d) >= AudioCapacity
                                THEN BlockAt(Released) + Sectors(d) - AudioCapacity
                                ELSE BlockAt(Released) + Sectors(d)
    BY <2>1, BlockBehind
  <2> QED BY <1>2, <1>3, <2>2
<1>10. next = read + Sectors(d) /\ next \in Nat
  BY <1>1, <1>4 DEF read
<1> HIDE DEF next
<1>11. CASE AudioInLine
  <2>1. NextEntry = next
    BY <1>1, <1>5, <1>6, <1>7, <1>8, <1>11
  <2>2. xa.filled < Queued => next < AudioCapacity
    BY <1>1, <1>2, <1>5, <1>8, <1>10, <1>11
  <2>3. xa.filled = Queued => next = write
    BY <1>1, <1>2, <1>5, <1>8, <1>10, <1>11
  <2> QED BY <1>1, <1>2, <1>4, <1>8, <1>9, <1>10, <2>1, <2>2, <2>3 DEF write
<1>12. CASE AudioTurned
  <2>1. NextEntry = IF next >= AudioCapacity THEN next - AudioCapacity ELSE next
    BY <1>1, <1>5, <1>6, <1>7, <1>12
  <2>2. xa.filled = Queued => next = write + AudioCapacity
    BY <1>1, <1>2, <1>5, <1>8, <1>10, <1>12
  <2> QED BY <1>1, <1>2, <1>4, <1>8, <1>9, <1>10, <2>1, <2>2 DEF write
<1> QED BY <1>5, <1>11, <1>12

(* The places of the foreground. *)
LEMMA FgGoes ==
    ASSUME Shapes, NEW place, Goto(place)
    PROVE  fg'.at = place /\ fg'.local = fg.local /\ fg'.vlc = fg.vlc
BY DEF Shapes, Goto

LEMMA LookForAudioStep ==
    ASSUME Shapes, Producing, AudioInv, Foreground, LookForAudio PROVE AudioInv'
<1>1. /\ audio.r.read \in 0..AudioCapacity /\ audio.r.write \in 0..AudioCapacity
      /\ AudioCapacity \in Nat /\ xa.filled \in Nat /\ Released \in Nat /\ Queued \in Nat
      /\ Released <= Queued /\ Released <= xa.filled /\ xa.filled <= Queued
      /\ audio.r.last = audio.r.consumed <=> Released = Queued
  BY AudioFacts
<1>2. fg.at = "audio" /\ UNCHANGED <<xa, audio, taken, producer, stored, aslots>>
  BY DEF LookForAudio, Foreground, others
<1>3. Freed = Released
  BY <1>2, AudioFacts
<1>4. fg'.at = (IF Empty(audio.r) THEN "prime" ELSE "wrap_audio") /\ fg'.local = fg.local
  BY FgGoes DEF LookForAudio
<1>5. fg.local \in Nat
  BY DEF AudioInv, AudioTypes
<1>6. Released' = Released /\ Queued' = Queued
  BY <1>2 DEF Released, Queued
<1>7. CASE Empty(audio.r)
  <2>1. Released = Queued
    BY <1>1, <1>7 DEF Empty
  <2>2. xa.filled - Released = 0
    BY <1>1, <2>1
  <2>3. audio.buffered = 0
    BY <2>2, SectorsFacts DEF AudioInv, AudioTypes
  <2>4. AudioRead'
    BY <1>2, <1>4, <1>7, <2>3 DEF AudioRead
  <2> QED BY <1>2, <1>4, <1>5, <1>7, <2>4, AudioLooks
<1>8. CASE ~Empty(audio.r)
  <2>1. Released < Queued \/ (AudioTurned /\ audio.r.read = AudioCapacity)
    <3>1. CASE Released = Queued
      <4>1. audio.r.read # audio.r.write
        BY <1>1, <1>8, <3>1 DEF Empty
      <4>2. ~AudioInLine
        BY <1>3, <3>1, <4>1, AudioLies
      <4>3. AudioTurned /\ Queued - Freed = 0
        BY <1>1, <1>3, <3>1, <4>2 DEF AudioInv, AudioHeld
      <4>4. audio.r.write + AudioCapacity - audio.r.read = 0
        BY <4>3, SectorsFacts DEF AudioTurned
      <4>5. audio.r.read = AudioCapacity
        <5>1. AudioCapacity - audio.r.read >= 0 /\ AudioCapacity - audio.r.read \in Int
          BY <1>1
        <5>2. audio.r.write >= 0 /\ audio.r.write \in Int
          BY <1>1
        <5>3. AudioCapacity - audio.r.read = 0
          BY <4>4, <5>1, <5>2
        <5> QED BY <1>1, <5>3
      <4> QED BY <4>3, <4>5
    <3> QED BY <1>1, <3>1
  <2>2. AudioTurned' <=> AudioTurned
    <3>1. Freed' = Freed /\ Open("audio")' = Open("audio")
      BY <1>2, <1>4, <1>6, <1>8 DEF Freed, Open
    <3> QED BY <1>2, <1>6, <3>1 DEF AudioTurned
  <2>3. AudioRead'
    BY <1>2, <1>4, <1>6, <1>8, <2>1, <2>2 DEF AudioRead
  <2> QED BY <1>2, <1>4, <1>5, <1>8, <2>3, AudioLooks
<1> QED BY <1>7, <1>8

LEMMA NextAudioStep ==
    ASSUME Shapes, Producing, AudioInv, Foreground, NextAudio PROVE AudioInv'
<1>1. fg.at = "next_audio" /\ UNCHANGED <<xa, audio, taken, producer, stored, aslots>>
  BY DEF NextAudio, Foreground, others
<1>2. fg'.at = "compare_audio" /\ fg'.local = NextEntry
  BY DEF NextAudio, Shapes
<1>3. Released < Queued /\ audio.r.read # AudioCapacity
  BY <1>1 DEF AudioInv, AudioRead
<1>4. NextEntry \in Nat
  BY <1>1, <1>3, NextEntryTold
<1>5. Released' = Released /\ Queued' = Queued /\ NextEntry' = NextEntry
  BY <1>1 DEF Released, Queued, NextEntry
<1>6. AudioRead'
  BY <1>1, <1>2, <1>3, <1>5 DEF AudioRead
<1> QED BY <1>1, <1>2, <1>4, <1>6, AudioLooks

LEMMA WrapAudioStep ==
    ASSUME Shapes, Producing, AudioInv, Foreground, WrapAudio PROVE AudioInv'
<1>1. /\ AudioCapacity \in Nat /\ audio.r.read \in 0..AudioCapacity
      /\ audio.r.write \in 0..AudioCapacity /\ AudioCapacity > 0
      /\ audio.r.wrap \in {0, AudioCapacity} /\ Open("audio") \in {0, BlockSectors}
      /\ BlockSectors \in Nat
      /\ Queued \in Nat /\ Released \in Nat /\ Released <= Queued
      /\ audio.r.last = audio.r.consumed <=> Released = Queued
  BY AudioFacts, Capacities
<1>2. fg.at = "wrap_audio" /\ UNCHANGED <<xa, taken, producer, stored, aslots>>
  BY DEF WrapAudio, Foreground, others
<1>3. Freed = Released /\ (Released < Queued \/ (AudioTurned /\ audio.r.read = AudioCapacity))
  BY <1>2, AudioFacts DEF AudioInv, AudioRead
<1>4. /\ AudioInLine => /\ audio.r.read <= audio.r.write /\ ~AudioTurned
                        /\ Freed < Queued => audio.r.read < audio.r.write
                        /\ Freed = Queued => audio.r.read = audio.r.write
      /\ AudioTurned => /\ audio.r.write <= audio.r.read
                        /\ audio.r.wrap = AudioCapacity
                        /\ audio.r.write + AudioCapacity - audio.r.read = Sectors(Queued - Freed)
                        /\ audio.r.write + Open("audio") <= audio.r.read
      /\ AudioInLine \/ AudioTurned
  BY AudioLies DEF AudioTurned, AudioInv, AudioHeld
<1>5. fg.local \in Nat
  BY DEF AudioInv, AudioTypes
<1>6. CASE audio.r.write <= audio.r.read /\ audio.r.read = audio.r.wrap
  <2> DEFINE place == IF audio.r.write = 0 /\ audio.r.last = audio.r.consumed
                      THEN "prime" ELSE "next_audio"
  <2>1. audio' = [audio EXCEPT !.r.read = 0] /\ Goto(place)
    BY <1>6 DEF WrapAudio
  <2>2. fg'.at = place /\ fg'.local = fg.local
    BY <2>1, FgGoes
  <2>3. /\ audio'.r = [write |-> audio.r.write, read |-> 0, wrap |-> audio.r.wrap,
                       last |-> audio.r.last, consumed |-> audio.r.consumed]
        /\ audio'.buffered = audio.buffered
    BY <2>1 DEF Shapes, RingShape
  <2>4. AudioTurned /\ audio.r.read = AudioCapacity
    BY <1>1, <1>3, <1>4, <1>6
  <2>5. Released' = Released /\ Queued' = Queued
    BY <1>2, <2>3 DEF Released, Queued
  <2>6. Freed' = Freed /\ Open("audio")' = Open("audio")
    BY <1>2, <2>2, <2>5 DEF Freed, Open
  <2>7. Sectors(Queued - Freed) = audio.r.write
    BY <1>1, <1>4, <2>4
  <2>8. audio'.r.write - audio'.r.read = Sectors(Queued - Freed)
    BY <1>1, <2>3, <2>7
  <2>9. audio'.r.write + Open("audio") <= AudioCapacity
    BY <1>4, <2>3, <2>4
  <2>10. AudioInLine'
    BY <2>5, <2>6, <2>8, <2>9 DEF AudioInLine
  <2>11. Points(audio'.r.read, Freed')
    <3>1. BlockAt(Freed) = 0
      <4>1. BlockAt(Freed) \in Nat /\ BlockAt(Freed) + BlockSectors <= AudioCapacity
        <5>1. 0 \in 0..Blocks /\ Freed \in Nat
          BY AudioFacts, Capacities
        <5> QED BY <5>1, BlockBehind
      <4>2. BlockSectors > 0
        BY Capacities
      <4>3. BlockAt(Freed) # AudioCapacity
        BY <1>1, <4>1, <4>2
      <4>4. Points(AudioCapacity, Freed)
        BY <2>4 DEF AudioInv, AudioHeld
      <4> QED BY <4>3, <4>4 DEF Points
    <3> QED BY <2>3, <2>6, <3>1 DEF Points
  <2>12. AudioHeld'
    BY <1>2, <2>3, <2>5, <2>6, <2>10, <2>11 DEF AudioInv, AudioHeld
  <2>13. AudioTypes'
    <3>1. RingOK(audio'.r, AudioCapacity)
      BY <1>1, <2>3 DEF AudioInv, AudioTypes, RingOK
    <3> QED BY <1>2, <1>5, <2>2, <2>3, <2>5, <3>1 DEF AudioInv, AudioTypes
  <2>14. AudioMarked' /\ AudioTaken' /\ Streaming'
    BY <1>2, <2>3, <2>5 DEF AudioInv, AudioMarked, AudioTaken, Streaming
  <2>15. place = "next_audio" => Released < Queued
    <3>1. ASSUME Released = Queued PROVE audio.r.write = 0 /\ audio.r.last = audio.r.consumed
      <4>1. Queued - Freed = 0
        BY <1>1, <1>3, <3>1
      <4> QED BY <1>1, <2>7, <3>1, <4>1, SectorsFacts
    <3> QED BY <1>1, <3>1
  <2>16. audio'.r.read # AudioCapacity /\ fg'.at \in {"prime", "next_audio"}
    BY <1>1, <2>2, <2>3
  <2> HIDE DEF place
  <2>17. AudioRead'
    BY <2>2, <2>5, <2>15, <2>16 DEF AudioRead
  <2> QED BY <2>12, <2>13, <2>14, <2>17 DEF AudioInv
<1>7. CASE ~(audio.r.write <= audio.r.read /\ audio.r.read = audio.r.wrap)
  <2>1. UNCHANGED audio /\ Goto("next_audio")
    BY <1>7 DEF WrapAudio
  <2>2. fg'.at = "next_audio" /\ fg'.local = fg.local
    BY <2>1, FgGoes
  <2>3. Released < Queued /\ audio.r.read # AudioCapacity
    BY <1>1, <1>3, <1>4, <1>7
  <2>4. Released' = Released /\ Queued' = Queued
    BY <1>2, <2>1 DEF Released, Queued
  <2>5. AudioRead'
    BY <2>1, <2>2, <2>3, <2>4 DEF AudioRead
  <2> QED BY <1>2, <1>5, <2>1, <2>2, <2>5, AudioLooks
<1> QED BY <1>6, <1>7

(* A step of the video half, or of the sound's pause. *)
LEMMA AudioPassed ==
    ASSUME Shapes, Producing, AudioInv, UNCHANGED <<producer, stored, aslots, audio>>,
           taken'.audio = taken.audio, fg'.local \in Nat,
           xa' = xa \/ xa' = [xa EXCEPT !.paused = xa'.paused],
           \/ fg'.at = fg.at /\ fg'.local = fg.local
           \/ /\ fg.at # "release_audio"
              /\ fg'.at \notin {"wrap_audio", "next_audio", "compare_audio", "prime", "resumed",
                               "position", "release_audio"}
           \/ fg.at \in {"prime", "resumed"} /\ fg'.at \in {"resumed", "position"}
    PROVE  AudioInv'
<1>1. /\ xa'.waiting = xa.waiting /\ xa'.playing = xa.playing /\ xa'.filled = xa.filled
      /\ xa'.fill_block = xa.fill_block /\ xa'.upload_block = xa.upload_block
  BY DEF Shapes
<1>2. Released' = Released /\ Queued' = Queued /\ NextEntry' = NextEntry
  BY <1>1 DEF Released, Queued, NextEntry
<1>3. fg'.at = "release_audio" <=> fg.at = "release_audio"
  OBVIOUS
<1>4. AudioTurned' <=> AudioTurned
  <2>1. Freed' = Freed /\ Open("audio")' = Open("audio")
    BY <1>2, <1>3 DEF Freed, Open
  <2> QED BY <1>2, <2>1 DEF AudioTurned
<1>5. AudioRead
  BY DEF AudioInv
<1>6. AudioRead'
  BY <1>2, <1>4, <1>5 DEF AudioRead
<1> QED BY <1>1, <1>3, <1>6, AudioLooks

LEMMA BlocksFollow ==
    ASSUME NEW k \in Nat
    PROVE  NextBlock(Slot(k)) = Slot(k + 1) /\ Slot(k) \in 0..Blocks - 1
<1>1. 1 \in 0..Blocks /\ Blocks \in Nat /\ Blocks > 2
  BY Capacities
<1>2. /\ Slot(k) \in 0..Blocks - 1
      /\ Slot(k + 1) = IF Slot(k) + 1 >= Blocks THEN Slot(k) + 1 - Blocks ELSE Slot(k) + 1
  BY <1>1, LaterSlot
<1>3. Slot(k) \in Int /\ Slot(k) < Blocks
  BY <1>1, <1>2
<1> QED BY <1>1, <1>2, <1>3 DEF NextBlock

LEMMA FirstSlots == Slot(0) = 0 /\ Slot(1) = 1 /\ Slot(2) = 2
<1>1. Blocks \in Nat /\ Blocks > 2
  BY Capacities
<1> QED BY <1>1 DEF Slot

(* A block not freed is found whole in its slots. *)
LEMMA BlockFound ==
    ASSUME Shapes, Producing, AudioInv, NEW k \in Freed + 1..Queued
    PROVE  /\ EntryAt(aslots, BlockAt(k - 1)) = stored.audio[k]
           /\ aslots[BlockAt(k - 1)] \in Sector \cup {Blank}
           /\ aslots[BlockAt(k - 1)].count = BlockSectors
           /\ aslots[BlockAt(k - 1)].frame = stored.audio[k].frame
           /\ BlockAt(k - 1) \in DOMAIN aslots
<1> DEFINE e == stored.audio[k]
           i == k - 1
<1>1. /\ AudioCapacity \in Nat /\ BlockSectors \in Nat /\ BlockSectors > 0
      /\ Queued \in Nat /\ Freed \in Nat /\ Freed <= Queued /\ stored.audio \in Seq(Places)
  BY AudioFacts
<1>2. k \in 1..Queued /\ i \in Nat /\ 0 \in 0..Blocks
  BY <1>1, Capacities
<1>3. e \in Places /\ e.at = BlockAt(i) /\ e.count = BlockSectors
  BY <1>1, <1>2, PlaceType DEF Queued, AudioInv, AudioHeld
<1>4. Intact(aslots, e) /\ aslots \in [0..AudioCapacity - 1 -> Sector \cup {Blank}]
  BY DEF AudioInv, AudioHeld, AudioTypes
<1> HIDE DEF e, i
<1>5. BlockAt(i) \in Nat /\ BlockAt(i) + BlockSectors <= AudioCapacity
  BY <1>2, BlockBehind
<1>6. e.at + e.count <= AudioCapacity
  BY <1>3, <1>5
<1>7. EntryAt(aslots, e.at) = e
  BY <1>1, <1>3, <1>4, <1>6, EntryFound
<1>8. BlockAt(i) \in 0..AudioCapacity - 1
  BY <1>1, <1>5
<1>9. aslots[BlockAt(i)].count = BlockSectors /\ aslots[BlockAt(i)].frame = e.frame
  <2>1. 0 \in 0..e.count - 1 /\ e.at + 0 = e.at
    BY <1>1, <1>3, <1>5
  <2> QED BY <1>3, <1>4, <2>1 DEF Intact
<1> QED BY <1>3, <1>4, <1>7, <1>8, <1>9 DEF e, i

LEMMA AdvanceAudioStep ==
    ASSUME Shapes, Producing, AudioInv, Foreground, AdvanceAudio PROVE AudioInv'
<1> DEFINE k == Freed
           n == Queued - Freed
           read == audio.r.read
<1>1. /\ AudioCapacity \in Nat /\ BlockSectors \in Nat /\ BlockSectors > 0
      /\ read \in 0..AudioCapacity /\ audio.r.write \in 0..AudioCapacity
      /\ Queued \in Nat /\ Released \in Nat /\ k \in Nat /\ Released <= Queued
      /\ Open("audio") \in {0, BlockSectors}
  BY AudioFacts
<1>2. /\ fg.at = "release_audio" /\ UNCHANGED <<xa, taken, producer, stored, aslots>>
      /\ audio' = [audio EXCEPT !.r.read = fg.local] /\ Goto("check")
  BY DEF AdvanceAudio, Foreground, others
<1>3. Released = Freed + 1
  BY <1>2, AudioFacts
<1>4. read # AudioCapacity /\ fg.local = read + BlockSectors /\ fg.local \in Nat
  BY <1>2 DEF AudioInv, AudioRead, AudioTypes
<1>5. fg'.at = "check" /\ fg'.local = fg.local
  BY <1>2, FgGoes
<1>6. /\ audio'.r = [write |-> audio.r.write, read |-> read + BlockSectors, wrap |-> audio.r.wrap,
                     last |-> audio.r.last, consumed |-> audio.r.consumed]
      /\ audio'.buffered = audio.buffered
  BY <1>2, <1>4 DEF Shapes, RingShape
<1>7. Released' = Released /\ Queued' = Queued /\ Open("audio")' = Open("audio")
  BY <1>2, <1>6 DEF Released, Queued, Open
<1>8. Freed' = Freed + 1
  BY <1>1, <1>3, <1>5, <1>7 DEF Freed
<1>9. read = BlockAt(Freed)
  BY <1>4, AudioLies
<1> DEFINE m == n - 1
<1>10. n \in Int /\ m \in Int /\ Queued' - Freed' = m /\ 1 \in Int
  BY <1>1, <1>7, <1>8
<1>11. Sectors(m) = Sectors(n) - BlockSectors /\ Sectors(n) \in Int
  <2>1. Sectors(n - 1) = Sectors(n) - Sectors(1) /\ Sectors(1) = BlockSectors
        /\ Sectors(n) \in Int
    <3> HIDE DEF n
    <3> QED BY <1>10, SectorsFacts
  <2> QED BY <2>1
<1>12. /\ AudioInLine => audio.r.write - read = Sectors(n)
                         /\ audio.r.write + Open("audio") <= AudioCapacity
       /\ AudioTurned => /\ audio.r.write + AudioCapacity - read = Sectors(n)
                         /\ audio.r.wrap = AudioCapacity
                         /\ audio.r.write + Open("audio") <= read /\ read > 0
       /\ AudioInLine \/ AudioTurned
  BY DEF AudioInLine, AudioTurned, AudioInv, AudioHeld
<1> HIDE DEF n, m, read
<1>13. /\ BlockAt(Freed) + BlockSectors <= AudioCapacity
       /\ BlockAt(Freed + 1) = IF read + BlockSectors >= AudioCapacity
                               THEN read + BlockSectors - AudioCapacity ELSE read + BlockSectors
  <2>1. 1 \in 0..Blocks /\ Sectors(1) = BlockSectors /\ Freed \in Nat
    BY <1>1, Capacities, SectorsFacts
  <2> QED BY <1>9, <2>1, BlockBehind
<1>14. Points(audio'.r.read, Freed')
  <2>1. read + BlockSectors <= AudioCapacity /\ Freed + 1 > 0
    BY <1>1, <1>9, <1>13
  <2>2. read + BlockSectors = AudioCapacity => BlockAt(Freed + 1) = 0
    BY <1>1, <1>13
  <2>3. read + BlockSectors # AudioCapacity => BlockAt(Freed + 1) = read + BlockSectors
    BY <1>1, <1>13, <2>1 DEF read
  <2> QED BY <1>6, <1>8, <2>1, <2>2, <2>3 DEF Points
<1>15. AudioInLine' \/ AudioTurned'
  <2>1. CASE AudioInLine
    <3>1. audio'.r.write - audio'.r.read = Sectors(m)
      BY <1>1, <1>6, <1>11, <1>12, <2>1 DEF read
    <3>2. audio'.r.write + Open("audio") <= AudioCapacity
      BY <1>6, <1>12, <2>1
    <3> QED BY <1>7, <1>10, <3>1, <3>2 DEF AudioInLine
  <2>2. CASE AudioTurned
    <3>1. audio'.r.write + AudioCapacity - audio'.r.read = Sectors(m)
      BY <1>1, <1>6, <1>11, <1>12, <2>2 DEF read
    <3>2. audio'.r.write + Open("audio") <= audio'.r.read /\ audio'.r.read > 0
      BY <1>1, <1>6, <1>12, <2>2 DEF read
    <3>3. audio'.r.wrap = AudioCapacity
      BY <1>6, <1>12, <2>2
    <3> QED BY <1>7, <1>10, <3>1, <3>2, <3>3 DEF AudioTurned
  <2> QED BY <1>12, <2>1, <2>2
<1>16. AudioHeld'
  <2>1. Freed' >= 0 /\ Freed' <= Queued'
    BY <1>1, <1>3, <1>7, <1>8
  <2>2. \A j \in Freed'+ 1..Queued' : j \in Freed + 1..Queued
    BY <1>1, <1>7, <1>8
  <2> QED BY <1>2, <1>6, <1>7, <1>14, <1>15, <2>1, <2>2 DEF AudioInv, AudioHeld
<1>17. AudioTypes'
  <2>1. RingOK(audio'.r, AudioCapacity)
    <3>1. read + BlockSectors \in 0..AudioCapacity
      BY <1>1, <1>9, <1>13
    <3> QED BY <1>6, <3>1 DEF AudioInv, AudioTypes, RingOK
  <2> QED BY <1>2, <1>4, <1>5, <1>6, <1>7, <2>1 DEF AudioInv, AudioTypes
<1>18. AudioMarked' /\ AudioTaken' /\ Streaming'
  BY <1>2, <1>6, <1>7 DEF AudioInv, AudioMarked, AudioTaken, Streaming
<1>19. AudioRead'
  BY <1>5 DEF AudioRead
<1> QED BY <1>16, <1>17, <1>18, <1>19 DEF AudioInv

LEMMA ReleaseAudioStep ==
    ASSUME Shapes, Producing, VideoInv, AudioInv, Foreground, ReleaseAudio PROVE AudioInv'
<1> DEFINE k == Released + 1
           read == audio.r.read
<1>1. /\ AudioCapacity \in Nat /\ BlockSectors \in Nat /\ BlockSectors > 0
      /\ read \in 0..AudioCapacity /\ audio.buffered \in Nat
      /\ Queued \in Nat /\ Released \in Nat /\ Freed \in Nat /\ xa.filled \in Nat
      /\ Len(taken.audio) \in Nat /\ Released <= Len(taken.audio)
      /\ Len(taken.audio) <= xa.filled /\ xa.filled <= Queued
  BY AudioFacts
<1>2. fg.at = "position" /\ UNCHANGED <<xa, video, taken, producer, stored, aslots>>
  BY DEF ReleaseAudio, Foreground, others
<1>3. Freed = Released
  BY <1>2, AudioFacts
<1>4. fg.local \in Nat /\ audio.buffered = Sectors(xa.filled - Released)
  BY DEF AudioInv, AudioTypes
<1>5. CASE ~Empty(audio.r) /\ audio.buffered # 0 /\ Played
  <2> DEFINE oldest == aslots[read]
  <2>1. /\ audio' = [audio EXCEPT !.buffered = @ - oldest.count, !.r.consumed = oldest.frame]
        /\ fg' = [fg EXCEPT !.at = "release_audio",
                            !.local = Behind(audio.r, oldest.count, video.wrap)]
    BY <1>5 DEF ReleaseAudio
  <2>2. read # AudioCapacity
    BY <1>2, <1>5 DEF AudioInv, AudioRead
  <2>3. read = BlockAt(Released)
    BY <1>3, <2>2, AudioLies
  <2>4. Released < xa.filled
    <3>1. xa.filled - Released # 0
      BY <1>4, <1>5, SectorsFacts
    <3> QED BY <1>1, <3>1
  <2>5. k \in Freed + 1..Queued /\ k - 1 = Released /\ k \in 1..Len(stored.audio)
    BY <1>1, <1>3, <2>4 DEF Queued
  <2>6. oldest.count = BlockSectors /\ oldest.frame = stored.audio[k].frame
        /\ read + BlockSectors <= AudioCapacity
    <3>1. 0 \in 0..Blocks
      BY Capacities
    <3>2. BlockAt(Released) + BlockSectors <= AudioCapacity
      BY <1>1, <3>1, BlockBehind
    <3> HIDE DEF k
    <3>3. BlockAt(k - 1) = read
      BY <2>3, <2>5
    <3> QED BY <2>3, <2>5, <3>2, <3>3, BlockFound
  <2>7. stored.audio[k].frame \in Nat
    BY <2>5, PlaceType DEF Producing
  <2> HIDE DEF k, oldest
  <2>8. Behind(audio.r, BlockSectors, video.wrap) = read + BlockSectors
    <3>1. video.wrap \in Nat /\ (video.wrap = 0 \/ video.wrap > AudioCapacity)
      BY VideoFacts DEF VideoInv, VideoHeld
    <3>2. read + BlockSectors # video.wrap
      BY <1>1, <2>6, <3>1
    <3> QED BY <3>2 DEF Behind
  <2>9. fg' = [at |-> "release_audio", local |-> read + BlockSectors, vlc |-> fg.vlc]
    BY <2>1, <2>6, <2>8 DEF Shapes
  <2>10. /\ audio'.r = [write |-> audio.r.write, read |-> read, wrap |-> audio.r.wrap,
                        last |-> audio.r.last, consumed |-> stored.audio[k].frame]
         /\ audio'.buffered = audio.buffered - BlockSectors
    BY <2>1, <2>6 DEF Shapes, RingShape
  <2> DEFINE d == xa.filled - Released
             c == d - 1
  <2>11. d \in Int /\ d > 0 /\ c \in Nat /\ 1 \in Int /\ c = xa.filled - (Released + 1)
         /\ xa.filled - c = Released + 1
    BY <1>1, <2>4
  <2>12. audio'.buffered = Sectors(c)
    <3> HIDE DEF d
    <3>1. Sectors(d - 1) = Sectors(d) - Sectors(1) /\ Sectors(1) = BlockSectors
      BY <2>11, SectorsFacts
    <3> QED BY <1>4, <2>10, <3>1 DEF d
  <2> HIDE DEF d, c
  <2>13. audio'.buffered \div BlockSectors = c
    BY <2>11, <2>12, SectorsDivided
  <2>14. Released' = Released + 1
    BY <1>2, <2>11, <2>13 DEF Released
  <2>15. Freed' = Freed /\ Queued' = Queued /\ Open("audio")' = Open("audio")
    BY <1>1, <1>2, <1>3, <2>9, <2>14 DEF Freed, Queued, Open
  <2>16. Released < Len(taken.audio)
    <3>1. ~xa.waiting
      BY <1>5 DEF AudioInv, Streaming, Played
    <3>2. xa.upload_block = Slot(Len(taken.audio))
      BY <3>1 DEF AudioInv, Streaming
    <3>3. read # BlockAt(Len(taken.audio))
      BY <1>5, <3>2 DEF Played, BlockAt, Sectors
    <3> QED BY <1>1, <2>3, <3>3
  <2>17. AudioTypes'
    <3>1. RingOK(audio'.r, AudioCapacity)
      BY <2>7, <2>10 DEF AudioInv, AudioTypes, RingOK
    <3>2. audio'.buffered = Sectors(xa'.filled - Released')
      BY <1>2, <2>11, <2>12, <2>14
    <3>3. audio'.buffered \in Nat
      <4>1. Sectors(c) \in Int /\ Sectors(c) >= 0
        BY <2>11, SectorsFacts
      <4> QED BY <2>12, <4>1
    <3>4. fg'.local \in Nat
      BY <1>1, <2>9
    <3> QED BY <1>2, <3>1, <3>2, <3>3, <3>4 DEF AudioInv, AudioTypes
  <2>18. AudioMarked'
    <3>1. audio'.r.last = Marker(stored'.audio, Queued')
      BY <1>2, <2>10, <2>15 DEF AudioInv, AudioMarked
    <3>2. audio'.r.consumed = Marker(stored'.audio, Released')
      BY <1>1, <1>2, <2>10, <2>14 DEF Marker, k
    <3> QED BY <3>1, <3>2 DEF AudioMarked
  <2>19. AudioHeld'
    <3>1. AudioInLine => AudioInLine'
      BY <2>10, <2>15 DEF AudioInLine
    <3>2. AudioTurned => AudioTurned'
      BY <2>10, <2>15 DEF AudioTurned
    <3> QED BY <1>2, <2>10, <2>15, <3>1, <3>2 DEF AudioInv, AudioHeld
  <2>20. AudioTaken'
    <3>1. Released' <= Len(taken.audio)
      BY <1>1, <2>14, <2>16
    <3> QED BY <1>2, <2>15, <3>1 DEF AudioInv, AudioTaken
  <2>21. Streaming'
    BY <1>2 DEF AudioInv, Streaming
  <2>22. AudioRead'
    BY <2>2, <2>9, <2>10 DEF AudioRead
  <2> QED BY <2>17, <2>18, <2>19, <2>20, <2>21, <2>22 DEF AudioInv
<1>6. CASE ~(~Empty(audio.r) /\ audio.buffered # 0 /\ Played)
  <2>1. UNCHANGED audio /\ Goto("check")
    BY <1>6 DEF ReleaseAudio
  <2>2. fg'.at = "check" /\ fg'.local = fg.local
    BY <2>1, FgGoes
  <2> QED BY <1>2, <1>4, <2>1, <2>2, AudioPassed
<1> QED BY <1>5, <1>6

(* The block the stream has played last is uploaded anew. *)
LEMMA RefillStep ==
    ASSUME Shapes, Producing, AudioInv, Refill PROVE AudioInv'
<1> DEFINE n == Len(taken.audio)
           block == xa.upload_block * BlockSectors
           e == stored.audio[n + 1]
<1>1. /\ Queued \in Nat /\ Released \in Nat /\ Freed \in Nat /\ xa.filled \in Nat
      /\ n \in Nat /\ Freed <= Released /\ Released <= n /\ taken.audio \in Seq(Places)
      /\ xa.filled <= Queued /\ stored.audio \in Seq(Places)
  BY AudioFacts
<1>2. /\ xa.playing /\ n < xa.filled
      /\ taken' = [taken EXCEPT !.audio = Append(@, EntryAt(aslots, block))]
      /\ xa' = [xa EXCEPT !.upload_block = NextBlock(@), !.playing = ~aslots[block].final]
      /\ UNCHANGED <<fg, audio, producer, stored, aslots>>
  BY DEF Refill, others
<1>3. ~xa.waiting /\ xa.upload_block = Slot(n) /\ xa.waiting \in BOOLEAN
  BY <1>2 DEF AudioInv, Streaming
<1>4. block = BlockAt(n)
  BY <1>3 DEF BlockAt, Sectors
<1>5. EntryAt(aslots, block) = e /\ aslots[block] \in Sector \cup {Blank} /\ e \in Places
  <2> DEFINE k == n + 1
  <2>1. k \in Freed + 1..Queued /\ k - 1 = n /\ k \in 1..Len(stored.audio)
    BY <1>1, <1>2 DEF Queued
  <2>2. e \in Places
    BY <1>1, <2>1, PlaceType
  <2> HIDE DEF k, block
  <2>3. EntryAt(aslots, BlockAt(k - 1)) = stored.audio[k]
        /\ aslots[BlockAt(k - 1)] \in Sector \cup {Blank}
    BY <2>1, BlockFound
  <2> QED BY <1>4, <2>1, <2>2, <2>3 DEF k
<1>6. aslots[block].final \in BOOLEAN
  <2>1. \A s \in Sector : s.final \in BOOLEAN
    BY DEF Sector
  <2>2. Blank.final = FALSE
    BY DEF Blank
  <2>3. \A s \in Sector \cup {Blank} : s.final \in BOOLEAN
    BY <2>1, <2>2, Zenon
  <2> QED BY <1>5, <2>3, Zenon
<1> HIDE DEF n, block, e
<1>7. taken'.audio = Append(taken.audio, e)
  BY <1>2, <1>5 DEF Shapes
<1>8. /\ Len(taken'.audio) = n + 1 /\ taken'.audio \in Seq(Places) /\ taken'.audio[n + 1] = e
      /\ \A k \in 1..n : taken'.audio[k] = taken.audio[k]
  BY <1>1, <1>5, <1>7, PlacesAppended DEF n
<1>9. /\ xa'.waiting = xa.waiting /\ xa'.filled = xa.filled
      /\ xa'.upload_block = NextBlock(xa.upload_block) /\ xa'.playing = ~aslots[block].final
  BY <1>2 DEF Shapes
<1>10. Released' = Released /\ Queued' = Queued
  BY <1>2, <1>9 DEF Released, Queued
<1>11. Freed' = Freed /\ Open("audio")' = Open("audio")
  BY <1>2, <1>10 DEF Freed, Open
<1>12. AudioTypes'
  BY <1>2, <1>8, <1>9, <1>10 DEF AudioInv, AudioTypes
<1>13. AudioMarked'
  BY <1>2, <1>10 DEF AudioInv, AudioMarked
<1>14. AudioHeld'
  <2>1. AudioInLine => AudioInLine'
    BY <1>2, <1>10, <1>11 DEF AudioInLine
  <2>2. AudioTurned => AudioTurned'
    BY <1>2, <1>10, <1>11 DEF AudioTurned
  <2> QED BY <1>2, <1>10, <1>11, <2>1, <2>2 DEF AudioInv, AudioHeld
<1>15. AudioTaken'
  <2>1. Released <= n + 1 /\ n + 1 <= xa.filled
    BY <1>1, <1>2
  <2>2. \A k \in 1..n + 1 : k \in 1..n \/ k = n + 1
    BY <1>1
  <2>3. \A k \in 1..n + 1 : taken'.audio[k] = stored.audio[k]
    BY <1>8, <2>2 DEF AudioInv, AudioTaken, n, e
  <2>4. Released' <= Len(taken'.audio) /\ Len(taken'.audio) <= xa'.filled /\ xa'.filled <= Queued'
    BY <1>1, <1>8, <1>9, <1>10, <2>1
  <2>5. \A k \in 1..Len(taken'.audio) : taken'.audio[k] = stored'.audio[k]
    BY <1>2, <1>8, <2>3
  <2> QED BY <2>4, <2>5 DEF AudioTaken
<1>16. Streaming'
  <2>1. xa'.upload_block = Slot(n + 1)
    BY <1>1, <1>3, <1>9, BlocksFollow
  <2>2. xa'.playing \in BOOLEAN
    BY <1>6, <1>9
  <2> QED BY <1>3, <1>8, <1>9, <2>1, <2>2 DEF Streaming
<1>17. AudioRead'
  <2>1. AudioTurned' <=> AudioTurned
    BY <1>2, <1>10, <1>11 DEF AudioTurned
  <2>2. NextEntry' = NextEntry
    BY <1>2 DEF NextEntry
  <2> QED BY <1>2, <1>10, <2>1, <2>2 DEF AudioInv, AudioRead
<1> QED BY <1>12, <1>13, <1>14, <1>15, <1>16, <1>17 DEF AudioInv

LEMMA QueueAudioStep ==
    ASSUME Shapes, Producing, AudioInv, Foreground, QueueAudio PROVE AudioInv'
<1> DEFINE k == xa.filled + 1
<1>1. /\ AudioCapacity \in Nat /\ BlockSectors \in Nat /\ BlockSectors > 0
      /\ audio.buffered \in Nat /\ taken.audio \in Seq(Places)
      /\ Queued \in Nat /\ Released \in Nat /\ Freed \in Nat /\ xa.filled \in Nat
      /\ Len(taken.audio) \in Nat /\ Released <= Len(taken.audio)
      /\ Len(taken.audio) <= xa.filled /\ xa.filled <= Queued /\ Released <= xa.filled
  BY AudioFacts
<1>2. fg.at = "compare_audio" /\ Goto("prime") /\ UNCHANGED <<producer, stored, aslots>>
  BY DEF QueueAudio, Foreground, others
<1>3. Freed = Released
  BY <1>2, AudioFacts
<1>4. fg'.at = "prime" /\ fg'.local = fg.local
  BY <1>2, FgGoes
<1>5. /\ Released < Queued /\ audio.r.read # AudioCapacity /\ fg.local = NextEntry
      /\ fg.local \in Nat /\ audio.buffered = Sectors(xa.filled - Released)
  BY <1>2 DEF AudioInv, AudioRead, AudioTypes
<1>6. /\ xa.filled < Queued => fg.local = BlockAt(xa.filled)
      /\ xa.filled = Queued => fg.local = audio.r.write /\ audio.buffered # 0
  BY <1>2, <1>5, NextEntryTold
<1>7. CASE fg.local = audio.r.write /\ audio.buffered # 0
  <2>1. UNCHANGED <<audio, xa, taken>>
    BY <1>7 DEF QueueAudio
  <2>2. AudioRead'
    BY <1>4, <1>5, <2>1 DEF AudioRead
  <2> QED BY <1>2, <1>4, <1>5, <2>1, <2>2, AudioLooks
<1>8. CASE ~(fg.local = audio.r.write /\ audio.buffered # 0)
  <2>1. xa.filled < Queued /\ fg.local = BlockAt(xa.filled)
    BY <1>1, <1>6, <1>8
  <2>2. k \in Freed + 1..Queued /\ k - 1 = xa.filled
    BY <1>1, <1>3, <2>1
  <2> HIDE DEF k
  <2>3. aslots[fg.local].count = BlockSectors /\ fg.local \in DOMAIN aslots
    BY <2>1, <2>2, BlockFound
  <2>4. /\ audio' = [audio EXCEPT !.buffered = @ + BlockSectors] /\ AdvanceFrame
    BY <1>8, <2>3 DEF QueueAudio
  <2>5. audio'.r = audio.r /\ audio'.buffered = audio.buffered + BlockSectors
    BY <2>4 DEF Shapes
  <2>6. /\ xa'.filled = k /\ xa'.fill_block = NextBlock(xa.fill_block)
        /\ IF xa.waiting /\ NextBlock(xa.fill_block) >= StartFillBlock
           THEN /\ xa'.waiting = FALSE /\ xa'.playing = TRUE
                /\ xa'.upload_block = NextBlock(NextBlock(0))
                /\ taken'.audio = <<EntryAt(aslots, 0), EntryAt(aslots, BlockSectors)>>
           ELSE /\ xa'.waiting = xa.waiting /\ xa'.playing = xa.playing
                /\ xa'.upload_block = xa.upload_block /\ taken' = taken
    BY <2>4 DEF AdvanceFrame, Shapes, k
  <2> DEFINE d == xa.filled - Released
             c == d + 1
  <2>7. d \in Int /\ c \in Nat /\ 1 \in Int /\ k - c = Released /\ k - Released = c
    BY <1>1 DEF k
  <2>8. audio'.buffered = Sectors(c)
    <3> HIDE DEF d
    <3>1. Sectors(d + 1) = Sectors(d) + Sectors(1) /\ Sectors(1) = BlockSectors
      BY <2>7, SectorsFacts
    <3> QED BY <1>5, <2>5, <3>1 DEF d
  <2> HIDE DEF d, c
  <2>9. audio'.buffered \div BlockSectors = c
    BY <2>7, <2>8, SectorsDivided
  <2>10. Released' = Released
    BY <2>6, <2>7, <2>9 DEF Released
  <2>11. Freed' = Freed /\ Queued' = Queued /\ Open("audio")' = Open("audio")
    BY <1>2, <1>4, <2>10 DEF Freed, Queued, Open
  <2>12. AudioMarked'
    BY <1>2, <2>5, <2>10, <2>11 DEF AudioInv, AudioMarked
  <2>13. AudioHeld'
    <3>1. AudioInLine => AudioInLine'
      BY <2>5, <2>11 DEF AudioInLine
    <3>2. AudioTurned => AudioTurned'
      BY <2>5, <2>11 DEF AudioTurned
    <3> QED BY <1>2, <2>5, <2>11, <3>1, <3>2 DEF AudioInv, AudioHeld
  <2>14. AudioRead'
    BY <1>4, <1>5, <2>5 DEF AudioRead
  <2>15. k <= Queued /\ k \in Nat /\ xa.filled <= k
    BY <1>1, <2>1 DEF k
  <2>16. ASSUME taken'.audio \in Seq(Places) PROVE AudioTypes'
    <3>1. audio'.buffered \in Nat
      BY <1>1, <2>5
    <3>2. audio'.buffered = Sectors(xa'.filled - Released')
      BY <2>6, <2>7, <2>8, <2>10
    <3> QED BY <1>2, <1>4, <2>5, <2>6, <2>15, <2>16, <3>1, <3>2 DEF AudioInv, AudioTypes
  <2>17. CASE xa.waiting /\ NextBlock(xa.fill_block) >= StartFillBlock
    <3>1. /\ Len(taken.audio) = 0 /\ xa.filled < 2 /\ xa.fill_block = xa.filled
      BY <2>17 DEF AudioInv, Streaming, StartFillBlock
    <3>2. xa.filled = 1
      <4>1. Blocks \in Nat /\ Blocks > 2
        BY Capacities
      <4> QED BY <1>1, <2>17, <3>1, <4>1 DEF NextBlock, StartFillBlock
    <3>3. Released = 0 /\ k = 2 /\ Queued >= 2
      BY <1>1, <3>1, <3>2, <2>15 DEF k
    <3>4. BlockAt(0) = 0 /\ BlockAt(1) = BlockSectors
      BY FirstSlots, SectorsFacts DEF BlockAt
    <3>5. EntryAt(aslots, 0) = stored.audio[1] /\ EntryAt(aslots, BlockSectors) = stored.audio[2]
      <4>1. 1 \in Freed + 1..Queued /\ 2 \in Freed + 1..Queued
        BY <1>1, <1>3, <3>3
      <4>2. 1 - 1 = 0 /\ 2 - 1 = 1
        OBVIOUS
      <4>3. EntryAt(aslots, BlockAt(1 - 1)) = stored.audio[1]
            /\ EntryAt(aslots, BlockAt(2 - 1)) = stored.audio[2]
        BY <4>1, BlockFound
      <4> QED BY <3>4, <4>2, <4>3
    <3>6. /\ taken'.audio = <<stored.audio[1], stored.audio[2]>>
          /\ stored.audio[1] \in Places /\ stored.audio[2] \in Places
      <4>1. 1 \in 1..Len(stored.audio) /\ 2 \in 1..Len(stored.audio)
        BY <1>1, <3>3 DEF Queued
      <4> QED BY <2>6, <2>17, <3>5, <4>1, PlaceType DEF Producing
    <3>7. /\ taken'.audio \in Seq(Places) /\ Len(taken'.audio) = 2
          /\ taken'.audio[1] = stored.audio[1] /\ taken'.audio[2] = stored.audio[2]
      BY <3>6
    <3>8. AudioTaken'
      <4>1. \A j \in 1..2 : j = 1 \/ j = 2
        OBVIOUS
      <4>2. \A j \in 1..Len(taken'.audio) : taken'.audio[j] = stored'.audio[j]
        BY <1>2, <3>7, <4>1
      <4>3. Released' <= 2 /\ xa'.filled = 2 /\ xa'.filled <= Queued'
        BY <2>6, <2>10, <2>11, <2>15, <3>3
      <4> QED BY <3>7, <4>2, <4>3 DEF AudioTaken
    <3>9. Streaming'
      <4>1. NextBlock(NextBlock(0)) = Slot(2)
        <5>1. NextBlock(Slot(0)) = Slot(0 + 1) /\ NextBlock(Slot(1)) = Slot(1 + 1)
          BY BlocksFollow
        <5> QED BY <5>1, FirstSlots
      <4> QED BY <2>6, <2>17, <3>7, <4>1 DEF Streaming
    <3> QED BY <2>12, <2>13, <2>14, <2>16, <3>7, <3>8, <3>9 DEF AudioInv
  <2>18. CASE ~(xa.waiting /\ NextBlock(xa.fill_block) >= StartFillBlock)
    <3>1. /\ xa'.waiting = xa.waiting /\ xa'.playing = xa.playing
          /\ xa'.upload_block = xa.upload_block /\ taken' = taken
      BY <2>6, <2>18
    <3>2. AudioTaken'
      <4>1. Len(taken.audio) <= k
        BY <1>1 DEF k
      <4> QED BY <1>2, <2>6, <2>10, <2>11, <2>15, <3>1, <4>1 DEF AudioInv, AudioTaken
    <3>3. Streaming'
      <4>1. xa.waiting => xa'.filled < StartFillBlock /\ xa'.fill_block = xa'.filled
        <5> SUFFICES ASSUME xa.waiting
                     PROVE  xa'.filled < StartFillBlock /\ xa'.fill_block = xa'.filled
          OBVIOUS
        <5>1. xa.filled < 2 /\ xa.fill_block = xa.filled
          BY DEF AudioInv, Streaming, StartFillBlock
        <5>2. Blocks \in Nat /\ Blocks > 2
          BY Capacities
        <5>3. NextBlock(xa.fill_block) = xa.filled + 1
          BY <1>1, <5>1, <5>2 DEF NextBlock
        <5>4. xa.filled + 1 < 2
          BY <1>1, <2>18, <5>3 DEF StartFillBlock
        <5> QED BY <2>6, <5>3, <5>4 DEF k, StartFillBlock
      <4> QED BY <3>1, <4>1 DEF AudioInv, Streaming
    <3> QED BY <1>1, <2>12, <2>13, <2>14, <2>16, <3>1, <3>2, <3>3 DEF AudioInv
  <2> QED BY <2>17, <2>18
<1> QED BY <1>7, <1>8

LEMMA AudioUpdate ==
    ASSUME Shapes, Producing, VideoInv, VideoInv', AudioInv, Foreground PROVE AudioInv'
<1>1. UNCHANGED <<producer, stored, aslots>>
  BY DEF Foreground, others
<1>2. fg.local \in Nat
  BY DEF AudioInv, AudioTypes
<1>3. xa' = xa => xa' = xa \/ xa' = [xa EXCEPT !.paused = xa'.paused]
  OBVIOUS
<1>4. CASE Check \/ UpdateBegin \/ WrapVideo \/ LookAgainForVideo \/ AdvanceVideo
  <2>1. UNCHANGED <<audio, xa, taken>>
    BY <1>4 DEF Check, UpdateBegin, WrapVideo, LookAgainForVideo, AdvanceVideo
  <2>2. fg.at # "release_audio"
    BY <1>4 DEF Check, UpdateBegin, WrapVideo, LookAgainForVideo, AdvanceVideo
  <2>3. \E place \in {"over", "update", "audio", "expanding", "video", "look_again", "begin"} :
          fg' = [fg EXCEPT !.at = place]
    BY <1>4 DEF Check, UpdateBegin, WrapVideo, LookAgainForVideo, NoVideo, AdvanceVideo, Goto
  <2>4. /\ fg'.at \in {"over", "update", "audio", "expanding", "video", "look_again", "begin"}
        /\ fg'.local = fg.local
    BY <2>3 DEF Shapes
  <2>5. fg'.at \notin {"wrap_audio", "next_audio", "compare_audio", "prime", "resumed",
                       "position", "release_audio"}
    BY <2>4
  <2> QED BY <1>1, <1>2, <2>1, <2>2, <2>4, <2>5, AudioPassed
<1>5. CASE BeginFrame \/ Expand
  <2>1. UNCHANGED <<audio, xa, taken>> /\ fg.at # "release_audio"
    BY <1>5 DEF BeginFrame, Expand
  <2>2. \E place \in {"expanded", "audio"} : \E x : fg' = [fg EXCEPT !.at = place, !.vlc = x]
    <3>1. \/ fg' = [fg EXCEPT !.at = "expanded", !.vlc = fg.vlc]
          \/ \E x : fg' = [fg EXCEPT !.at = "expanded", !.vlc = x]
          \/ \E x : fg' = [fg EXCEPT !.at = "audio", !.vlc = x]
      BY <1>5 DEF BeginFrame, Expand, Shapes
    <3> QED BY <3>1
  <2>3. fg'.at \in {"expanded", "audio"} /\ fg'.local = fg.local
    BY <2>2 DEF Shapes
  <2> QED BY <1>1, <1>2, <2>1, <2>3, AudioPassed
<1>6. CASE LookForVideo \/ ReleaseVideo
  <2>1. UNCHANGED <<audio, xa>> /\ taken'.audio = taken.audio /\ fg.at # "release_audio"
    BY <1>6 DEF LookForVideo, ReleaseVideo, Shapes
  <2>2. \E place \in {"audio", "wrap_video", "release_video"} : \E x :
          /\ fg' = [fg EXCEPT !.at = place, !.local = x]
          /\ place = "audio" => x = fg.local
    <3>1. \/ fg' = [fg EXCEPT !.at = "audio"]
          \/ \E x : fg' = [fg EXCEPT !.at = "wrap_video", !.local = x]
          \/ \E x : fg' = [fg EXCEPT !.at = "release_video", !.local = x]
      BY <1>6 DEF LookForVideo, ReleaseVideo, NoVideo, Goto
    <3>2. fg' = [fg EXCEPT !.at = "audio"]
            => fg' = [fg EXCEPT !.at = "audio", !.local = fg.local]
      BY DEF Shapes
    <3> QED BY <3>1, <3>2
  <2>3. /\ fg'.at \in {"audio", "wrap_video", "release_video"}
        /\ fg'.at = "audio" => fg'.local = fg.local
    BY <2>2 DEF Shapes
  <2>4. fg'.local \in Nat
    BY <1>2, <2>3 DEF VideoInv, VideoTypes
  <2> QED BY <1>1, <2>1, <2>3, <2>4, AudioPassed
<1>7. CASE ResumeAudio \/ NoteResumed
  <2>1. UNCHANGED <<audio, taken>> /\ fg.at \in {"prime", "resumed"}
    BY <1>7 DEF ResumeAudio, NoteResumed
  <2>2. \E place \in {"resumed", "position"} : fg' = [fg EXCEPT !.at = place]
    BY <1>7 DEF ResumeAudio, NoteResumed, Goto
  <2>3. fg'.at \in {"resumed", "position"} /\ fg'.local = fg.local
    BY <2>2 DEF Shapes
  <2>4. xa' = xa \/ xa' = [xa EXCEPT !.paused = xa'.paused]
    <3>1. xa' = xa \/ xa' = [xa EXCEPT !.paused = FALSE]
      BY <1>7 DEF ResumeAudio, NoteResumed
    <3>2. xa' = [xa EXCEPT !.paused = FALSE] => xa'.paused = FALSE
      BY DEF Shapes
    <3> QED BY <3>1, <3>2
  <2> QED BY <1>1, <1>2, <2>1, <2>3, <2>4, AudioPassed
<1> QED
  BY <1>4, <1>5, <1>6, <1>7, LookForAudioStep, WrapAudioStep, NextAudioStep, QueueAudioStep,
     ReleaseAudioStep, AdvanceAudioStep
  DEF Foreground, Update

RingsInv == Shapes /\ VideoInv /\ AudioInv

LEMMA RingsStep ==
    ASSUME ~CompareWindow, RingsInv, [Next]_vars PROVE RingsInv'
<1>1. Shapes /\ VideoInv /\ AudioInv /\ Producing
  BY DEF RingsInv, VideoInv
<1>2. Shapes' /\ VideoInv'
  BY <1>1, ShapesStep, VideoStep
<1>3. fg.local \in Nat
  BY <1>1 DEF AudioInv, AudioTypes
<1>4. CASE SectorReady
  BY <1>1, <1>2, <1>4, AudioSector DEF RingsInv
<1>5. CASE Foreground
  BY <1>1, <1>2, <1>5, AudioUpdate DEF RingsInv
<1>6. CASE Refill
  BY <1>1, <1>2, <1>6, RefillStep DEF RingsInv
<1>7. CASE DriveFails
  <2>1. UNCHANGED <<producer, stored, aslots, audio, taken, fg>>
        /\ xa' = [xa EXCEPT !.paused = xa.playing]
    BY <1>7 DEF DriveFails
  <2>2. xa'.paused = xa.playing
    BY <1>1, <2>1 DEF Shapes
  <2>3. AudioInv'
    BY <1>1, <1>3, <2>1, <2>2, AudioPassed
  <2> QED BY <1>2, <2>3 DEF RingsInv
<1>8. CASE DriveRecovers \/ ImageDone \/ UNCHANGED vars
  <2>1. UNCHANGED <<producer, stored, aslots, audio, taken, fg, xa>>
    BY <1>8 DEF DriveRecovers, ImageDone, others, vars
  <2>2. AudioInv'
    BY <1>1, <1>3, <2>1, AudioPassed
  <2> QED BY <1>2, <2>2 DEF RingsInv
<1> QED BY <1>4, <1>5, <1>6, <1>7, <1>8 DEF Next

LEMMA RingsAlways == ASSUME ~CompareWindow PROVE Spec => []RingsInv
<1>1. Init => RingsInv
  BY ShapesInit, VideoInit, AudioInit DEF RingsInv
<1>2. RingsInv /\ [Next]_vars => RingsInv'
  BY RingsStep
<1> QED BY <1>1, <1>2, PTL DEF Spec

(***************************************************************************)
(* The SPU takes the audio blocks once each, whole and in the order the    *)
(* producer completed them, for every size of ring and block, as long as   *)
(* no sector lands inside the last test of get_next_audio_entry            *)
(* (advance_audio_read, akao_xa_get_position, akao_xa_refill_ring).        *)
(***************************************************************************)
THEOREM AudioKeepsOrder == ASSUME ~CompareWindow PROVE Spec => []AudioInOrder
<1>1. RingsInv => AudioInOrder
  <2> SUFFICES ASSUME RingsInv PROVE AudioInOrder
    OBVIOUS
  <2>1. Shapes /\ Producing /\ AudioInv
    BY DEF RingsInv, VideoInv
  <2>2. /\ taken.audio \in Seq(Places) /\ stored.audio \in Seq(Places)
        /\ Len(taken.audio) <= Len(stored.audio)
    BY <2>1, AudioFacts DEF Queued
  <2>3. \A k \in 1..Len(taken.audio) : taken.audio[k] = stored.audio[k]
    BY <2>1 DEF AudioInv, AudioTaken
  <2> QED BY <2>2, <2>3, PrefixTold DEF AudioInOrder
<1> QED BY <1>1, RingsAlways, PTL

(***************************************************************************)
(* No block is announced to the SPU before the producer has completed it,  *)
(* or twice, under the same proviso (get_next_audio_entry).                *)
(***************************************************************************)
THEOREM NeverAnnouncedEarly == ASSUME ~CompareWindow PROVE Spec => []AnnouncedOnce
<1>1. RingsInv => AnnouncedOnce
  BY DEF RingsInv, AudioInv, AudioTaken, AnnouncedOnce, Queued
<1> QED BY <1>1, RingsAlways, PTL

(***************************************************************************)
(* What get_next_audio_entry is about to return is an entry of the ring,   *)
(* if no sector lands inside its last test; the run movie_audio_entry      *)
(* shows that it may not be if one does.                                   *)
(***************************************************************************)
THEOREM EntryValidOutsideWindow ==
    ASSUME ~CompareWindow PROVE Spec => []AudioEntryValid
<1>1. RingsInv => AudioEntryValid
  <2> SUFFICES ASSUME RingsInv, fg.at = "compare_audio",
                      fg.local # audio.r.write \/ audio.buffered = 0
               PROVE  fg.local \in DOMAIN aslots
    BY DEF AudioEntryValid
  <2>1. Shapes /\ Producing /\ AudioInv
    BY DEF RingsInv, VideoInv
  <2>2. /\ Released < Queued /\ audio.r.read # AudioCapacity /\ fg.local = NextEntry
    BY <2>1 DEF AudioInv, AudioRead
  <2>3. /\ xa.filled \in Nat /\ Queued \in Nat /\ Released \in Nat /\ Freed = Released
        /\ Released <= xa.filled /\ xa.filled <= Queued
    BY <2>1, AudioFacts
  <2>4. xa.filled < Queued /\ fg.local = BlockAt(xa.filled)
    BY <2>1, <2>2, <2>3, NextEntryTold
  <2> DEFINE k == xa.filled + 1
  <2>5. k \in Freed + 1..Queued /\ k - 1 = xa.filled
    BY <2>3, <2>4
  <2> HIDE DEF k
  <2> QED BY <2>1, <2>4, <2>5, BlockFound
<1> QED BY <1>1, RingsAlways, PTL

(***************************************************************************)
(* No index leaves its ring, the queued count never exceeds the ring, and  *)
(* the block to upload is one of the SPU's, under the same proviso         *)
(* (cd_sector_callback, movie_update, akao_xa_refill_ring).                *)
(***************************************************************************)
THEOREM RingsTyped == ASSUME ~CompareWindow PROVE Spec => []TypeOK
<1>1. RingsInv => TypeOK
  <2> SUFFICES ASSUME RingsInv PROVE TypeOK
    OBVIOUS
  <2>1. Shapes /\ Producing /\ VideoInv /\ AudioInv
    BY DEF RingsInv, VideoInv
  <2>2. audio.buffered \in 0..AudioCapacity
    <3> DEFINE d == xa.filled - Released
    <3>1. /\ xa.filled \in Nat /\ Released \in Nat /\ Freed \in Nat /\ Queued \in Nat
          /\ xa.filled <= Queued /\ Freed <= Released /\ audio.buffered \in Nat
          /\ AudioCapacity \in Nat
      BY <2>1, AudioFacts
    <3>2. Queued - Freed <= Blocks /\ Blocks \in Int
      BY <2>1, AudioLies, Capacities
    <3>3. d \in Int /\ d <= Blocks
      BY <3>1, <3>2
    <3>4. audio.buffered = Sectors(d)
      BY <2>1 DEF AudioInv, AudioTypes
    <3> HIDE DEF d
    <3>5. Sectors(d) <= Sectors(Blocks) /\ Sectors(Blocks) = AudioCapacity
      BY <3>2, <3>3, SectorsOrder, SectorsFacts
    <3> QED BY <3>1, <3>4, <3>5
  <2>3. xa.upload_block \in -1..Blocks - 1
    <3>1. Len(taken.audio) \in Nat /\ Blocks \in Nat /\ Blocks > 2
      BY <2>1, AudioFacts, Capacities
    <3>2. Slot(Len(taken.audio)) \in 0..Blocks - 1
      BY <3>1, BlocksFollow
    <3>3. xa.upload_block = -1 \/ xa.upload_block = Slot(Len(taken.audio))
      BY <2>1 DEF AudioInv, Streaming, UPLOAD_NONE
    <3> QED BY <3>1, <3>2, <3>3
  <2>4. /\ RingOK(video, VideoCapacity) /\ RingOK(audio.r, AudioCapacity)
        /\ vslots \in [0..VideoCapacity - 1 -> Sector \cup {Blank}]
        /\ aslots \in [0..AudioCapacity - 1 -> Sector \cup {Blank}]
        /\ fg.vlc \in 0..VlcRetries /\ fg.local \in Nat
    BY <2>1 DEF VideoInv, VideoTypes, AudioInv, AudioTypes
  <2> QED BY <2>1, <2>2, <2>3, <2>4 DEF TypeOK, Shapes
<1> QED BY <1>1, RingsAlways, PTL
=============================================================================
