---------------------------- MODULE MovieOutput ----------------------------
(***************************************************************************)
(* From the expanded frame to the shown image, in the standard GPU mode    *)
(* (src/src/overlays/movie/movie_stream.c, movie.c).  A frame is expanded  *)
(* into one of two input buffers; the MDEC turns it into slices, each in   *)
(* one of two output buffers; a slice is uploaded into the image that is   *)
(* being built, while the other image is shown.                            *)
(*                                                                         *)
(* Three parties share the fields: the foreground (movie_play,             *)
(* movie_update, movie_service_video_ops), the MDEC's output interrupt and *)
(* the GPU's draw-sync callback.  A callback is one step; the foreground   *)
(* is one step per look at a field a callback writes, or store to one.     *)
(*                                                                         *)
(* The MDEC, the GPU and their libraries are external: DecDCTout asks for  *)
(* one slice, LoadImage queues an upload that reads its buffer when it is  *)
(* carried out, DrawSync counts the uploads not yet carried out, and the   *)
(* callback follows the last of them.  Frames come as MovieRings delivers  *)
(* them: whole and in order, or not at all.                                *)
(***************************************************************************)
EXTENDS Integers, Sequences

CONSTANTS
    Slices,         \* slices of an image: rects[].w / STANDARD_DECODE_RECT_WIDTH
    DeferThreshold, \* DRAW_SYNC_DEFER_THRESHOLD
    VlcRetries,     \* STANDARD_VLC_RETRY_COUNT
    TotalFrames,    \* total_frames
    SliceWindow     \* whether a slice may be asked for and finished between
                    \* two neighbouring steps of movie_service_video_ops

(* Two output buffers leave room for two uploads. *)
ASSUME OutputAssumption ==
    /\ Slices \in Nat \ {0} /\ VlcRetries \in Nat /\ TotalFrames \in Nat \ {0}
    /\ DeferThreshold \in 1..2 /\ SliceWindow \in BOOLEAN

Buffers == {0, 1}
Nothing == [frame |-> 0, slice |-> 0]

VARIABLES
    coming,     \* the next frame, how many have come, and end_of_stream
    inbuf,      \* vlc_input_buf: the frame, and whether it is all there
    vlc,        \* input_buf_idx, vlc_retry_count and mdec_retry_pending
    reading,    \* the input buffer the MDEC reads, and the slice it is at
    out,        \* the fields and requests of the output pipeline
    outbuf,     \* mdec_output_buf: frame and slice
    busy,       \* video_service_busy
    drained,    \* the draw-sync callback is due
    vram,       \* the two images, slice by slice
    display,    \* the one on the screen
    at          \* the foreground's place

vars == <<coming, inbuf, vlc, reading, out, outbuf, busy, drained, vram, display, at>>

Init ==
    /\ coming = [next |-> 1, ready |-> 0, end_of_stream |-> FALSE]
    /\ inbuf = [b \in Buffers |-> [frame |-> 0, whole |-> FALSE]]
    /\ vlc = [input_buf_idx |-> 0, retry_count |-> 0, retry_pending |-> FALSE]
    /\ reading = [buf |-> 0, slice |-> Slices]
    /\ out = [out_buf_idx |-> 0, x |-> 0, chunk_idx |-> 0,
              pending_vram_upload |-> FALSE, pending_mdec_decode |-> FALSE,
              draw_sync_target |-> 0, mdec_busy |-> "idle", frame_ready |-> FALSE,
              end_state |-> "running",
              requests |-> <<>>,     \* slices asked for: their output buffers
              uploads |-> <<>>]      \* slices on their way: buffer and place
    /\ outbuf = [b \in Buffers |-> Nothing]
    /\ busy = FALSE /\ drained = FALSE
    /\ vram = [c \in {0, 1} |-> [s \in 0..Slices - 1 |-> Nothing]]
    /\ display = 1
    /\ at = "check"

-----------------------------------------------------------------------------
(* What the parties do to the pipeline *)

DrawSync(o) == Len(o.uploads)
LoadImage(o) ==
    [o EXCEPT !.uploads = Append(@, [buf |-> o.out_buf_idx, chunk |-> o.chunk_idx, slice |-> o.x])]
DecDCTout(o) == [o EXCEPT !.requests = Append(@, o.out_buf_idx)]

(* Slip of Deferred: one upload more is let through. *)
DeferredLate(status) == status > DeferThreshold

Deferred(status) == status >= DeferThreshold

(* movie_schedule_next_decode: the slice is on its way, the other buffer is *)
(* free for the next.                                                       *)
Advanced(o) == [o EXCEPT !.out_buf_idx = 1 - @, !.x = @ + 1]

MoreSlices(o) == o.x < Slices

(* Slip of Published: the last image does not end the movie. *)
PublishedOn(o) ==
    [o EXCEPT !.x = 0, !.chunk_idx = 1 - @, !.frame_ready = TRUE, !.mdec_busy = "idle"]

(* At the right edge the image is published and the other one begun. *)
Published(o) ==
    [o EXCEPT !.x = 0, !.chunk_idx = 1 - @, !.frame_ready = TRUE, !.mdec_busy = "idle",
              !.end_state = IF @ = "near_end" THEN "done" ELSE @]

PutOff(o) == [o EXCEPT !.mdec_busy = "active", !.pending_mdec_decode = TRUE]

(* Slip of Scheduled: the next slice is asked for whatever is outstanding. *)
ScheduledNow(o) ==
    LET a == Advanced(o)
    IN IF MoreSlices(a) THEN [DecDCTout(a) EXCEPT !.mdec_busy = "chained"] ELSE Published(a)

Scheduled(o) ==
    LET a == Advanced(o)
    IN CASE ~MoreSlices(a)                                    -> Published(a)
         [] MoreSlices(a) /\ Deferred(a.draw_sync_target)     -> PutOff(a)
         [] MoreSlices(a) /\ ~Deferred(a.draw_sync_target)    ->
              [DecDCTout(a) EXCEPT !.mdec_busy = "chained"]

(* movie_mdec_out_callback: upload now, or once the GPU has caught up. *)
SliceOut(o) ==
    IF Deferred(DrawSync(o))
    THEN [o EXCEPT !.pending_vram_upload = TRUE, !.mdec_busy = "active"]
    ELSE LET u == [LoadImage(o) EXCEPT !.draw_sync_target = DrawSync(o) + 1]
         IN IF u.pending_vram_upload THEN [u EXCEPT !.mdec_busy = "active"] ELSE Scheduled(u)

UploadPending(o) ==
    IF o.pending_vram_upload
    THEN [Scheduled(LoadImage(o)) EXCEPT !.pending_vram_upload = FALSE] ELSE o

DecodePending(o) ==
    IF o.pending_mdec_decode
    THEN [DecDCTout(o) EXCEPT !.pending_mdec_decode = FALSE] ELSE o

(* draw_sync_callback *)
Drained(o) == DecodePending(UploadPending([o EXCEPT !.draw_sync_target = 0]))

-----------------------------------------------------------------------------
(* The hardware and its interrupts *)

(* From its look at the GPU to the store behind its request the foreground *)
(* goes through a few instructions, and no slice is ever as short.         *)
InWindow == at \in {"claim", "guard", "decode", "clear_decode"}

(* A slice is finished and its interrupt handled. *)
SliceDone ==
    /\ out.requests # <<>> /\ reading.slice < Slices
    /\ SliceWindow \/ ~InWindow
    /\ outbuf' = [outbuf EXCEPT ![Head(out.requests)] =
                    [frame |-> inbuf[reading.buf].frame, slice |-> reading.slice]]
    /\ reading' = [reading EXCEPT !.slice = @ + 1]
    /\ out' = SliceOut([out EXCEPT !.requests = Tail(@)])
    /\ UNCHANGED <<coming, inbuf, vlc, busy, drained, vram, display, at>>

UploadDone ==
    /\ out.uploads # <<>>
    /\ LET u == Head(out.uploads) IN vram' = [vram EXCEPT ![u.chunk][u.slice] = outbuf[u.buf]]
    /\ out' = [out EXCEPT !.uploads = Tail(@)]
    /\ drained' = (Len(out.uploads) = 1)
    /\ UNCHANGED <<coming, inbuf, vlc, reading, outbuf, busy, display, at>>

(* The foreground at work on the same requests keeps the callback out. *)
DrawSyncCallback ==
    /\ drained /\ out.uploads = <<>>
    /\ drained' = FALSE
    /\ out' = IF busy THEN out ELSE Drained(out)
    /\ UNCHANGED <<coming, inbuf, vlc, reading, outbuf, busy, vram, display, at>>

(* Another frame is complete in the ring, or the stream ends before it. *)
FrameComes ==
    /\ ~coming.end_of_stream /\ coming.ready < TotalFrames
    /\ \/ coming' = [coming EXCEPT !.ready = @ + 1]
       \/ coming' = [coming EXCEPT !.end_of_stream = TRUE]
    /\ UNCHANGED <<inbuf, vlc, reading, out, outbuf, busy, drained, vram, display, at>>

-----------------------------------------------------------------------------
(* movie_update *)

(* Slip of Free: the next frame goes out before the last one is on the screen. *)
FreeEarly == out.mdec_busy = "idle"

Free == out.mdec_busy = "idle" /\ ~out.frame_ready

(* The expanded frame goes to the MDEC, and its first slice is asked for. *)
Submit ==
    /\ out' = DecDCTout([out EXCEPT !.mdec_busy = "active"])
    /\ reading' = [buf |-> vlc.input_buf_idx, slice |-> 0]

(* A frame that found the MDEC busy is tried again first. *)
Retry ==
    /\ at = "update"
    /\ IF vlc.retry_pending /\ Free
       THEN Submit /\ vlc' = [vlc EXCEPT !.retry_pending = FALSE]
       ELSE UNCHANGED <<out, reading, vlc>>
    /\ at' = IF vlc'.retry_pending THEN "updated" ELSE "vlc"
    /\ UNCHANGED <<coming, inbuf, busy, display>>

NextFrame ==
    /\ at = "vlc" /\ vlc.retry_count = 0 /\ coming.next <= coming.ready
    /\ coming' = [coming EXCEPT !.next = @ + 1]
    /\ out' = IF coming.next >= TotalFrames /\ out.end_state = "running"
              THEN [out EXCEPT !.end_state = "near_end"] ELSE out
    /\ vlc' = [vlc EXCEPT !.input_buf_idx = 1 - @, !.retry_count = VlcRetries]
    /\ inbuf' = [inbuf EXCEPT ![vlc'.input_buf_idx] = [frame |-> coming.next, whole |-> FALSE]]
    /\ at' = "expand"
    /\ UNCHANGED <<reading, busy, display>>

(* No frame is there; interrupts may come before Exhausted looks at        *)
(* end_of_stream.                                                          *)
NoFrame ==
    /\ at = "vlc" /\ vlc.retry_count = 0 /\ coming.next > coming.ready
    /\ at' = "exhausted"
    /\ UNCHANGED <<coming, inbuf, vlc, reading, out, busy, display>>

Exhausted ==
    /\ at = "exhausted"
    /\ out' = IF coming.end_of_stream /\ out.mdec_busy = "idle"
              THEN [out EXCEPT !.end_state = "done"] ELSE out
    /\ at' = "updated"
    /\ UNCHANGED <<coming, inbuf, vlc, reading, busy, display>>

Continue ==
    /\ at = "vlc" /\ vlc.retry_count > 0
    /\ vlc' = [vlc EXCEPT !.retry_count = @ - 1]
    /\ at' = "expand"
    /\ UNCHANGED <<coming, inbuf, reading, out, busy, display>>

(* The portion at work ends the frame or not; the last one always does. *)
Expand ==
    /\ at = "expand"
    /\ \/ /\ inbuf' = [inbuf EXCEPT ![vlc.input_buf_idx].whole = TRUE]
          /\ vlc' = [vlc EXCEPT !.retry_count = 0]
          /\ at' = "submit"
       \/ vlc.retry_count > 0 /\ at' = "updated" /\ UNCHANGED <<inbuf, vlc>>
    /\ UNCHANGED <<coming, reading, out, busy, display>>

SubmitOrWait ==
    /\ at = "submit"
    /\ IF Free THEN Submit /\ UNCHANGED vlc
       ELSE vlc' = [vlc EXCEPT !.retry_pending = TRUE] /\ UNCHANGED <<out, reading>>
    /\ at' = "updated"
    /\ UNCHANGED <<coming, inbuf, busy, display>>

-----------------------------------------------------------------------------
(* movie_play *)

idle == <<coming, inbuf, vlc, reading>>

(* Behind the update, and at the head of the loop. *)
Check ==
    /\ at \in {"updated", "check"}
    /\ at' = IF out.frame_ready THEN "present"
             ELSE IF at = "check" THEN "update"
             ELSE IF out.end_state = "done" THEN "over" ELSE "service"
    /\ UNCHANGED <<idle, out, busy, display>>

Present ==
    /\ at = "present"
    /\ out' = [out EXCEPT !.frame_ready = FALSE]
    /\ at' = "flip"
    /\ UNCHANGED <<idle, busy, display>>

(* The player waits for the vertical retrace, which is assumed to outlast  *)
(* the image's last uploads; PutDispEnv.  cdrom_process_state services the *)
(* video operations too.                                                   *)
Flip ==
    /\ at = "flip" /\ out.uploads = <<>>
    /\ display' = 1 - out.chunk_idx
    /\ at' = IF out.end_state = "done" THEN "over" ELSE "service"
    /\ UNCHANGED <<idle, out, busy>>

-----------------------------------------------------------------------------
(* movie_service_video_ops *)

(* The pump goes on with the update, or looks for an image first. *)
Leave == at' \in {"update", "check"}
still == <<idle, display>>

Service ==
    /\ at = "service"
    /\ IF out.pending_vram_upload \/ out.pending_mdec_decode THEN at' = "poll" ELSE Leave
    /\ UNCHANGED <<still, out, busy>>

PollGpu ==
    /\ at = "poll"
    /\ IF Deferred(DrawSync(out)) THEN Leave ELSE at' = "claim"
    /\ UNCHANGED <<still, out, busy>>

(* No upload is ever put off (UploadedAtOnce): that branch is left out. *)
Claim ==
    /\ at = "claim"
    /\ IF out.pending_mdec_decode THEN at' = "guard" ELSE Leave
    /\ UNCHANGED <<still, out, busy>>

Guard ==
    /\ at = "guard"
    /\ busy' = TRUE
    /\ at' = "decode"
    /\ UNCHANGED <<still, out>>

(* Slip of StillWanted: the second look is left out. *)
WantedOnce(request) == TRUE

(* A callback may have serviced the request before the flag was claimed. *)
StillWanted(request) == request

Decode ==
    /\ at = "decode"
    /\ IF StillWanted(out.pending_mdec_decode)
       THEN out' = DecDCTout(out) /\ at' = "clear_decode"
       ELSE UNCHANGED out /\ at' = "release"
    /\ UNCHANGED <<still, busy>>

ClearDecode ==
    /\ at = "clear_decode"
    /\ out' = [out EXCEPT !.pending_mdec_decode = FALSE]
    /\ at' = "release"
    /\ UNCHANGED <<still, busy>>

Release ==
    /\ at = "release"
    /\ busy' = FALSE
    /\ Leave
    /\ UNCHANGED <<still, out>>

Foreground ==
    /\ \/ Retry \/ NextFrame \/ NoFrame \/ Exhausted \/ Continue
       \/ Expand \/ SubmitOrWait \/ Check \/ Present \/ Flip
       \/ Service \/ PollGpu \/ Claim \/ Guard \/ Decode \/ ClearDecode \/ Release
    /\ UNCHANGED <<outbuf, drained, vram>>

Next == Foreground \/ SliceDone \/ UploadDone \/ DrawSyncCallback \/ FrameComes

(* The player pumps, the MDEC and the GPU work, the disc goes on. *)
Spec == /\ Init /\ [][Next]_vars
        /\ WF_vars(Foreground) /\ WF_vars(SliceDone) /\ WF_vars(UploadDone)
        /\ WF_vars(DrawSyncCallback) /\ WF_vars(FrameComes)
=============================================================================
