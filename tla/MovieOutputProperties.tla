----------------------- MODULE MovieOutputProperties ------------------------
(***************************************************************************)
(* What the movie's output pipeline promises.                              *)
(***************************************************************************)
EXTENDS MovieOutput, FiniteSets

Frames == 0..TotalFrames
Slice == [frame : Frames, slice : 0..Slices - 1]

(* The values the fields take; at most one slice is asked for at a time.  *)
TypeOK ==
    /\ coming \in [next : 1..TotalFrames + 1, ready : Frames, end_of_stream : BOOLEAN]
    /\ inbuf \in [Buffers -> [frame : Frames, whole : BOOLEAN]]
    /\ vlc \in [input_buf_idx : Buffers, retry_count : 0..VlcRetries, retry_pending : BOOLEAN]
    /\ reading \in [buf : Buffers, slice : 0..Slices]
    /\ out.out_buf_idx \in Buffers /\ out.chunk_idx \in {0, 1} /\ out.x \in 0..Slices - 1
    /\ out.draw_sync_target \in 0..DeferThreshold + 1
    /\ out.mdec_busy \in {"idle", "active", "chained"}
    /\ out.end_state \in {"running", "near_end", "done"}
    /\ Len(out.requests) <= 1 /\ Len(out.uploads) <= DeferThreshold
    /\ outbuf \in [Buffers -> Slice]
    /\ vram \in [{0, 1} -> [0..Slices - 1 -> Slice]]

(***************************************************************************)
(* No buffer is written while another party reads it: a slice is decoded   *)
(* neither over one that waits for its upload nor over one put off, and no *)
(* frame is expanded over the one the MDEC reads (input_buf_idx,           *)
(* out_buf_idx, DRAW_SYNC_DEFER_THRESHOLD).                                *)
(***************************************************************************)
BuffersApart ==
    /\ \A r \in 1..Len(out.requests) :
         /\ ~out.pending_vram_upload
         /\ \A u \in 1..Len(out.uploads) : out.uploads[u].buf # out.requests[r]
    /\ reading.slice < Slices => inbuf[reading.buf].whole

(* What an image in the MDEC is waiting for. *)
Ahead ==
    (IF out.requests # <<>> THEN {"slice"} ELSE {})
      \cup (IF out.pending_vram_upload THEN {"upload"} ELSE {})
      \cup (IF out.pending_mdec_decode THEN {"decode"} ELSE {})

(***************************************************************************)
(* The pending flags "describe what must actually happen next": while an   *)
(* image is in the MDEC either a slice is asked for, or an upload is put   *)
(* off, or a decode is, and otherwise none of them.  The foreground and    *)
(* the two callbacks neither take a step twice nor leave it to each other  *)
(* (movie_service_video_ops, draw_sync_callback, movie_mdec_out_callback). *)
(***************************************************************************)
OneStepAhead ==
    at = "clear_decode" \/ Cardinality(Ahead) = IF out.mdec_busy = "idle" THEN 0 ELSE 1

(* An image as it will be once its uploads are carried out. *)
Image(c) ==
    [s \in 0..Slices - 1 |->
       LET waiting == {u \in 1..Len(out.uploads) :
                         out.uploads[u].chunk = c /\ out.uploads[u].slice = s}
       IN IF waiting = {} THEN vram[c][s]
          ELSE outbuf[out.uploads[CHOOSE u \in waiting : \A v \in waiting : v <= u].buf]]

FrameOf(c) == Image(c)[0].frame

(***************************************************************************)
(* The images shown are consecutive frames, none twice and none skipped,   *)
(* and each is whole: every slice in its place, none of another frame,     *)
(* nothing of the next frame in the image on the screen                    *)
(* (movie_schedule_next_decode, movie_play).  That the last frame is ever  *)
(* shown is not said: END_STATE_NEAR_END may end playback before it.       *)
(***************************************************************************)
ShownInOrder ==
    [][IF display' = display THEN Image(display)' = Image(display)
       ELSE /\ FrameOf(display)' = FrameOf(display) + 1
            /\ \A s \in 0..Slices - 1 :
                 Image(display)'[s] = [frame |-> FrameOf(display)', slice |-> s]]_vars

(***************************************************************************)
(* An upload never waits for the GPU: a slice is asked for only while at   *)
(* most one upload is outstanding, so that the GPU takes it when it is     *)
(* finished, and the branches for a put-off upload are never entered       *)
(* (movie_mdec_out_callback, movie_schedule_next_decode).                  *)
(***************************************************************************)
UploadedAtOnce == ~out.pending_vram_upload

(***************************************************************************)
(* The player comes to the end, whoever services the pending steps and     *)
(* wherever the stream ends (movie_play).                                  *)
(***************************************************************************)
PlaybackEnds == <>(at = "over")
=============================================================================
