------------------------ MODULE MovieOutput_proofs ------------------------
(***************************************************************************)
(* No buffer of the output pipeline is overwritten in use, no upload is    *)
(* put off, and exactly one step is ahead of an image in the MDEC: for     *)
(* every number of slices, frames and retries, as long as no slice fits    *)
(* between two neighbouring steps of movie_service_video_ops.              *)
(***************************************************************************)
EXTENDS MovieOutputProperties, FiniteSetTheorems, SequenceTheorems, TLAPS

Upload == [buf : Buffers, chunk : {0, 1}, slice : 0..Slices - 1]

Output ==
    [out_buf_idx : Buffers, x : Nat, chunk_idx : {0, 1},
     pending_vram_upload : BOOLEAN, pending_mdec_decode : BOOLEAN,
     draw_sync_target : Nat, mdec_busy : {"idle", "active", "chained"}, frame_ready : BOOLEAN,
     end_state : {"running", "near_end", "done"},
     requests : Seq(Buffers), uploads : Seq(Upload)]

(* The last slice sent lies in the buffer that is not next. *)
Alternating(o) == o.uploads # <<>> => o.uploads[Len(o.uploads)].buf = 1 - o.out_buf_idx

(* No more uploads are under way than the threshold lets through, and fewer *)
(* while a slice is being decoded.                                          *)
Asked(o) == o.requests = <<o.out_buf_idx>> /\ Len(o.uploads) < DeferThreshold
Bounded(o) == Len(o.uploads) <= DeferThreshold /\ (o.requests = <<>> \/ Asked(o))

Pipeline(o) ==
    /\ o \in Output /\ o.x < Slices /\ o.draw_sync_target <= DeferThreshold
    /\ ~o.pending_vram_upload
    /\ Alternating(o) /\ Bounded(o)
    /\ o.frame_ready => o.mdec_busy = "idle"

(* What is ahead of the image, but for the store still to be made. *)
Ordered(o) ==
    /\ o.mdec_busy = "idle" => o.requests = <<>> /\ ~o.pending_mdec_decode
    /\ o.mdec_busy # "idle" => (o.requests = <<>> <=> o.pending_mdec_decode)

(* The foreground between its look at the GPU and its last store. *)
Serviced ==
    /\ at \in {"decode", "clear_decode", "release"} => busy
    /\ at \in {"claim", "guard", "decode"} /\ out.pending_mdec_decode
         => Len(out.uploads) < DeferThreshold
    /\ IF at = "clear_decode"
       THEN out.requests # <<>> /\ out.pending_mdec_decode /\ out.mdec_busy # "idle"
       ELSE Ordered(out)

(* An image whose last slice is sent is gone before the next is begun. *)
Fetched == out.mdec_busy = "idle" /\ ~out.frame_ready /\ at # "flip" => out.uploads = <<>>

(* The frame being expanded is never the one in the MDEC. *)
Expanding == vlc.retry_count > 0 \/ vlc.retry_pending \/ at \in {"expand", "submit"}
Input ==
    /\ reading.slice < Slices =>
         inbuf[reading.buf].whole /\ (Expanding <=> reading.buf # vlc.input_buf_idx)
    /\ at = "submit" \/ vlc.retry_pending => inbuf[vlc.input_buf_idx].whole /\ vlc.retry_count = 0
    /\ at \in {"vlc", "expand", "submit"} => ~vlc.retry_pending

Types ==
    /\ coming \in [next : 1..TotalFrames + 1, ready : Frames, end_of_stream : BOOLEAN]
    /\ inbuf \in [Buffers -> [frame : Frames, whole : BOOLEAN]]
    /\ vlc \in [input_buf_idx : Buffers, retry_count : 0..VlcRetries, retry_pending : BOOLEAN]
    /\ reading \in [buf : Buffers, slice : 0..Slices]
    /\ outbuf \in [Buffers -> Slice]
    /\ vram \in [{0, 1} -> [0..Slices - 1 -> Slice]]
    /\ busy \in BOOLEAN

IInv == Types /\ Pipeline(out) /\ Serviced /\ Fetched /\ Input

-----------------------------------------------------------------------------
(* What the operators on the pipeline do *)

LEMMA SentType ==
    ASSUME NEW o \in Output, NEW b \in Buffers, NEW x \in Nat, NEW t \in Nat, NEW s \in Seq(Upload)
    PROVE  [o EXCEPT !.uploads = s, !.draw_sync_target = t, !.out_buf_idx = b, !.x = x] \in Output
BY DEF Output

(* A request is made where the threshold leaves room. *)
LEMMA Requested ==
    ASSUME NEW o \in Output, Pipeline(o), o.requests = <<>>, Len(o.uploads) < DeferThreshold
    PROVE  /\ DecDCTout(o) = [o EXCEPT !.requests = <<o.out_buf_idx>>]
           /\ Pipeline(DecDCTout(o)) /\ DecDCTout(o).requests # <<>>
           /\ DecDCTout(o).mdec_busy = o.mdec_busy
           /\ DecDCTout(o).pending_mdec_decode = o.pending_mdec_decode
           /\ DecDCTout(o).uploads = o.uploads /\ DecDCTout(o).frame_ready = o.frame_ready
<1> DEFINE n == [o EXCEPT !.requests = <<o.out_buf_idx>>]
<1>1. Append(o.requests, o.out_buf_idx) = <<o.out_buf_idx>> /\ <<o.out_buf_idx>> \in Seq(Buffers)
  BY DEF Output
<1>2. DecDCTout(o) = n
  BY <1>1 DEF DecDCTout
<1>3. /\ n \in Output /\ n.requests = <<n.out_buf_idx>> /\ n.uploads = o.uploads
      /\ n.out_buf_idx = o.out_buf_idx /\ n.mdec_busy = o.mdec_busy
      /\ n.pending_mdec_decode = o.pending_mdec_decode /\ n.frame_ready = o.frame_ready
      /\ n.x = o.x /\ n.draw_sync_target = o.draw_sync_target
      /\ n.pending_vram_upload = o.pending_vram_upload
  BY <1>1 DEF Output
<1> HIDE DEF n
<1>4. n.requests # <<>>
  BY <1>3
<1>5. Pipeline(n)
  BY <1>3, <1>4 DEF Pipeline, Alternating, Bounded, Asked
<1> QED BY <1>2, <1>3, <1>4, <1>5 DEF n

(* A finished slice is sent, and one of three things follows. *)
LEMMA SliceOutStep ==
    ASSUME NEW o \in Output, Pipeline(o), o.requests = <<>>, ~o.pending_mdec_decode,
           o.mdec_busy # "idle", Len(o.uploads) < DeferThreshold
    PROVE  /\ Pipeline(SliceOut(o)) /\ Ordered(SliceOut(o))
           /\ SliceOut(o).mdec_busy = "idle" => SliceOut(o).frame_ready
<1> USE OutputAssumption
<1> DEFINE up == [buf |-> o.out_buf_idx, chunk |-> o.chunk_idx, slice |-> o.x]
           u == [LoadImage(o) EXCEPT !.draw_sync_target = DrawSync(o) + 1]
           a == Advanced(u)
<1>1. up \in Upload /\ Len(o.uploads) \in Nat
  BY DEF Pipeline, Output, Upload
<1>2. /\ Append(o.uploads, up) \in Seq(Upload)
      /\ Len(Append(o.uploads, up)) = Len(o.uploads) + 1
      /\ Append(o.uploads, up)[Len(o.uploads) + 1] = up
      /\ Append(o.uploads, up) # <<>>
  BY <1>1 DEF Output
<1>3. u = [o EXCEPT !.uploads = Append(o.uploads, up), !.draw_sync_target = Len(o.uploads) + 1]
  BY DEF LoadImage, DrawSync, Output
<1>4. a = [o EXCEPT !.uploads = Append(o.uploads, up), !.draw_sync_target = Len(o.uploads) + 1,
                    !.out_buf_idx = 1 - o.out_buf_idx, !.x = o.x + 1]
  BY <1>3 DEF Advanced, Output
<1>5. SliceOut(o) = Scheduled(u)
  <2>1. Deferred(DrawSync(o)) = FALSE
    BY <1>1 DEF Deferred, DrawSync
  <2>2. u.pending_vram_upload = FALSE
    BY <1>3 DEF Pipeline, Output
  <2>3. SliceOut(o) = IF u.pending_vram_upload THEN [u EXCEPT !.mdec_busy = "active"]
                      ELSE Scheduled(u)
    BY <2>1, Zenon DEF SliceOut
  <2> HIDE DEF u
  <2> QED BY <2>2, <2>3, Zenon
<1> HIDE DEF up, u, a
<1>6. /\ a \in Output /\ a.x = o.x + 1 /\ a.requests = <<>> /\ ~a.pending_vram_upload
      /\ a.uploads # <<>> /\ Len(a.uploads) = Len(o.uploads) + 1
      /\ a.draw_sync_target = Len(a.uploads) /\ ~a.pending_mdec_decode
      /\ Alternating(a) /\ ~a.frame_ready
  <2>1. 1 - o.out_buf_idx \in Buffers /\ 1 - (1 - o.out_buf_idx) = o.out_buf_idx
    BY DEF Output, Buffers
  <2>2. a.uploads[Len(a.uploads)] = up /\ up.buf = o.out_buf_idx
    BY <1>2, <1>4 DEF up, Output
  <2>3. a \in Output
    <3>1. Len(o.uploads) + 1 \in Nat /\ o.x + 1 \in Nat
      BY <1>1 DEF Output
    <3> QED BY <1>2, <1>4, <2>1, <3>1, SentType
  <2>4. /\ a.x = o.x + 1 /\ a.requests = o.requests /\ a.pending_vram_upload = o.pending_vram_upload
        /\ a.uploads = Append(o.uploads, up) /\ a.draw_sync_target = Len(o.uploads) + 1
        /\ a.pending_mdec_decode = o.pending_mdec_decode /\ a.frame_ready = o.frame_ready
        /\ a.out_buf_idx = 1 - o.out_buf_idx
    BY <1>4 DEF Output
  <2>5. ~o.pending_vram_upload /\ ~o.frame_ready
    BY DEF Pipeline
  <2>6. a.uploads # <<>> /\ Len(a.uploads) = Len(o.uploads) + 1
    BY <1>2, <2>4
  <2>7. Alternating(a)
    BY <2>1, <2>2, <2>4 DEF Alternating
  <2> QED BY <2>3, <2>4, <2>5, <2>6, <2>7
<1>7. CASE ~MoreSlices(a)
  <2> DEFINE p == Published(a)
  <2>1. SliceOut(o) = p
    BY <1>5, <1>7 DEF Scheduled, a
  <2>3. 1 - a.chunk_idx \in {0, 1}
    BY <1>6 DEF Output
  <2>4. (IF a.end_state = "near_end" THEN "done" ELSE a.end_state) \in {"running", "near_end", "done"}
    BY <1>6 DEF Output
  <2>5. p \in Output
    BY <1>6, <2>3, <2>4 DEF Published, Output
  <2>2. /\ p \in Output /\ p.x = 0 /\ p.requests = <<>> /\ ~p.pending_vram_upload
        /\ p.uploads = a.uploads /\ p.draw_sync_target = a.draw_sync_target
        /\ p.out_buf_idx = a.out_buf_idx /\ p.mdec_busy = "idle" /\ p.frame_ready
        /\ ~p.pending_mdec_decode
    BY <1>6, <2>5 DEF Published, Output
  <2> HIDE DEF p
  <2> QED BY <1>1, <1>6, <2>1, <2>2 DEF Pipeline, Alternating, Bounded, Ordered
<1>8. CASE MoreSlices(a) /\ Deferred(a.draw_sync_target)
  <2> DEFINE p == PutOff(a)
  <2>1. SliceOut(o) = p
    BY <1>5, <1>8 DEF Scheduled, a
  <2>2. /\ p \in Output /\ p.x = a.x /\ p.requests = <<>> /\ ~p.pending_vram_upload
        /\ p.uploads = a.uploads /\ p.draw_sync_target = a.draw_sync_target
        /\ p.out_buf_idx = a.out_buf_idx /\ p.mdec_busy = "active" /\ ~p.frame_ready
        /\ p.pending_mdec_decode
    BY <1>6 DEF PutOff, Output
  <2> HIDE DEF p
  <2> QED BY <1>1, <1>6, <1>8, <2>1, <2>2 DEF Pipeline, Alternating, Bounded, Ordered, MoreSlices
<1>9. CASE MoreSlices(a) /\ ~Deferred(a.draw_sync_target)
  <2>1. SliceOut(o) = [DecDCTout(a) EXCEPT !.mdec_busy = "chained"]
    BY <1>5, <1>9 DEF Scheduled, a
  <2>2. Append(a.requests, a.out_buf_idx) = <<a.out_buf_idx>> /\ <<a.out_buf_idx>> \in Seq(Buffers)
    BY <1>6 DEF Output
  <2>3. DecDCTout(a) = [a EXCEPT !.requests = <<a.out_buf_idx>>]
    BY <2>2 DEF DecDCTout
  <2> DEFINE p == [a EXCEPT !.requests = <<a.out_buf_idx>>, !.mdec_busy = "chained"]
  <2>4. SliceOut(o) = p
    BY <1>6, <2>1, <2>3 DEF Output
  <2>5. /\ p \in Output /\ p.x = a.x /\ p.requests = <<p.out_buf_idx>> /\ ~p.pending_vram_upload
        /\ p.uploads = a.uploads /\ p.draw_sync_target = a.draw_sync_target
        /\ p.out_buf_idx = a.out_buf_idx /\ p.mdec_busy = "chained" /\ ~p.frame_ready
        /\ ~p.pending_mdec_decode
    BY <1>6, <2>2 DEF Output
  <2> HIDE DEF p
  <2>6. Len(p.uploads) < DeferThreshold
    BY <1>6, <1>9, <2>5 DEF Deferred
  <2>7. p.requests # <<>>
    BY <2>5
  <2> QED BY <1>1, <1>6, <1>9, <2>4, <2>5, <2>6, <2>7
      DEF Pipeline, Alternating, Bounded, Asked, Ordered, MoreSlices
<1> QED BY <1>7, <1>8, <1>9
-----------------------------------------------------------------------------
(* The initial states and the steps *)

LEMMA InitHolds == Init => IInv
<1> SUFFICES ASSUME Init PROVE IInv
  OBVIOUS
<1> USE OutputAssumption
<1>1. Types
  BY SMTT(30) DEF Init, Types, Frames, Slice, Buffers, Nothing
<1>2. Pipeline(out)
  BY DEF Init, Pipeline, Output, Alternating, Bounded, Buffers
<1>3. Serviced /\ Fetched /\ Input
  BY DEF Init, Serviced, Ordered, Fetched, Input, Buffers
<1> QED BY <1>1, <1>2, <1>3 DEF IInv

LEMMA SliceDoneStep ==
    ASSUME ~SliceWindow, IInv, SliceDone
    PROVE  IInv'
<1> USE OutputAssumption
<1> DEFINE o == [out EXCEPT !.requests = Tail(@)]
<1>1. /\ out \in Output /\ Pipeline(out) /\ out.requests = <<out.out_buf_idx>>
      /\ Len(out.uploads) < DeferThreshold
  BY DEF IInv, Pipeline, Bounded, Asked, SliceDone
<1>2. at \notin {"claim", "guard", "decode", "clear_decode"}
  BY DEF SliceDone, InWindow
<1>3. Ordered(out) /\ out.mdec_busy # "idle" /\ ~out.pending_mdec_decode
  BY <1>2 DEF IInv, Serviced, Ordered, SliceDone
<1>4. /\ o \in Output /\ o.requests = <<>> /\ ~o.pending_mdec_decode /\ o.mdec_busy # "idle"
      /\ Len(o.uploads) < DeferThreshold /\ Pipeline(o)
  <2>1. Tail(out.requests) = <<>> /\ <<>> \in Seq(Buffers)
    BY <1>1
  <2>2. o = [out EXCEPT !.requests = <<>>]
    BY <2>1
  <2>3. o \in Output
    BY <1>1, <2>1, <2>2 DEF Output
  <2>4. /\ o.requests = <<>> /\ o.pending_mdec_decode = out.pending_mdec_decode
        /\ o.mdec_busy = out.mdec_busy /\ o.uploads = out.uploads /\ o.out_buf_idx = out.out_buf_idx
        /\ o.x = out.x /\ o.draw_sync_target = out.draw_sync_target
        /\ o.pending_vram_upload = out.pending_vram_upload /\ o.frame_ready = out.frame_ready
    BY <1>1, <2>2 DEF Output
  <2> HIDE DEF o
  <2> QED BY <1>1, <1>3, <2>3, <2>4 DEF Pipeline, Alternating, Bounded
<1>5. out' = SliceOut(o)
  BY DEF SliceDone
<1> HIDE DEF o
<1>6. Pipeline(out)' /\ Ordered(out)' /\ (out'.mdec_busy = "idle" => out'.frame_ready)
  BY <1>4, <1>5, SliceOutStep DEF Pipeline, Ordered, Alternating, Bounded, Asked
<1>7. Types'
  <2>1. [frame |-> inbuf[reading.buf].frame, slice |-> reading.slice] \in Slice
    BY DEF IInv, Types, SliceDone, Slice
  <2>2. outbuf' \in [Buffers -> Slice]
    <3>1. Head(out.requests) \in Buffers
      BY <1>1 DEF Output
    <3> QED BY <2>1, <3>1 DEF IInv, Types, SliceDone
  <2>3. reading' \in [buf : Buffers, slice : 0..Slices]
    <3>1. reading \in [buf : Buffers, slice : 0..Slices] /\ reading.slice + 1 \in 0..Slices
      BY DEF IInv, Types, SliceDone
    <3>2. reading' = [reading EXCEPT !.slice = reading.slice + 1]
      BY DEF SliceDone
    <3> QED BY <3>1, <3>2
  <2> QED BY <2>2, <2>3 DEF IInv, Types, SliceDone
<1>8. Serviced'
  BY <1>2, <1>6 DEF IInv, Serviced, SliceDone
<1>9. Fetched'
  BY <1>6 DEF Fetched
<1>10. Input'
  BY DEF IInv, Input, Expanding, Types, SliceDone
<1> QED BY <1>6, <1>7, <1>8, <1>9, <1>10 DEF IInv

LEMMA UploadDoneStep ==
    ASSUME IInv, UploadDone
    PROVE  IInv'
<1> USE OutputAssumption
<1> DEFINE u == Head(out.uploads)
<1>1. out \in Output /\ out.uploads \in Seq(Upload) /\ out.uploads # <<>>
  BY DEF IInv, Pipeline, Output, UploadDone
<1>2. /\ Tail(out.uploads) \in Seq(Upload) /\ Len(Tail(out.uploads)) = Len(out.uploads) - 1
      /\ Len(out.uploads) \in Nat /\ Len(out.uploads) > 0
      /\ \A i \in 1..Len(out.uploads) - 1 : Tail(out.uploads)[i] = out.uploads[i + 1]
      /\ Tail(out.uploads) = <<>> <=> Len(out.uploads) = 1
      /\ u \in Upload
  <2>1. \A q \in Seq(Upload) : q # <<>> =>
          /\ Tail(q) \in Seq(Upload) /\ Len(Tail(q)) = Len(q) - 1
          /\ Len(q) \in Nat /\ Len(q) > 0 /\ Head(q) \in Upload
          /\ \A i \in 1..Len(q) - 1 : Tail(q)[i] = q[i + 1]
    BY HeadTailProperties
  <2>2. Tail(out.uploads) = <<>> <=> Len(Tail(out.uploads)) = 0
    BY <1>1, <2>1, EmptySeq
  <2> QED BY <1>1, <2>1, <2>2
<1>3. out' = [out EXCEPT !.uploads = Tail(out.uploads)]
  BY DEF UploadDone
<1>4. /\ out' \in Output /\ out'.uploads = Tail(out.uploads)
      /\ out'.requests = out.requests /\ out'.out_buf_idx = out.out_buf_idx
      /\ out'.mdec_busy = out.mdec_busy /\ out'.pending_mdec_decode = out.pending_mdec_decode
      /\ out'.x = out.x /\ out'.draw_sync_target = out.draw_sync_target
      /\ out'.pending_vram_upload = out.pending_vram_upload /\ out'.frame_ready = out.frame_ready
  BY <1>1, <1>2, <1>3 DEF Output
<1>5. Alternating(out)'
  <2> SUFFICES ASSUME Tail(out.uploads) # <<>>
               PROVE  Tail(out.uploads)[Len(Tail(out.uploads))] = out.uploads[Len(out.uploads)]
    BY <1>1, <1>4 DEF Alternating, IInv, Pipeline
  <2>1. Len(out.uploads) - 1 \in 1..Len(out.uploads) - 1
    BY <1>2
  <2> QED BY <1>2, <2>1
<1>6. Pipeline(out)'
  BY <1>2, <1>4, <1>5 DEF IInv, Pipeline, Bounded, Asked
<1>7. Serviced'
  BY <1>2, <1>4 DEF IInv, Serviced, Ordered, UploadDone
<1>8. Fetched'
  BY <1>1, <1>4 DEF IInv, Fetched, UploadDone
<1>9. Types'
  <2>1. outbuf[u.buf] \in Slice
    BY <1>2 DEF IInv, Types, Upload
  <2>2. vram' = [vram EXCEPT ![u.chunk] = [vram[u.chunk] EXCEPT ![u.slice] = outbuf[u.buf]]]
    BY DEF UploadDone
  <2>3. vram' \in [{0, 1} -> [0..Slices - 1 -> Slice]]
    <3>1. vram[u.chunk] \in [0..Slices - 1 -> Slice]
      BY <1>2 DEF IInv, Types, Upload
    <3>2. [vram[u.chunk] EXCEPT ![u.slice] = outbuf[u.buf]] \in [0..Slices - 1 -> Slice]
      BY <2>1, <3>1
    <3> QED BY <2>2, <3>2 DEF IInv, Types
  <2> QED BY <2>3 DEF IInv, Types, UploadDone
<1>10. Input'
  BY DEF IInv, Input, Expanding, UploadDone
<1> QED BY <1>6, <1>7, <1>8, <1>9, <1>10 DEF IInv
LEMMA DrawSyncCallbackStep ==
    ASSUME IInv, DrawSyncCallback
    PROVE  IInv'
<1> USE OutputAssumption
<1>1. CASE busy
  BY <1>1 DEF DrawSyncCallback, IInv, Types, Pipeline, Alternating, Bounded, Asked, Serviced,
              Ordered, Fetched, Input, Expanding
<1>2. CASE ~busy
  <2> DEFINE o == [out EXCEPT !.draw_sync_target = 0]
  <2>1. at \notin {"decode", "clear_decode", "release"} /\ Ordered(out)
    BY <1>2 DEF IInv, Serviced
  <2>2. out \in Output /\ Pipeline(out)
    BY DEF IInv, Pipeline
  <2>3. /\ o \in Output /\ o.uploads = <<>> /\ o.requests = out.requests /\ o.x = out.x
        /\ o.mdec_busy = out.mdec_busy /\ o.frame_ready = out.frame_ready
        /\ o.pending_mdec_decode = out.pending_mdec_decode /\ o.out_buf_idx = out.out_buf_idx
        /\ o.pending_vram_upload = FALSE /\ o.draw_sync_target = 0 /\ Len(o.uploads) = 0
    BY <2>2 DEF Output, DrawSyncCallback, Pipeline
  <2>4. out' = DecodePending(o)
    <3>1. out' = DecodePending(UploadPending(o))
      BY <1>2 DEF DrawSyncCallback, Drained
    <3> HIDE DEF o
    <3>2. UploadPending(o) = o
      BY <2>3 DEF UploadPending
    <3> QED BY <3>1, <3>2
  <2> HIDE DEF o
  <2>5. Pipeline(o)
    BY <2>2, <2>3 DEF Pipeline, Alternating, Bounded, Asked
  <2>6. Pipeline(out)' /\ Ordered(out)' /\ Fetched' /\ ~out'.pending_mdec_decode
    <3>1. CASE o.pending_mdec_decode
      <4> DEFINE d == DecDCTout(o)
                 n == [d EXCEPT !.pending_mdec_decode = FALSE]
      <4>1. o.requests = <<>> /\ o.mdec_busy # "idle"
        BY <2>1, <2>3, <3>1 DEF Ordered
      <4>2. /\ d \in Output /\ Pipeline(d) /\ d.requests # <<>> /\ d.mdec_busy # "idle"
        BY <2>3, <2>5, <4>1, Requested DEF Pipeline
      <4>3. out' = n
        BY <2>4, <3>1 DEF DecodePending
      <4> HIDE DEF d
      <4>4. /\ n \in Output /\ n.requests = d.requests /\ n.uploads = d.uploads
            /\ n.mdec_busy = d.mdec_busy /\ n.out_buf_idx = d.out_buf_idx /\ n.x = d.x
            /\ n.draw_sync_target = d.draw_sync_target /\ n.frame_ready = d.frame_ready
            /\ n.pending_vram_upload = d.pending_vram_upload /\ ~n.pending_mdec_decode
        BY <4>2 DEF Output
      <4> HIDE DEF n
      <4> QED BY <4>2, <4>3, <4>4 DEF Pipeline, Alternating, Bounded, Asked, Ordered, Fetched
    <3>2. CASE ~o.pending_mdec_decode
      <4>1. out' = o
        BY <2>4, <3>2 DEF DecodePending
      <4> QED BY <2>1, <2>3, <2>5, <3>2, <4>1
          DEF Pipeline, Alternating, Bounded, Asked, Ordered, Fetched
    <3> QED BY <3>1, <3>2
  <2>7. Types' /\ Input'
    BY DEF IInv, Types, Input, Expanding, DrawSyncCallback
  <2>8. Serviced'
    BY <2>1, <2>6 DEF Serviced, DrawSyncCallback
  <2> QED BY <2>6, <2>7, <2>8 DEF IInv
<1> QED BY <1>1, <1>2 DEF IInv, Types

LEMMA FrameComesStep ==
    ASSUME IInv, FrameComes
    PROVE  IInv'
<1> USE OutputAssumption
<1>1. coming' \in [next : 1..TotalFrames + 1, ready : Frames, end_of_stream : BOOLEAN]
  <2>1. coming \in [next : 1..TotalFrames + 1, ready : Frames, end_of_stream : BOOLEAN]
    BY DEF IInv, Types
  <2>2. coming.ready < TotalFrames => coming.ready + 1 \in Frames
    BY <2>1 DEF Frames
  <2> QED BY <2>1, <2>2 DEF FrameComes
<1> QED BY <1>1 DEF FrameComes, IInv, Types, Pipeline, Alternating, Bounded, Asked, Serviced,
                    Ordered, Fetched, Input, Expanding

-----------------------------------------------------------------------------
(* The foreground *)

elsewhere == <<outbuf, drained, vram>>

(* Places at which the foreground is not at the pipeline's requests. *)
Away ==
    {"check", "update", "vlc", "exhausted", "expand", "submit", "updated", "present", "over",
     "service"}

(* A step that leaves the pipeline alone and goes to such a place. *)
LEMMA PipelineKept ==
    ASSUME IInv, UNCHANGED <<out, busy>>, at \in Away, at' \in Away \cup {"poll"}
    PROVE  Pipeline(out)' /\ Serviced' /\ Fetched'
BY DEF Away, IInv, Pipeline, Alternating, Bounded, Asked, Serviced, Ordered, Fetched

(* A submitted frame finds the pipeline empty. *)
LEMMA SubmitStep ==
    ASSUME IInv, Submit, Free, at \in {"update", "submit"}, at' \in {"vlc", "updated"},
           UNCHANGED busy
    PROVE  Pipeline(out)' /\ Serviced' /\ Fetched'
<1> USE OutputAssumption
<1> DEFINE o == [out EXCEPT !.mdec_busy = "active"]
<1>1. out \in Output /\ Pipeline(out) /\ Ordered(out)
  BY DEF IInv, Pipeline, Serviced
<1>2. out.uploads = <<>> /\ out.requests = <<>> /\ ~out.pending_mdec_decode
  BY <1>1 DEF IInv, Fetched, Free, Ordered
<1>3. /\ o \in Output /\ o.mdec_busy = "active" /\ o.uploads = <<>> /\ o.requests = <<>>
      /\ ~o.pending_mdec_decode /\ o.frame_ready = out.frame_ready /\ ~o.frame_ready
      /\ o.x = out.x /\ o.draw_sync_target = out.draw_sync_target
      /\ o.pending_vram_upload = out.pending_vram_upload
  BY <1>1, <1>2 DEF Output, Free
<1>4. out' = DecDCTout(o)
  BY DEF Submit
<1> HIDE DEF o
<1>5. Pipeline(o) /\ Len(o.uploads) < DeferThreshold
  <2>1. Len(o.uploads) = 0
    BY <1>3
  <2> QED BY <1>1, <1>3, <2>1 DEF Pipeline, Alternating, Bounded
<1>6. /\ Pipeline(DecDCTout(o)) /\ DecDCTout(o).requests # <<>>
      /\ DecDCTout(o).mdec_busy = "active" /\ ~DecDCTout(o).pending_mdec_decode
  BY <1>3, <1>5, Requested
<1> QED BY <1>4, <1>6 DEF Pipeline, Alternating, Bounded, Asked, Serviced, Ordered, Fetched, IInv

LEMMA RetryStep ==
    ASSUME IInv, Retry, UNCHANGED elsewhere
    PROVE  IInv'
<1> USE OutputAssumption
<1>0. Buffers = {0, 1}
  BY DEF Buffers
<1>1. CASE vlc.retry_pending /\ Free
  <2>1. Submit /\ vlc' = [vlc EXCEPT !.retry_pending = FALSE] /\ at' = "vlc" /\ at = "update"
    BY <1>1 DEF Retry, IInv, Types
  <2>2. Pipeline(out)' /\ Serviced' /\ Fetched'
    BY <1>1, <2>1, SubmitStep DEF Retry
  <2>3. Types'
    <3>1. reading' \in [buf : Buffers, slice : 0..Slices]
      BY <2>1 DEF IInv, Types, Submit
    <3>2. vlc' \in [input_buf_idx : Buffers, retry_count : 0..VlcRetries, retry_pending : BOOLEAN]
      BY <2>1 DEF IInv, Types
    <3>3. UNCHANGED <<coming, inbuf, outbuf, vram, busy>>
      BY DEF Retry, elsewhere
    <3> QED BY <3>1, <3>2, <3>3 DEF IInv, Types
  <2>4. Input'
    BY <1>1, <2>1 DEF IInv, Types, Retry, Input, Expanding, Submit
  <2> QED BY <2>2, <2>3, <2>4 DEF IInv
<1>2. CASE ~(vlc.retry_pending /\ Free)
  <2>1. UNCHANGED <<out, reading, vlc>> /\ at = "update" /\ at' \in {"updated", "vlc"}
    BY <1>2 DEF Retry
  <2>2. Pipeline(out)' /\ Serviced' /\ Fetched'
    BY <2>1, PipelineKept DEF Retry, Away
  <2>3. Types' /\ Input'
    BY <2>1 DEF IInv, Types, Retry, elsewhere, Input, Expanding
  <2> QED BY <2>2, <2>3 DEF IInv
<1> QED BY <1>1, <1>2
LEMMA NextFrameStep ==
    ASSUME IInv, NextFrame, UNCHANGED elsewhere
    PROVE  IInv'
<1> USE OutputAssumption
<1>0. Buffers = {0, 1}
  BY DEF Buffers
<1>1. /\ at = "vlc" /\ at' = "expand" /\ vlc.retry_count = 0 /\ ~vlc.retry_pending
      /\ UNCHANGED <<reading, busy, outbuf, vram>>
  BY DEF NextFrame, elsewhere, IInv, Input
<1>2. /\ vlc \in [input_buf_idx : Buffers, retry_count : 0..VlcRetries, retry_pending : BOOLEAN]
      /\ vlc' = [vlc EXCEPT !.input_buf_idx = 1 - vlc.input_buf_idx, !.retry_count = VlcRetries]
      /\ inbuf' = [inbuf EXCEPT ![vlc'.input_buf_idx] = [frame |-> coming.next, whole |-> FALSE]]
  BY DEF IInv, Types, NextFrame
<1>3. 1 - vlc.input_buf_idx \in Buffers /\ 1 - vlc.input_buf_idx # vlc.input_buf_idx
  BY <1>0, <1>2
<1>4. /\ vlc' \in [input_buf_idx : Buffers, retry_count : 0..VlcRetries, retry_pending : BOOLEAN]
      /\ vlc'.input_buf_idx = 1 - vlc.input_buf_idx /\ ~vlc'.retry_pending
  <2>1. VlcRetries \in 0..VlcRetries
    OBVIOUS
  <2> QED BY <1>1, <1>2, <1>3, <2>1
<1>5. Types'
  <2>1. coming.next \in Frames
    BY DEF IInv, Types, NextFrame, Frames
  <2>2. inbuf' \in [Buffers -> [frame : Frames, whole : BOOLEAN]]
    BY <1>2, <1>4, <2>1 DEF IInv, Types
  <2>3. coming' \in [next : 1..TotalFrames + 1, ready : Frames, end_of_stream : BOOLEAN]
    <3>1. coming \in [next : 1..TotalFrames + 1, ready : Frames, end_of_stream : BOOLEAN]
      BY DEF IInv, Types
    <3>2. coming.next + 1 \in 1..TotalFrames + 1
      BY <2>1, <3>1 DEF Frames
    <3>3. coming' = [coming EXCEPT !.next = coming.next + 1]
      BY DEF NextFrame
    <3> QED BY <3>1, <3>2, <3>3
  <2> QED BY <1>1, <1>4, <2>2, <2>3 DEF IInv, Types
<1>6. Input'
  <2>1. reading.slice < Slices => inbuf[reading.buf].whole /\ reading.buf = vlc.input_buf_idx
    BY <1>1 DEF IInv, Input, Expanding
  <2>2. reading.slice < Slices => inbuf'[reading.buf].whole
    BY <1>2, <1>3, <1>4, <2>1 DEF IInv, Types
  <2> QED BY <1>1, <1>3, <1>4, <2>1, <2>2 DEF Input, Expanding
<1>7. /\ out' \in Output /\ out'.requests = out.requests /\ out'.uploads = out.uploads
      /\ out'.mdec_busy = out.mdec_busy /\ out'.out_buf_idx = out.out_buf_idx /\ out'.x = out.x
      /\ out'.draw_sync_target = out.draw_sync_target /\ out'.frame_ready = out.frame_ready
      /\ out'.pending_vram_upload = out.pending_vram_upload
      /\ out'.pending_mdec_decode = out.pending_mdec_decode
  BY DEF IInv, Pipeline, Output, NextFrame
<1> QED BY <1>1, <1>5, <1>6, <1>7
    DEF IInv, Pipeline, Alternating, Bounded, Asked, Serviced, Ordered, Fetched

LEMMA NoFrameStep ==
    ASSUME IInv, NoFrame, UNCHANGED elsewhere
    PROVE  IInv'
<1> USE OutputAssumption
<1>1. Pipeline(out)' /\ Serviced' /\ Fetched'
  BY PipelineKept DEF NoFrame, Away
<1>2. Types' /\ Input'
  BY DEF IInv, Types, Input, Expanding, NoFrame, elsewhere
<1> QED BY <1>1, <1>2 DEF IInv

LEMMA ExhaustedStep ==
    ASSUME IInv, Exhausted, UNCHANGED elsewhere
    PROVE  IInv'
<1> USE OutputAssumption
<1>1. /\ out' \in Output /\ out'.requests = out.requests /\ out'.uploads = out.uploads
      /\ out'.mdec_busy = out.mdec_busy /\ out'.out_buf_idx = out.out_buf_idx /\ out'.x = out.x
      /\ out'.draw_sync_target = out.draw_sync_target /\ out'.frame_ready = out.frame_ready
      /\ out'.pending_vram_upload = out.pending_vram_upload
      /\ out'.pending_mdec_decode = out.pending_mdec_decode
  BY DEF IInv, Pipeline, Output, Exhausted
<1>2. Types' /\ Input'
  BY DEF IInv, Types, Input, Expanding, Exhausted, elsewhere
<1> QED BY <1>1, <1>2
    DEF Exhausted, IInv, Pipeline, Alternating, Bounded, Asked, Serviced, Ordered, Fetched

LEMMA ContinueStep ==
    ASSUME IInv, Continue, UNCHANGED elsewhere
    PROVE  IInv'
<1> USE OutputAssumption
<1>1. /\ at = "vlc" /\ at' = "expand" /\ vlc.retry_count > 0
      /\ vlc' = [vlc EXCEPT !.retry_count = vlc.retry_count - 1]
      /\ UNCHANGED <<coming, inbuf, reading, out, busy, outbuf, vram>>
  BY DEF Continue, elsewhere
<1>2. /\ vlc' \in [input_buf_idx : Buffers, retry_count : 0..VlcRetries, retry_pending : BOOLEAN]
      /\ vlc'.input_buf_idx = vlc.input_buf_idx /\ vlc'.retry_pending = vlc.retry_pending
  <2>1. vlc \in [input_buf_idx : Buffers, retry_count : 0..VlcRetries, retry_pending : BOOLEAN]
    BY DEF IInv, Types
  <2>2. vlc.retry_count - 1 \in 0..VlcRetries
    BY <1>1, <2>1
  <2> QED BY <1>1, <2>1, <2>2
<1>3. Types' /\ Input'
  BY <1>1, <1>2 DEF IInv, Types, Input, Expanding
<1>4. Pipeline(out)' /\ Serviced' /\ Fetched'
  BY <1>1, PipelineKept DEF Away
<1> QED BY <1>3, <1>4 DEF IInv

LEMMA ExpandStep ==
    ASSUME IInv, Expand, UNCHANGED elsewhere
    PROVE  IInv'
<1> USE OutputAssumption
<1>1. /\ at = "expand" /\ at' \in {"submit", "updated"} /\ ~vlc.retry_pending
      /\ UNCHANGED <<coming, reading, out, busy, outbuf, vram>>
  BY DEF Expand, elsewhere, IInv, Input
<1>2. Pipeline(out)' /\ Serviced' /\ Fetched'
  BY <1>1, PipelineKept DEF Away
<1>3. CASE at' = "submit"
  <2>1. /\ inbuf' = [inbuf EXCEPT ![vlc.input_buf_idx] = [@ EXCEPT !.whole = TRUE]]
        /\ vlc' = [vlc EXCEPT !.retry_count = 0]
    BY <1>3 DEF Expand
  <2>2. /\ vlc' \in [input_buf_idx : Buffers, retry_count : 0..VlcRetries, retry_pending : BOOLEAN]
        /\ vlc'.input_buf_idx = vlc.input_buf_idx /\ ~vlc'.retry_pending /\ vlc'.retry_count = 0
    BY <1>1, <2>1 DEF IInv, Types
  <2>3. /\ inbuf' \in [Buffers -> [frame : Frames, whole : BOOLEAN]]
        /\ inbuf'[vlc.input_buf_idx].whole
        /\ \A b \in Buffers : inbuf[b].whole => inbuf'[b].whole
    BY <2>1 DEF IInv, Types
  <2>4. reading.buf \in Buffers
    BY DEF IInv, Types
  <2> QED BY <1>1, <1>2, <1>3, <2>2, <2>3, <2>4 DEF IInv, Types, Input, Expanding
<1>4. CASE at' = "updated"
  <2>1. UNCHANGED <<inbuf, vlc>> /\ vlc.retry_count > 0
    BY <1>4 DEF Expand
  <2> QED BY <1>1, <1>2, <1>4, <2>1 DEF IInv, Types, Input, Expanding
<1> QED BY <1>1, <1>3, <1>4

LEMMA SubmitOrWaitStep ==
    ASSUME IInv, SubmitOrWait, UNCHANGED elsewhere
    PROVE  IInv'
<1> USE OutputAssumption
<1>1. /\ at = "submit" /\ at' = "updated" /\ UNCHANGED <<coming, inbuf, busy, outbuf, vram>>
      /\ ~vlc.retry_pending /\ vlc.retry_count = 0 /\ inbuf[vlc.input_buf_idx].whole
  BY DEF SubmitOrWait, elsewhere, IInv, Input
<1>2. CASE Free
  <2>1. Submit /\ UNCHANGED vlc
    BY <1>2 DEF SubmitOrWait
  <2>2. Pipeline(out)' /\ Serviced' /\ Fetched'
    BY <1>1, <1>2, <2>1, SubmitStep
  <2>3. /\ reading' \in [buf : Buffers, slice : 0..Slices]
        /\ reading'.buf = vlc.input_buf_idx
    BY <2>1 DEF IInv, Types, Submit
  <2> QED BY <1>1, <2>1, <2>2, <2>3 DEF IInv, Types, Input, Expanding
<1>3. CASE ~Free
  <2>1. vlc' = [vlc EXCEPT !.retry_pending = TRUE] /\ UNCHANGED <<out, reading>>
    BY <1>3 DEF SubmitOrWait
  <2>2. /\ vlc' \in [input_buf_idx : Buffers, retry_count : 0..VlcRetries, retry_pending : BOOLEAN]
        /\ vlc'.input_buf_idx = vlc.input_buf_idx /\ vlc'.retry_pending /\ vlc'.retry_count = 0
    BY <1>1, <2>1 DEF IInv, Types
  <2>3. Pipeline(out)' /\ Serviced' /\ Fetched'
    BY <1>1, <2>1, PipelineKept DEF Away
  <2> QED BY <1>1, <2>1, <2>2, <2>3 DEF IInv, Types, Input, Expanding
<1> QED BY <1>2, <1>3
-----------------------------------------------------------------------------
(* movie_play and movie_service_video_ops *)

(* Most of their steps look at a field and go on. *)
LEMMA LookStep ==
    ASSUME IInv, UNCHANGED <<idle, elsewhere, out>>,
           \/ Check \/ Service \/ PollGpu \/ Claim \/ Guard \/ Release \/ Flip
    PROVE  IInv'
<1> USE OutputAssumption
<1>1. out \in Output /\ Len(out.uploads) \in Nat
  BY DEF IInv, Pipeline, Output
<1>2. Pipeline(out)'
  BY DEF IInv, Pipeline, Alternating, Bounded, Asked
<1>3. at' \notin {"vlc", "expand", "submit"} /\ at \notin {"vlc", "expand", "submit"}
  BY DEF Check, Service, PollGpu, Claim, Guard, Release, Flip, Leave
<1>4. Input'
  BY <1>3 DEF IInv, Input, Expanding, idle
<1>5. Types'
  BY DEF IInv, Types, Check, Service, PollGpu, Claim, Guard, Release, Flip, idle, elsewhere
<1>6. Serviced' /\ Fetched'
  <2>1. CASE Check \/ Service \/ Flip
    BY <2>1 DEF IInv, Serviced, Ordered, Fetched, Check, Service, Flip, Leave
  <2>2. CASE PollGpu
    BY <1>1, <2>2 DEF IInv, Serviced, Ordered, Fetched, PollGpu, Leave, Deferred, DrawSync
  <2>3. CASE Claim \/ Guard \/ Release
    BY <2>3 DEF IInv, Serviced, Ordered, Fetched, Claim, Guard, Release, Leave
  <2> QED BY <2>1, <2>2, <2>3
<1> QED BY <1>2, <1>4, <1>5, <1>6 DEF IInv

LEMMA PresentStep ==
    ASSUME IInv, Present, UNCHANGED elsewhere
    PROVE  IInv'
<1> USE OutputAssumption
<1>1. /\ out' \in Output /\ out'.requests = out.requests /\ out'.uploads = out.uploads
      /\ out'.mdec_busy = out.mdec_busy /\ out'.out_buf_idx = out.out_buf_idx /\ out'.x = out.x
      /\ out'.draw_sync_target = out.draw_sync_target /\ ~out'.frame_ready
      /\ out'.pending_vram_upload = out.pending_vram_upload
      /\ out'.pending_mdec_decode = out.pending_mdec_decode
  BY DEF IInv, Pipeline, Output, Present
<1>2. Types' /\ Input'
  BY DEF IInv, Types, Input, Expanding, Present, idle, elsewhere
<1> QED BY <1>1, <1>2
    DEF Present, IInv, Pipeline, Alternating, Bounded, Asked, Serviced, Ordered, Fetched

LEMMA DecodeStep ==
    ASSUME IInv, Decode, UNCHANGED elsewhere
    PROVE  IInv'
<1> USE OutputAssumption
<1>1. /\ at = "decode" /\ busy /\ UNCHANGED <<coming, inbuf, vlc, reading, busy, outbuf, vram>>
      /\ out \in Output /\ Pipeline(out) /\ Ordered(out)
  BY DEF Decode, IInv, Pipeline, Serviced, still, idle, elsewhere
<1>2. Types' /\ Input'
  BY <1>1 DEF IInv, Types, Input, Expanding, Decode
<1>3. CASE out.pending_mdec_decode
  <2>1. out' = DecDCTout(out) /\ at' = "clear_decode"
    BY <1>3 DEF Decode, StillWanted
  <2>2. /\ out.requests = <<>> /\ out.mdec_busy # "idle" /\ Len(out.uploads) < DeferThreshold
    BY <1>1, <1>3 DEF IInv, Serviced, Ordered
  <2>3. /\ Pipeline(DecDCTout(out)) /\ DecDCTout(out).requests # <<>>
        /\ DecDCTout(out).mdec_busy # "idle" /\ DecDCTout(out).pending_mdec_decode
    BY <1>1, <1>3, <2>2, Requested
  <2>4. Pipeline(out)' /\ Serviced' /\ Fetched'
    BY <1>1, <2>1, <2>3 DEF Pipeline, Alternating, Bounded, Asked, Serviced, Fetched
  <2> QED BY <1>2, <2>4 DEF IInv
<1>4. CASE ~out.pending_mdec_decode
  BY <1>1, <1>2, <1>4 DEF Decode, StillWanted, IInv, Pipeline, Alternating, Bounded, Asked,
                          Serviced, Ordered, Fetched
<1> QED BY <1>3, <1>4

LEMMA ClearDecodeStep ==
    ASSUME IInv, ClearDecode, UNCHANGED elsewhere
    PROVE  IInv'
<1> USE OutputAssumption
<1>1. /\ at = "clear_decode" /\ at' = "release" /\ busy /\ busy' = busy
      /\ out.requests # <<>> /\ out.mdec_busy # "idle"
  BY DEF ClearDecode, IInv, Serviced
<1>2. /\ out' \in Output /\ out'.requests = out.requests /\ out'.uploads = out.uploads
      /\ out'.mdec_busy = out.mdec_busy /\ out'.out_buf_idx = out.out_buf_idx /\ out'.x = out.x
      /\ out'.draw_sync_target = out.draw_sync_target /\ out'.frame_ready = out.frame_ready
      /\ out'.pending_vram_upload = out.pending_vram_upload /\ ~out'.pending_mdec_decode
  BY DEF IInv, Pipeline, Output, ClearDecode
<1>3. Types' /\ Input'
  BY DEF IInv, Types, Input, Expanding, ClearDecode, still, idle, elsewhere
<1> QED BY <1>1, <1>2, <1>3
    DEF IInv, Pipeline, Alternating, Bounded, Asked, Serviced, Ordered, Fetched

LEMMA ForegroundStep ==
    ASSUME IInv, Foreground
    PROVE  IInv'
<1>1. UNCHANGED elsewhere
  BY DEF Foreground, elsewhere
<1>2. CASE Retry \/ NextFrame \/ NoFrame \/ Exhausted \/ Continue \/ Expand \/ SubmitOrWait
  BY <1>1, <1>2, RetryStep, NextFrameStep, NoFrameStep, ExhaustedStep, ContinueStep, ExpandStep,
     SubmitOrWaitStep
<1>3. CASE Check \/ Service \/ PollGpu \/ Claim \/ Guard \/ Release \/ Flip
  <2>1. UNCHANGED <<idle, elsewhere, out>>
    BY <1>1, <1>3 DEF Check, Service, PollGpu, Claim, Guard, Release, Flip, still
  <2> QED BY <1>3, <2>1, LookStep
<1>4. CASE Present \/ Decode \/ ClearDecode
  BY <1>1, <1>4, PresentStep, DecodeStep, ClearDecodeStep
<1> QED BY <1>2, <1>3, <1>4 DEF Foreground

LEMMA StepHolds ==
    ASSUME ~SliceWindow
    PROVE  IInv /\ [Next]_vars => IInv'
<1> SUFFICES ASSUME IInv, [Next]_vars PROVE IInv'
  OBVIOUS
<1>1. CASE Foreground
  BY <1>1, ForegroundStep
<1>2. CASE SliceDone
  BY <1>2, SliceDoneStep
<1>3. CASE UploadDone
  BY <1>3, UploadDoneStep
<1>4. CASE DrawSyncCallback
  BY <1>4, DrawSyncCallbackStep
<1>5. CASE FrameComes
  BY <1>5, FrameComesStep
<1>6. CASE UNCHANGED vars
  BY <1>6 DEF vars, IInv, Types, Pipeline, Alternating, Bounded, Asked, Serviced, Ordered,
              Fetched, Input, Expanding
<1> QED BY <1>1, <1>2, <1>3, <1>4, <1>5, <1>6 DEF Next

LEMMA Invariance ==
    ASSUME ~SliceWindow
    PROVE  Spec => []IInv
<1>1. IInv /\ [Next]_vars => IInv'
  BY StepHolds
<1> QED BY <1>1, InitHolds, PTL DEF Spec

-----------------------------------------------------------------------------
(***************************************************************************)
(* Two slices and two frames at a time: whatever the interrupts do between *)
(* two steps of the player, no slice is decoded into a buffer the GPU has  *)
(* still to fetch, and no frame is expanded into the buffer the MDEC       *)
(* reads, for every number of slices, frames and retries                   *)
(* (movie_schedule_next_decode, movie_service_video_ops, movie_update).    *)
(***************************************************************************)
THEOREM BuffersStayApart ==
    ASSUME ~SliceWindow
    PROVE  Spec => []BuffersApart
<1>1. IInv => BuffersApart
  <2> SUFFICES ASSUME IInv PROVE BuffersApart
    OBVIOUS
  <2> USE OutputAssumption
  <2>1. /\ out \in Output /\ ~out.pending_vram_upload /\ Alternating(out)
        /\ out.requests = <<>> \/ Asked(out)
    BY DEF IInv, Pipeline, Bounded
  <2>2. ASSUME NEW r \in 1..Len(out.requests), NEW u \in 1..Len(out.uploads)
        PROVE  out.uploads[u].buf # out.requests[r]
    <3>1. out.requests = <<out.out_buf_idx>> /\ Len(out.uploads) < DeferThreshold
      BY <2>1, <2>2 DEF Asked
    <3>2. r = 1 /\ u = Len(out.uploads) /\ out.uploads # <<>>
      BY <2>1, <2>2, <3>1 DEF Output
    <3>3. out.uploads[u].buf = 1 - out.out_buf_idx /\ out.requests[r] = out.out_buf_idx
      BY <2>1, <3>1, <3>2 DEF Alternating
    <3> QED BY <2>1, <3>3 DEF Output, Buffers
  <2>3. reading.slice < Slices => inbuf[reading.buf].whole
    BY DEF IInv, Input
  <2> QED BY <2>1, <2>2, <2>3 DEF BuffersApart
<1> QED BY <1>1, Invariance, PTL

(***************************************************************************)
(* No upload is ever put off: the threshold that lets a slice be decoded   *)
(* leaves room for its upload, for both thresholds that two output buffers *)
(* allow (movie_mdec_out_callback).                                        *)
(***************************************************************************)
THEOREM UploadsGoAtOnce ==
    ASSUME ~SliceWindow
    PROVE  Spec => []UploadedAtOnce
<1>1. IInv => UploadedAtOnce
  BY DEF IInv, Pipeline, UploadedAtOnce
<1> QED BY <1>1, Invariance, PTL

(***************************************************************************)
(* The pending flags say what must happen next: exactly one step is ahead  *)
(* of an image in the MDEC and none of an idle one, so that the foreground *)
(* and the callbacks neither take it twice nor lose it                     *)
(* (movie_service_video_ops, draw_sync_callback).                          *)
(***************************************************************************)
THEOREM OneStepIsAhead ==
    ASSUME ~SliceWindow
    PROVE  Spec => []OneStepAhead
<1>1. IInv => OneStepAhead
  <2> SUFFICES ASSUME IInv, at # "clear_decode"
               PROVE  Cardinality(Ahead) = IF out.mdec_busy = "idle" THEN 0 ELSE 1
    BY DEF OneStepAhead
  <2>1. Ordered(out) /\ ~out.pending_vram_upload
    BY DEF IInv, Pipeline, Serviced
  <2>2. CASE out.mdec_busy = "idle"
    <3>1. Ahead = {}
      BY <2>1, <2>2 DEF Ahead, Ordered
    <3> QED BY <2>2, <3>1, FS_EmptySet
  <2>3. CASE out.mdec_busy # "idle"
    <3>1. Ahead = {"slice"} \/ Ahead = {"decode"}
      BY <2>1, <2>3 DEF Ahead, Ordered
    <3>2. Cardinality({"slice"}) = 1 /\ Cardinality({"decode"}) = 1
      BY FS_Singleton
    <3> QED BY <2>3, <3>1, <3>2
  <2> QED BY <2>2, <2>3
<1> QED BY <1>1, Invariance, PTL

(* The fields keep their values, at most one slice is asked for and no more *)
(* uploads are under way than the threshold lets through.                   *)
THEOREM OutputTypeCorrect ==
    ASSUME ~SliceWindow
    PROVE  Spec => []TypeOK
<1>1. IInv => TypeOK
  <2> SUFFICES ASSUME IInv PROVE TypeOK
    OBVIOUS
  <2> USE OutputAssumption
  <2>1. Len(out.requests) <= 1
    <3>1. out.requests = <<>> \/ out.requests = <<out.out_buf_idx>>
      BY DEF IInv, Pipeline, Bounded, Asked
    <3>2. CASE out.requests = <<>>
      BY <3>2
    <3>3. CASE out.requests = <<out.out_buf_idx>>
      <4>1. Len(<<out.out_buf_idx>>) = 1
        OBVIOUS
      <4> QED BY <3>3, <4>1
    <3> QED BY <3>1, <3>2, <3>3
  <2>2. /\ out.out_buf_idx \in Buffers /\ out.chunk_idx \in {0, 1}
        /\ out.mdec_busy \in {"idle", "active", "chained"}
        /\ out.end_state \in {"running", "near_end", "done"}
    BY DEF IInv, Pipeline, Output
  <2>3. out.x \in 0..Slices - 1 /\ out.draw_sync_target \in 0..DeferThreshold + 1
    BY DEF IInv, Pipeline, Output
  <2>4. Len(out.uploads) <= DeferThreshold
    BY DEF IInv, Pipeline, Bounded
  <2> QED BY <2>1, <2>2, <2>3, <2>4 DEF IInv, Types, TypeOK
<1> QED BY <1>1, Invariance, PTL
=============================================================================
