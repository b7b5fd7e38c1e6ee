------------------------ MODULE MovieRingsProperties ------------------------
(***************************************************************************)
(* What the movie's rings promise.                                         *)
(***************************************************************************)
EXTENDS MovieRings, SequencesExt

RingOK(r, capacity) ==
    /\ {r.write, r.read, r.wrap} \subseteq 0..capacity
    /\ {r.last, r.consumed} \subseteq Nat

(* The values the fields take; no index leaves its ring. *)
TypeOK ==
    /\ RingOK(video, VideoCapacity) /\ RingOK(audio.r, AudioCapacity)
    /\ vslots \in [0..VideoCapacity - 1 -> Sector \cup {Blank}]
    /\ aslots \in [0..AudioCapacity - 1 -> Sector \cup {Blank}]
    /\ audio.buffered \in 0..AudioCapacity
    /\ fg.vlc \in 0..VlcRetries /\ fg.local \in Nat
    /\ mdec \in [busy : BOOLEAN, frame_ready : BOOLEAN, retry_pending : BOOLEAN]
    /\ ends \in [stopped : BOOLEAN, end_of_stream : BOOLEAN,
                 state : {"running", "near_end", "done"}]
    /\ xa.upload_block \in -1..Blocks - 1
    /\ audio_stream_state \in {"idle", "sector_ready", "primed"}

(***************************************************************************)
(* Every completed video entry is expanded once, whole and in order: what  *)
(* the foreground finds in the slots is a prefix of what the interrupt     *)
(* completed (cd_sector_callback, get_next_video_entry,                    *)
(* advance_video_read).                                                    *)
(***************************************************************************)
VideoInOrder == IsPrefix(taken.video, stored.video)

(***************************************************************************)
(* The same of the audio blocks at the moment the SPU takes them: an entry *)
(* is released only when it has been uploaded (advance_audio_read,         *)
(* akao_xa_get_position).                                                  *)
(***************************************************************************)
AudioInOrder == IsPrefix(taken.audio, stored.audio)

(***************************************************************************)
(* No block is announced to the SPU before the producer has completed it,  *)
(* or twice: the queued count and the wrapped read index together always   *)
(* point behind the newest announced entry (get_next_audio_entry).         *)
(***************************************************************************)
AnnouncedOnce == xa.filled <= Len(stored.audio)

(***************************************************************************)
(* "Return 1 if an entry is available, otherwise 0" (get_next_audio_entry):*)
(* the entry it is about to return is one the producer has completed.      *)
(***************************************************************************)
AudioEntryValid ==
    fg.at = "compare_audio" /\ (fg.local # audio.r.write \/ audio.buffered = 0)
        => fg.local \in DOMAIN aslots

(***************************************************************************)
(* A movie ends, whatever was dropped, abandoned or paused on the way: the *)
(* producer that waits for room and the consumer that waits for entries    *)
(* never wait for each other (movie_update, movie_play).                   *)
(***************************************************************************)
MovieEnds == <>(fg.at = "over")

(***************************************************************************)
(* Sound a drive error has paused is not forgotten: as long as it is       *)
(* paused the drive is still out of order or audio_stream_state says that  *)
(* it is to be resumed.  The foreground clears the state after it has      *)
(* resumed the sound, and an interrupt may have set it in between          *)
(* (movie_update, cdrom_handle_recovery_sync, cdrom_process_state).        *)
(***************************************************************************)
PauseRemembered == xa.paused => recovery.active \/ audio_stream_state # "idle"
=============================================================================
