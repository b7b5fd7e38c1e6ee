---------------------------- MODULE MCMovieRings ----------------------------
EXTENDS MovieRingsProperties

Entry(type, frame, n) ==
    [k \in 1..n |-> [type |-> type, frame |-> frame, idx |-> k - 1, count |-> n,
                     final |-> type = "audio" /\ frame = 6]]

(* Two audio sectors and one to three video sectors per frame; the stream  *)
(* goes on behind the last frame of the movie.                             *)
V(frame, n) == Entry("video", frame, n)
A(frame) == Entry("audio", frame, 2)

(* The sound runs twice through its ring; only the last frame was readable. *)
Sound == A(1) \o A(2) \o A(3) \o A(4) \o A(5) \o A(6) \o V(6, 1)

Whole ==
    A(1) \o V(1, 3) \o A(2) \o V(2, 3) \o A(3) \o V(3, 3) \o A(6) \o V(6, 1) \o V(7, 1)

(* An audio entry without its last sector, and two such video entries. *)
Cut ==
    A(1) \o V(1, 3) \o SubSeq(A(2), 1, 1) \o V(2, 2) \o A(3) \o SubSeq(V(3, 3), 1, 2)
        \o A(6) \o SubSeq(V(6, 2), 1, 1) \o V(7, 1)

(* The last frame does not fit behind the others: the ring wraps early. *)
Early ==
    A(1) \o V(1, 3) \o SubSeq(A(2), 1, 1) \o V(2, 2) \o A(3) \o V(3, 3) \o A(6) \o V(6, 2)

MCStreams == {Sound, Whole, Cut, Early}
=============================================================================
