------------------------------ MODULE CdService ------------------------------
(***************************************************************************)
(* What the CD command queue promises its callers: a first-in first-out    *)
(* service.  A request is finished once, in its turn; a read is finished   *)
(* when each of its sectors is in its sink, and nothing but the request in *)
(* turn writes to a sink.  A seek that another request follows may be      *)
(* passed over.  Clearing forgets every request.                           *)
(***************************************************************************)
EXTENDS Integers, Sequences

CONSTANTS
    Requests,      \* the requests callers may make
    Capacity,      \* how many may be pending
    IsSeek(_),     \* the requests that only move the head
    IsData(_),     \* the requests that fill their sink
    Sink(_),       \* the sink a request fills
    Image(_),      \* Image(r)[o] = the sector that belongs at offset o
    Sinks, Offsets, Sectors

VARIABLES pending, contents

vars == <<pending, contents>>

TypeOK ==
    /\ pending \in Seq(Requests) /\ Len(pending) <= Capacity
    /\ contents \in [Sinks -> [Offsets -> Sectors]]

Init ==
    /\ pending = <<>>
    /\ contents \in [Sinks -> [Offsets -> Sectors]]

(* The service takes a request. *)
Accept(r) ==
    /\ Len(pending) < Capacity
    /\ pending' = Append(pending, r)
    /\ UNCHANGED contents

(* One more sector of the request in turn reaches its place. *)
FillsIn(r) ==
    /\ IsData(r)
    /\ \E o \in DOMAIN Image(r) :
         contents' = [contents EXCEPT ![Sink(r)][o] = Image(r)[o]]

Fill ==
    /\ pending # <<>>
    /\ FillsIn(Head(pending))
    /\ UNCHANGED pending

Whole(r) == \A o \in DOMAIN Image(r) : contents'[Sink(r)][o] = Image(r)[o]

(* The request in turn is done; seeks behind it that others follow are passed over. *)
Finish(k) ==
    /\ k \in 1..Len(pending)
    /\ \A i \in 2..k : IsSeek(pending[i]) /\ i < Len(pending)
    /\ pending' = SubSeq(pending, k + 1, Len(pending))
    /\ FillsIn(Head(pending)) \/ UNCHANGED contents
    /\ IsData(Head(pending)) => Whole(Head(pending))

Clear ==
    /\ pending' = <<>>
    /\ UNCHANGED contents

Next ==
    \/ \E r \in Requests : Accept(r)
    \/ Fill
    \/ \E k \in 1..Len(pending) : Finish(k)
    \/ Clear

Spec == Init /\ [][Next]_vars
=============================================================================
