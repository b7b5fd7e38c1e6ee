----------------------------- MODULE MCCdSystem -----------------------------
(***************************************************************************)
(* Small instances of CdSystem for TLC.  Sector 0 is the disc validation   *)
(* sector; r1 has two sectors, r2 one, and together they fill the disc.    *)
(***************************************************************************)
EXTENDS CdDiscs, TLC

CONSTANTS r1, r2, b1, b2

MCExtent == (r1 :> [loc |-> 1, size |-> 2]) @@ (r2 :> [loc |-> 3, size |-> 1])

Read(r, b) == [command |-> "ReadN", resource |-> r, dst |-> b, callback |-> NULL]
Stream(r) == [command |-> "ReadN", resource |-> r, dst |-> NULL, callback |-> StreamCallback]
Movie(r) == [command |-> "ReadS", resource |-> r, dst |-> NULL, callback |-> XaCallback]
Seek(r) == [command |-> "SeekL", resource |-> r, dst |-> NULL, callback |-> NULL]

OrderRequests == {Read(r1, b1), Read(r2, b1), Seek(r2), Seek(r1)}
MovieRequests == {Movie(r1), Seek(r1), Read(r2, b1)}
DataRequests == {Read(r1, b1), Stream(r1), Seek(r2)}
MixedRequests == {Stream(r1), Movie(r1)}
=============================================================================
