---------------------------- MODULE CdByteStream ----------------------------
(***************************************************************************)
(* What a stream loader promises: the bytes of a resource come in from the *)
(* disc in order and leave through the decoder in order, each once, and no *)
(* more than Capacity of them are held in between.  The load ends when the *)
(* last byte has been taken.                                               *)
(***************************************************************************)
EXTENDS Integers

CONSTANTS
    Lengths,    \* how many bytes a resource may have
    Capacity    \* how many bytes may be in and not yet out

VARIABLES length, fed, taken

vars == <<length, fed, taken>>

Init == length \in Lengths /\ fed = 0 /\ taken = 0

(* Some more bytes come from the disc. *)
Feed ==
    /\ fed' \in fed + 1..length
    /\ fed' - taken <= Capacity
    /\ UNCHANGED <<length, taken>>

(* The next bytes in order are expanded. *)
Take ==
    /\ taken' \in taken + 1..fed
    /\ UNCHANGED <<length, fed>>

Next == Feed \/ Take

(* A loader that is fed and run comes to the last byte. *)
Spec == Init /\ [][Next]_vars /\ WF_vars(Next)
=============================================================================
