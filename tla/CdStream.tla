------------------------------ MODULE CdStream ------------------------------
(***************************************************************************)
(* The stream loader: cdrom_stream of src/src/main/cdrom.c decodes a       *)
(* resource in the foreground while the sector callback                    *)
(* cdrom_handle_stream_data (cdrom_decompress.c) fills the input buffer    *)
(* from interrupts.  The two share CdStreamState in the scratchpad.        *)
(*                                                                         *)
(* Addresses are relative to CD_STREAM_BUFFER_START.  A byte of the        *)
(* resource is its position in it: 0 is the header, the rest the payload.  *)
(* The drive and the command queue are what CdService promises: sectors in *)
(* order, each once, a refused one again.                                  *)
(*                                                                         *)
(* Interrupts land between any two steps of the foreground: a step is one  *)
(* look at or one store to the shared fields, or one opcode.  From the     *)
(* look that finds nothing new to the release of the span it is a few      *)
(* instructions and sectors are milliseconds apart, so that one sector at  *)
(* most lands there.                                                       *)
(***************************************************************************)
EXTENDS Integers

CONSTANTS
    SectorSize,      \* CD_DATA_SECTOR_SIZE, bytes
    Sectors,         \* CD_STREAM_BUFFER_SECTORS
    Guard,           \* CD_STREAM_DECOMPRESS_GUARD_SIZE
    Word,            \* BYTES_PER_WORD
    OpcodeLengths,   \* bytes an opcode and its operands take
    Sizes            \* sizes of the resources

Limit == Sectors * SectorSize
WrapStart == Guard

ASSUME GeometryAssumption ==
    /\ Word \in Nat \ {0} /\ Guard \in Nat \ {0}
    /\ SectorSize \in Nat \ {0} /\ Sectors \in Nat \ 0..2
    /\ SectorSize % Word = 0 /\ Guard % Word = 0 /\ Guard < SectorSize
    /\ OpcodeLengths \subseteq 1..Guard
    /\ Sizes \subseteq Nat \ {0, 1}

Garbled == -1    \* output that is not the expansion of a prefix of the payload
Junk == -1       \* a byte of memory that came from no sector
Addresses == 0..Limit + Guard + Word

VARIABLES
    size,        \* bytes of the resource being loaded
    sent,        \* bytes delivered before the pending sector
    state,       \* CdStreamState
    buffer,      \* the input buffer and the memory behind it
    fg,          \* the foreground: where it is, and its locals
    output       \* payload bytes expanded into the destination so far

vars == <<size, sent, state, buffer, fg, output>>

Points == {"waiting", "looking", "decoding", "checking", "releasing", "clearing",
           "released", "reconciling", "done"}
ReleaseWindow == {"releasing", "clearing", "released"}

TypeOK ==
    /\ size \in Sizes
    /\ sent \in 0..size
    /\ state \in [data_ready : BOOLEAN, input_complete : BOOLEAN,
                  buffer_start : Addresses, input_cursor : Addresses,
                  bytes_buffered : 0..Limit + Guard, bytes_consumed : 0..Limit + Guard,
                  wrap_overflow : 0..Limit]
    /\ buffer \in [Addresses -> {Junk} \cup 0..size - 1]
    /\ fg \in [at : Points, open : BOOLEAN, remaining_size : Int, bytes_buffered : Nat,
               decompress_end : Int, source : Addresses]
    /\ output \in {Garbled} \cup 0..size - 1

(* cdrom_stream has cleared the flags and queued the read. *)
Init ==
    /\ size \in Sizes
    /\ sent = 0
    /\ state = [data_ready |-> FALSE, input_complete |-> FALSE, buffer_start |-> 0,
                input_cursor |-> 0, bytes_buffered |-> 0, bytes_consumed |-> 0,
                wrap_overflow |-> 0]
    /\ buffer = [a \in Addresses |-> Junk]
    /\ fg = [at |-> "waiting", open |-> TRUE, remaining_size |-> size - 1, bytes_buffered |-> 0,
             decompress_end |-> 0, source |-> 0]
    /\ output = 0

-----------------------------------------------------------------------------
(* Moving and storing bytes. *)

(* n bytes rounded up to whole words. *)
WordsOf(n) == ((n + Word - 1) \div Word) * Word

(* Slip of Padding: the rest moves unaligned. *)
Unpadded(n) == 0

(* What n unread bytes need in front to end on a word boundary. *)
Padding(n) == (Word - (n % Word)) % Word

(* The word copy loops: upwards, so that a move to lower addresses is whole. *)
Moved(from, to, n) ==
    [a \in Addresses |->
        IF a \notin to..to + WordsOf(n) - 1 THEN buffer[a]
        ELSE IF to <= from THEN buffer[from + (a - to)]
        ELSE buffer[from + ((a - to) % (to - from))]]

(* The sector's payload is copied to dst, rounded up to words. *)
Stored(mem, dst, n) ==
    [a \in Addresses |->
        IF a \in dst..dst + n - 1 THEN sent + (a - dst)
        ELSE IF a \in dst..dst + WordsOf(n) - 1 THEN Junk
        ELSE mem[a]]

(* Bytes the decoder has not read of the span it has released. *)
Unread == state.bytes_buffered - state.bytes_consumed

(* Unread input in a span goes right in front of the wrapped sectors. *)
Unwrapped(consumed, more) ==
    LET unread == state.bytes_buffered - consumed
    IN [state EXCEPT !.input_cursor = WrapStart - unread,
                     !.buffer_start = WrapStart - unread,
                     !.bytes_buffered = state.wrap_overflow + unread + more]

UnwrappedBytes(consumed) ==
    LET unread == state.bytes_buffered - consumed
        pad == Padding(unread)
    IN Moved(state.buffer_start + consumed - pad, WrapStart - unread - pad, unread + pad)

-----------------------------------------------------------------------------
(* The sector callback, cdrom_handle_stream_data, and the copy after it. *)

Pending == size - sent
TransferSize == IF Pending > SectorSize THEN SectorSize ELSE Pending
InFlight == sent < size

Extract(mem, dst) ==
    /\ buffer' = Stored(mem, dst, TransferSize)
    /\ sent' = sent + TransferSize

(* The first sector: byte 0 is the header, the input starts at byte 1. *)
FirstSector ==
    /\ sent = 0
    /\ state' = [state EXCEPT !.data_ready = TRUE, !.input_cursor = 1, !.buffer_start = 1,
                              !.bytes_buffered = TransferSize - 1, !.wrap_overflow = 0]
    /\ Extract(buffer, 0)

(* The decoder has released its span and sectors have wrapped. *)
JoinWrapped ==
    /\ sent # 0 /\ ~state.data_ready /\ state.wrap_overflow # 0
    /\ state' = [Unwrapped(state.bytes_consumed, TransferSize)
                   EXCEPT !.wrap_overflow = 0, !.data_ready = TRUE]
    /\ Extract(UnwrappedBytes(state.bytes_consumed), WrapStart + state.wrap_overflow)

(* The decoder has released its span: the rest goes to the start of the buffer. *)
Compact ==
    LET pad == Padding(Unread)
    IN /\ sent # 0 /\ ~state.data_ready /\ state.wrap_overflow = 0
       /\ state' = [state EXCEPT !.bytes_buffered = Unread + TransferSize,
                                 !.input_cursor = pad, !.buffer_start = pad,
                                 !.data_ready = TRUE]
       /\ Extract(Moved(state.buffer_start + state.bytes_consumed - pad, 0, Unread + pad),
                  Unread + pad)

SpanEnd == state.buffer_start + state.bytes_buffered
Completed(s) == [s EXCEPT !.input_complete = @ \/ Pending = TransferSize]

(* Slip of Wraps: the end of the span counts, not that of the sector. *)
WrapsLate == state.wrap_overflow # 0 \/ SpanEnd > Limit

Wraps == state.wrap_overflow # 0 \/ SpanEnd + TransferSize > Limit

(* The decoder is at work: the sector goes behind the span ... *)
Extend ==
    /\ sent # 0 /\ state.data_ready /\ ~Wraps
    /\ state' = Completed([state EXCEPT !.bytes_buffered = @ + TransferSize])
    /\ Extract(buffer, SpanEnd)

(* Slip of RoomToWrap: the sector before the wrapped ones is not counted. *)
RoomForLess == state.input_cursor >= WrapStart + state.wrap_overflow

(* The decoder has read past the place the sector would wrap to. *)
RoomToWrap == state.input_cursor >= WrapStart + state.wrap_overflow + TransferSize

(* ... or, past the end of the buffer, to its front; without room there it *)
(* is refused and the drive reads it again.                                *)
Wrap ==
    /\ sent # 0 /\ state.data_ready /\ Wraps
    /\ RoomToWrap
    /\ state' = Completed([state EXCEPT !.wrap_overflow = @ + TransferSize])
    /\ Extract(buffer, WrapStart + state.wrap_overflow)

Sector ==
    /\ InFlight
    /\ fg.at \in ReleaseWindow => fg.open
    /\ FirstSector \/ JoinWrapped \/ Compact \/ Extend \/ Wrap
    /\ fg' = [fg EXCEPT !.open = fg.at \notin ReleaseWindow]
    /\ UNCHANGED <<size, output>>

-----------------------------------------------------------------------------
(* The foreground, cdrom_stream. *)

Goto(point) == fg' = [fg EXCEPT !.at = point]

(* Input has been published: take what is buffered. *)
Look ==
    /\ fg.at = "waiting" /\ state.data_ready
    /\ fg' = [fg EXCEPT !.at = "looking", !.bytes_buffered = state.bytes_buffered]
    /\ UNCHANGED <<size, sent, state, buffer, output>>

(* Slip of DecodeLimit: the guard is forgotten. *)
UnguardedLimit == state.buffer_start + fg.bytes_buffered

(* How far an opcode may start: short of the end while more is to come. *)
DecodeLimit ==
    IF fg.bytes_buffered < fg.remaining_size
    THEN state.buffer_start + fg.bytes_buffered - Guard
    ELSE state.buffer_start + fg.remaining_size

Begin ==
    /\ fg.at = "looking"
    /\ fg' = [fg EXCEPT !.at = "decoding", !.decompress_end = DecodeLimit,
                        !.source = state.input_cursor]
    /\ UNCHANGED <<size, sent, state, buffer, output>>

(***************************************************************************)
(* cdrom_decompress_data expands one opcode; the end marker is the last    *)
(* byte of the resource.  If it reads a byte that is not the next in order *)
(* what it does from there on is of no use to anyone.                      *)
(***************************************************************************)
Reads(n) == \A i \in 0..n - 1 : buffer[fg.source + i] = output + 1 + i

Expand ==
    /\ fg.at = "decoding" /\ fg.source < fg.decompress_end
    /\ \E n \in OpcodeLengths :
         IF Reads(1) /\ output + 2 = size
         THEN /\ output' = output + 1
              /\ state' = [state EXCEPT !.input_cursor = fg.source + 1]
              /\ Goto("done")
         ELSE IF Reads(n)
         THEN /\ output + n < size - 1
              /\ output' = output + n
              /\ state' = [state EXCEPT !.input_cursor = fg.source + n]
              /\ fg' = [fg EXCEPT !.source = @ + n]
         ELSE /\ output + n < size - 1
              /\ output' = Garbled
              /\ Goto("done")
              /\ UNCHANGED state
    /\ UNCHANGED <<size, sent, buffer>>

Paused ==
    /\ fg.at = "decoding" /\ fg.source >= fg.decompress_end
    /\ Goto("checking")
    /\ UNCHANGED <<size, sent, state, buffer, output>>

(* More has come meanwhile: go on; else release the span. *)
Check ==
    /\ fg.at = "checking"
    /\ IF fg.bytes_buffered # state.bytes_buffered
       THEN fg' = [fg EXCEPT !.at = "looking", !.bytes_buffered = state.bytes_buffered]
       ELSE fg' = [fg EXCEPT !.at = "releasing", !.open = TRUE]
    /\ UNCHANGED <<size, sent, state, buffer, output>>

(* bytes_consumed is published ... *)
Publish ==
    /\ fg.at = "releasing"
    /\ state' = [state EXCEPT !.bytes_consumed = state.input_cursor - state.buffer_start]
    /\ fg' = [fg EXCEPT !.at = "clearing",
                        !.remaining_size = @ - (state.input_cursor - state.buffer_start)]
    /\ UNCHANGED <<size, sent, buffer, output>>

(* ... and the span released: cdrom_clear_data_ready. *)
Release ==
    /\ fg.at = "clearing"
    /\ state' = [state EXCEPT !.data_ready = FALSE]
    /\ Goto("released")
    /\ UNCHANGED <<size, sent, buffer, output>>

(* If the last sector is in, no callback will join the rest to it. *)
Continue ==
    /\ fg.at = "released"
    /\ Goto(IF state.input_complete THEN "reconciling" ELSE "waiting")
    /\ UNCHANGED <<size, sent, state, buffer, output>>

(* The last sector is in, nothing interrupts any more: one step. *)
Reconcile ==
    /\ fg.at = "reconciling"
    /\ Goto("waiting")
    /\ IF state.wrap_overflow # 0
       THEN /\ state' = [Unwrapped(state.bytes_consumed, 0) EXCEPT !.data_ready = TRUE]
            /\ buffer' = UnwrappedBytes(state.bytes_consumed)
       ELSE /\ state' = [state EXCEPT !.buffer_start = @ + state.bytes_consumed,
                                      !.bytes_buffered = @ - state.bytes_consumed,
                                      !.data_ready = TRUE]
            /\ UNCHANGED buffer
    /\ UNCHANGED <<size, sent, output>>

Foreground ==
    \/ Look \/ Begin \/ Expand \/ Paused \/ Check
    \/ Publish \/ Release \/ Continue \/ Reconcile

Next == Sector \/ Foreground

(* The drive delivers and the loader runs. *)
Spec == Init /\ [][Next]_vars /\ WF_vars(Sector) /\ WF_vars(Foreground)
=============================================================================
