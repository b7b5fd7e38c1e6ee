------------------------- MODULE CdStreamProperties -------------------------
(***************************************************************************)
(* What the stream loader promises.                                        *)
(***************************************************************************)
EXTENDS CdStream

(***************************************************************************)
(* Every byte the decoder may read without asking again is in its place:   *)
(* from the cursor to the end of the span the buffer holds the bytes that  *)
(* follow the ones expanded, behind the span the wrapped ones, whatever    *)
(* sectors arrive, wrap or are refused while the foreground decodes,       *)
(* releases or reconciles (cdrom_handle_stream_data, cdrom_stream).        *)
(***************************************************************************)
Cursor == IF fg.at = "decoding" THEN fg.source ELSE state.input_cursor
Span == SpanEnd - Cursor

(* Bytes that are in, not expanded and not in the span. *)
Behind == sent - (output + 1) - Span

InputInPlace ==
    sent > 0 /\ fg.at # "done" =>
        /\ \A i \in 0..Span - 1 : buffer[Cursor + i] = output + 1 + i
        /\ \A i \in 0..Behind - 1 : buffer[WrapStart + i] = output + 1 + Span + i
        /\ Behind \in {0, state.wrap_overflow}

(***************************************************************************)
(* "0x801DC000 to 0x801DE000 exclusive: 8192-byte compressed-input region" *)
(* (cdrom.md): no sector and no moved byte lands outside the input buffer; *)
(* what follows it is FIELD's text cache.                                  *)
(***************************************************************************)
InsideBuffer == \A a \in Addresses : a >= Limit => buffer[a] = Junk

(***************************************************************************)
(* The word loops of both contexts and CdGetSector work on word addresses, *)
(* or the processor traps: the span ends on a word boundary until the last *)
(* sector is in, and so does what is moved.                                *)
(***************************************************************************)
WordAligned ==
    sent > 0 /\ sent < size => SpanEnd % Word = 0 /\ state.wrap_overflow % Word = 0

(***************************************************************************)
(* The loader is a byte stream: whatever the interleaving, the payload is  *)
(* expanded in order, each byte once, and every load comes to the end      *)
(* marker: the callback that refuses sectors and the foreground that waits *)
(* for input never wait for each other (cdrom_stream).                     *)
(***************************************************************************)
Stream == INSTANCE CdByteStream
    WITH Lengths <- Sizes, Capacity <- Limit + Guard, length <- size, fed <- sent,
         taken <- IF output = 0 THEN 0 ELSE output + 1

StreamImplements == Stream!Spec
=============================================================================
