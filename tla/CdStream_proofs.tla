-------------------------- MODULE CdStream_proofs --------------------------
(***************************************************************************)
(* The stream loader, for every geometry of the input buffer and every set *)
(* of opcodes: TypeOK, WordAligned, InputInPlace, and that each of its     *)
(* steps is one of the byte stream, for resources that fit the buffer or   *)
(* are whole words long (WholeWords).                                      *)
(***************************************************************************)
EXTENDS CdStreamProperties, TLAPS

Aligned(n) == n % Word = 0

(***************************************************************************)
(* The last sector is stored rounded up to words, but RoomToWrap counts    *)
(* its bytes: where it may wrap, its end has to be that of a word.         *)
(***************************************************************************)
WholeWords == \A s \in Sizes : Aligned(s) \/ s <= Limit

-----------------------------------------------------------------------------
(* Words. *)

LEMMA Geometry ==
    /\ Word \in Nat /\ Word > 0 /\ Guard \in Nat /\ Guard > 0
    /\ SectorSize \in Nat /\ Guard < SectorSize /\ Limit \in Nat
    /\ SectorSize + SectorSize + SectorSize <= Limit
    /\ Sectors \in Nat /\ Sectors > 2
    /\ Aligned(SectorSize) /\ Aligned(Guard) /\ Word <= Guard
<1>1. Sectors * SectorSize >= 3 * SectorSize
  BY GeometryAssumption
<1>2. Guard % Word = 0 => Word <= Guard
  BY GeometryAssumption
<1> QED BY <1>1, <1>2, GeometryAssumption DEF Limit, Aligned

LEMMA Multiples ==
    ASSUME NEW n \in Int
    PROVE  Aligned(n) <=> \E k \in Int : n = k * Word
<1>1. Aligned(n) => n = (n \div Word) * Word /\ (n \div Word) \in Int
  BY GeometryAssumption DEF Aligned
<1>2. ASSUME NEW k \in Int, n = k * Word PROVE Aligned(n)
  BY <1>2, GeometryAssumption DEF Aligned
<1> QED BY <1>1, <1>2

LEMMA AlignedSum ==
    ASSUME NEW m \in Int, NEW n \in Int, Aligned(m), Aligned(n)
    PROVE  Aligned(m + n) /\ Aligned(m - n)
<1>1. PICK j \in Int : m = j * Word
  BY Multiples
<1>2. PICK k \in Int : n = k * Word
  BY Multiples
<1>3. m + n = (j + k) * Word /\ m - n = (j - k) * Word
  BY <1>1, <1>2, Geometry
<1>4. j + k \in Int /\ j - k \in Int /\ m + n \in Int /\ m - n \in Int
  OBVIOUS
<1> QED BY <1>3, <1>4, Multiples

(* A word address that is not negative by a whole word is not negative. *)
LEMMA AlignedNatural ==
    ASSUME NEW n \in Int, Aligned(n), n + Word > 0
    PROVE  n \in Nat
<1>1. PICK k \in Int : n = k * Word
  BY Multiples
<1>2. (k + 1) * Word > 0
  BY <1>1, Geometry
<1>3. k >= 0
  BY <1>2, Geometry
<1> QED BY <1>1, <1>3, Geometry

LEMMA AlignedWords ==
    ASSUME NEW n \in Nat, Aligned(n)
    PROVE  WordsOf(n) = n
<1>1. PICK k \in Int : n = k * Word
  BY Multiples
<1>2. n + Word - 1 = k * Word + (Word - 1) /\ Word - 1 \in 0..Word - 1
  BY <1>1, Geometry
<1>3. (n + Word - 1) \div Word = k
  BY <1>2, GeometryAssumption
<1> QED BY <1>1, <1>3 DEF WordsOf

LEMMA WordsBound ==
    ASSUME NEW n \in Nat
    PROVE  WordsOf(n) \in Nat /\ n <= WordsOf(n) /\ WordsOf(n) < n + Word
<1> DEFINE m == n + Word - 1
           q == m \div Word
<1>1. m \in Nat /\ Word \in Nat \ {0}
  BY GeometryAssumption
<1>2. m = q * Word + (m % Word) /\ (m % Word) \in 0..Word - 1 /\ q \in Nat
  BY <1>1
<1>3. WordsOf(n) = q * Word
  BY DEF WordsOf
<1>4. q * Word \in Nat
  BY <1>1, <1>2
<1> HIDE DEF q
<1> QED BY <1>1, <1>2, <1>3, <1>4

LEMMA PaddingAligns ==
    ASSUME NEW n \in Nat
    PROVE  Padding(n) \in Nat /\ Padding(n) < Word /\ Aligned(n + Padding(n))
<1>1. Word \in Nat \ {0}
  BY GeometryAssumption
<1> DEFINE r == n % Word
           q == n \div Word
<1>2. n = q * Word + r /\ r \in 0..Word - 1 /\ q \in Int
  BY <1>1
<1>3. CASE r = 0
  <2>1. Padding(n) = 0
    BY <1>1, <1>3 DEF Padding
  <2> QED BY <2>1, <1>1, <1>3 DEF Aligned
<1>4. CASE r # 0
  <2>1. Word - r \in 0..Word - 1
    BY <1>1, <1>2, <1>4
  <2>2. Padding(n) = Word - r
    BY <1>1, <2>1 DEF Padding
  <2>3. n + Padding(n) = (q + 1) * Word /\ q + 1 \in Int /\ n + Padding(n) \in Int
    BY <1>1, <1>2, <2>2
  <2> QED BY <2>1, <2>2, <2>3, <1>1, Multiples
<1> QED BY <1>3, <1>4

-----------------------------------------------------------------------------
(* Memory. *)

Bytes == {Junk} \cup 0..size - 1

LEMMA StoredAt ==
    ASSUME TypeOK, NEW mem \in [Addresses -> Bytes], NEW dst \in Nat, NEW n \in Nat,
           sent + n <= size
    PROVE  /\ Stored(mem, dst, n) \in [Addresses -> Bytes]
           /\ \A a \in Addresses :
                /\ a >= dst /\ a < dst + n => Stored(mem, dst, n)[a] = sent + (a - dst)
                /\ a < dst \/ a >= dst + WordsOf(n) => Stored(mem, dst, n)[a] = mem[a]
<1>1. WordsOf(n) \in Nat /\ n <= WordsOf(n)
  BY WordsBound
<1>2. sent \in Nat /\ size \in Nat /\ Addresses \subseteq Nat
  BY Geometry, GeometryAssumption DEF TypeOK, Addresses
<1>3. \A a \in Addresses : /\ a >= dst /\ a < dst + n => sent + (a - dst) \in Bytes
                           /\ Junk \in Bytes /\ mem[a] \in Bytes
  BY <1>2 DEF Bytes
<1> QED BY <1>1, <1>2, <1>3 DEF Stored

LEMMA MovedAt ==
    ASSUME TypeOK, NEW from \in Nat, NEW to \in Nat, NEW n \in Nat, to <= from,
           Aligned(n), from + n <= Limit + Guard + Word
    PROVE  /\ Moved(from, to, n) \in [Addresses -> Bytes]
           /\ \A a \in Addresses :
                /\ a >= to /\ a < to + n => Moved(from, to, n)[a] = buffer[from + (a - to)]
                /\ a < to \/ a >= to + n => Moved(from, to, n)[a] = buffer[a]
<1>1. WordsOf(n) = n
  BY AlignedWords
<1>2. /\ Addresses \subseteq Nat /\ Limit \in Nat /\ Guard \in Nat /\ Word \in Nat
      /\ buffer \in [Addresses -> Bytes]
  BY Geometry DEF TypeOK, Addresses, Bytes
<1>3. \A a \in Addresses : a >= to /\ a < to + n => from + (a - to) \in Addresses
  BY <1>2 DEF Addresses
<1> QED BY <1>1, <1>2, <1>3 DEF Moved

-----------------------------------------------------------------------------
(***************************************************************************)
(* The inductive invariant.                                                *)
(***************************************************************************)

(* Bytes between the cursor and the end of the span. *)
Left == SpanEnd - state.input_cursor

Loading == sent > 0 /\ fg.at # "done"

(* Until the first sector nothing has moved. *)
Begun == sent = 0 =>
    /\ fg.at = "waiting" /\ ~state.data_ready /\ ~state.input_complete
    /\ output = 0 /\ fg.remaining_size = size - 1 /\ state.wrap_overflow = 0

Ended ==
    /\ output # Garbled
    /\ fg.at # "done" => output + 2 <= size
    /\ fg.at = "done" => sent = size

(* Who may touch what: the flags at each point of the foreground. *)
Placed ==
    /\ fg.at \in {"looking", "decoding", "checking", "releasing", "clearing"} =>
         state.data_ready
    /\ state.input_complete => sent = size
    /\ fg.at = "reconciling" => ~state.data_ready /\ sent = size
    /\ fg.at = "released" /\ state.data_ready =>
         ~fg.open /\ ~state.input_complete /\ state.input_cursor = state.buffer_start
    /\ fg.at = "waiting" /\ ~state.data_ready => ~state.input_complete
    /\ fg.at = "decoding" => fg.source = state.input_cursor
    /\ Loading /\ (~state.data_ready \/ fg.at = "clearing") =>
         state.bytes_consumed = state.input_cursor - state.buffer_start

(* The wrapped bytes are in the span, and wrap_overflow still counts them. *)
Reconciled == state.wrap_overflow # 0 /\ sent = output + 1 + Left

(* Every byte that is in has been expanded, is in the span or has wrapped. *)
Conserved == Loading =>
    /\ sent = output + 1 + Left + IF Reconciled THEN 0 ELSE state.wrap_overflow
    /\ \A i \in 0..Left - 1 : buffer[state.input_cursor + i] = output + 1 + i
    /\ ~Reconciled => \A i \in 0..state.wrap_overflow - 1 :
                        buffer[WrapStart + i] = output + 1 + Left + i
    /\ Reconciled => /\ sent = size /\ state.data_ready
                     /\ fg.at \in {"waiting", "looking", "decoding"}
                     /\ fg.at # "waiting" => fg.bytes_buffered = state.bytes_buffered
    /\ output = 0 =>
         state.input_cursor <= Guard /\ state.wrap_overflow = 0 /\ SpanEnd <= Limit

(* remaining_size still counts what the decoder has read of this span. *)
Counted == Loading =>
    fg.remaining_size = size - 1 - output
       + IF fg.at \in {"clearing", "released", "reconciling"} \/ ~state.data_ready THEN 0
         ELSE state.input_cursor - state.buffer_start

(* What the foreground has taken of the span. *)
Taken ==
    /\ fg.at \in {"looking", "decoding", "checking"} =>
         fg.bytes_buffered <= state.bytes_buffered
    /\ fg.at = "decoding" => fg.decompress_end = DecodeLimit
    /\ fg.at = "checking" =>
         state.buffer_start + fg.bytes_buffered - state.input_cursor <= Guard

(* What a released span leaves to be moved: the guard, or the sector that  *)
(* slipped in after the last look.                                         *)
Tail == Loading /\ (fg.at \in {"releasing", "clearing"} \/ ~state.data_ready) =>
    \/ Left <= Guard
    \/ /\ state.wrap_overflow = 0 /\ Left <= Guard + SectorSize
       /\ fg.at \in ReleaseWindow => ~fg.open

WholeSectors == \E k \in 0..Sectors - 1 : state.wrap_overflow = k * SectorSize

(* The span lies in the buffer, the wrapped sectors behind the cursor. *)
Bounded == Loading =>
    /\ state.buffer_start <= state.input_cursor /\ state.input_cursor <= SpanEnd
    /\ SpanEnd <= Limit + Guard
    /\ sent < size => state.input_cursor < SpanEnd /\ WholeSectors
    /\ state.wrap_overflow # 0 /\ ~Reconciled =>
         state.input_cursor >= WrapStart + state.wrap_overflow
    /\ size <= Limit => SpanEnd <= sent /\ state.wrap_overflow = 0

(* Until the last sector everything ends with a word. *)
Words ==
    /\ sent < size => Aligned(sent)
    /\ sent > 0 /\ sent < size => Aligned(state.wrap_overflow)
    /\ sent > 0 /\ (sent < size \/ (state.wrap_overflow # 0 /\ ~Reconciled)) =>
         Aligned(SpanEnd)

IInv ==
    /\ TypeOK /\ Begun /\ Ended /\ Placed /\ Conserved
    /\ Counted /\ Taken /\ Tail /\ Bounded /\ Words

LEMMA Numbers ==
    ASSUME TypeOK
    PROVE  /\ size \in Nat /\ size > 1 /\ sent \in Nat /\ sent <= size
           /\ output \in Int /\ (output # Garbled => output \in Nat) /\ output < size
           /\ state.buffer_start \in Nat /\ state.input_cursor \in Nat
           /\ state.bytes_buffered \in Nat /\ state.bytes_consumed \in Nat
           /\ state.wrap_overflow \in Nat
           /\ state.data_ready \in BOOLEAN /\ state.input_complete \in BOOLEAN
           /\ fg.remaining_size \in Int /\ fg.bytes_buffered \in Nat
           /\ fg.source \in Nat /\ fg.decompress_end \in Int
BY Geometry, GeometryAssumption DEF TypeOK, Addresses, Garbled

(* Away from its first wait the foreground has input. *)
LEMMA HasBegun ==
    ASSUME IInv, fg.at # "waiting" \/ state.data_ready
    PROVE  sent > 0
BY Numbers DEF IInv, Begun

-----------------------------------------------------------------------------
(* The foreground looks: steps that only move it. *)

(* What such a step has to say anew. *)
LEMMA GotoKeeps ==
    ASSUME IInv, UNCHANGED <<size, sent, state, buffer, output>>, TypeOK',
           sent > 0, fg.at # "done", fg'.at # "done",
           Placed', Reconciled => /\ fg'.at \in {"waiting", "looking", "decoding"}
                                  /\ fg'.at # "waiting" =>
                                       fg'.bytes_buffered = state.bytes_buffered,
           Counted', Taken', Tail'
    PROVE  IInv'
<1>1. Begun' /\ Ended' /\ Words'
  BY DEF IInv, Begun, Ended, Words, Reconciled, Left, SpanEnd, TypeOK
<1>2. Conserved'
  BY DEF IInv, Conserved, Loading, Reconciled, Left, SpanEnd, WrapStart
<1>3. Bounded'
  BY DEF IInv, Bounded, Loading, Reconciled, Left, SpanEnd, WrapStart, WholeSectors
<1> QED BY <1>1, <1>2, <1>3 DEF IInv

LEMMA LookKeeps == IInv /\ Look => IInv'
<1> SUFFICES ASSUME IInv, Look PROVE IInv'
  OBVIOUS
<1>1. /\ fg.at = "waiting" /\ state.data_ready /\ sent > 0
      /\ fg'.at = "looking" /\ fg'.bytes_buffered = state.bytes_buffered
      /\ fg'.remaining_size = fg.remaining_size
      /\ UNCHANGED <<size, sent, state, buffer, output>>
  BY DEF Look, IInv, TypeOK, Begun
<1>2. TypeOK'
  BY Numbers DEF Look, IInv, TypeOK, Points
<1>3. Placed' /\ Tail'
  BY <1>1 DEF IInv, Placed, Tail, Loading, ReleaseWindow, Left, SpanEnd
<1>4. Counted'
  BY <1>1 DEF IInv, Counted, Loading
<1>5. Taken'
  BY <1>1, <1>2 DEF Taken, TypeOK
<1> QED BY <1>1, <1>2, <1>3, <1>4, <1>5, GotoKeeps

LEMMA BeginKeeps == IInv /\ Begin => IInv'
<1> SUFFICES ASSUME IInv, Begin PROVE IInv'
  OBVIOUS
<1>1. /\ fg.at = "looking" /\ state.data_ready /\ sent > 0
      /\ fg'.at = "decoding" /\ fg'.bytes_buffered = fg.bytes_buffered
      /\ fg'.remaining_size = fg.remaining_size
      /\ fg'.decompress_end = DecodeLimit /\ fg'.source = state.input_cursor
      /\ UNCHANGED <<size, sent, state, buffer, output>>
  BY DEF Begin, IInv, TypeOK, Begun, Placed
<1>2. TypeOK'
  <2>1. DecodeLimit \in Int
    BY Geometry, SMTT(30) DEF IInv, TypeOK, DecodeLimit, Addresses
  <2> QED BY <2>1 DEF Begin, IInv, TypeOK, Points
<1>3. Placed' /\ Tail'
  BY <1>1 DEF IInv, Placed, Tail, Loading, ReleaseWindow, Left, SpanEnd
<1>4. Counted'
  BY <1>1 DEF IInv, Counted, Loading
<1>5. Taken'
  BY <1>1 DEF IInv, Taken, DecodeLimit
<1>6. Reconciled => fg'.bytes_buffered = state.bytes_buffered
  BY <1>1 DEF IInv, Conserved, Loading
<1> QED BY <1>1, <1>2, <1>3, <1>4, <1>5, <1>6, GotoKeeps

(* The decoder pauses only short of what has been announced. *)
LEMMA PausedShort ==
    ASSUME IInv, fg.at = "decoding", fg.source >= fg.decompress_end
    PROVE  /\ ~Reconciled
           /\ state.buffer_start + fg.bytes_buffered - state.input_cursor <= Guard
<1>1. /\ sent > 0 /\ state.data_ready /\ fg.source = state.input_cursor
      /\ fg.decompress_end = DecodeLimit /\ Loading /\ output + 2 <= size /\ output # Garbled
  BY HasBegun DEF IInv, Placed, Taken, Loading, Ended
<1>2. /\ size \in Nat /\ sent \in Nat /\ output \in Nat /\ fg.remaining_size \in Int
      /\ state.buffer_start \in Nat /\ state.input_cursor \in Nat
      /\ state.bytes_buffered \in Nat /\ fg.bytes_buffered \in Nat /\ Guard \in Nat
  BY <1>1, Geometry, GeometryAssumption DEF IInv, TypeOK, Addresses
<1>3. fg.remaining_size = size - 1 - output + (state.input_cursor - state.buffer_start)
  BY <1>1 DEF IInv, Counted
<1>4. fg.bytes_buffered < fg.remaining_size
  BY <1>1, <1>2, <1>3 DEF DecodeLimit
<1>5. state.buffer_start + fg.bytes_buffered - state.input_cursor <= Guard
  BY <1>1, <1>2, <1>4 DEF DecodeLimit
<1>6. ASSUME Reconciled PROVE FALSE
  <2>1. sent = size /\ fg.bytes_buffered = state.bytes_buffered /\ sent = output + 1 + Left
    BY <1>1, <1>6 DEF IInv, Conserved, Reconciled
  <2>2. size = output + 1 + (state.buffer_start + state.bytes_buffered - state.input_cursor)
    BY <2>1, <1>2 DEF Left, SpanEnd
  <2>3. fg.bytes_buffered = fg.remaining_size
    BY <2>1, <2>2, <1>2, <1>3
  <2> QED BY <2>3, <1>2, <1>4
<1> QED BY <1>5, <1>6

LEMMA PausedKeeps == IInv /\ Paused => IInv'
<1> SUFFICES ASSUME IInv, Paused PROVE IInv'
  OBVIOUS
<1>1. /\ fg.at = "decoding" /\ state.data_ready /\ sent > 0
      /\ fg.source >= fg.decompress_end
      /\ fg' = [fg EXCEPT !.at = "checking"]
      /\ UNCHANGED <<size, sent, state, buffer, output>>
  BY HasBegun DEF Paused, Goto, IInv, Placed
<1>2. /\ fg'.at = "checking" /\ fg'.bytes_buffered = fg.bytes_buffered
      /\ fg'.remaining_size = fg.remaining_size
  BY <1>1 DEF IInv, TypeOK
<1>3. TypeOK'
  BY <1>1 DEF IInv, TypeOK, Points
<1>4. Placed' /\ Tail'
  BY <1>1, <1>2 DEF IInv, Placed, Tail, Loading, ReleaseWindow, Left, SpanEnd
<1>5. Counted'
  BY <1>1, <1>2 DEF IInv, Counted, Loading
<1>6. Taken'
  BY <1>1, <1>2, PausedShort DEF IInv, Taken
<1> QED BY <1>1, <1>2, <1>3, <1>4, <1>5, <1>6, PausedShort, GotoKeeps

LEMMA CheckKeeps == IInv /\ Check => IInv'
<1> SUFFICES ASSUME IInv, Check PROVE IInv'
  OBVIOUS
<1>1. /\ fg.at = "checking" /\ state.data_ready /\ sent > 0 /\ Loading
      /\ UNCHANGED <<size, sent, state, buffer, output>>
  BY HasBegun DEF Check, IInv, Placed, Loading
<1>2. ~Reconciled
  BY <1>1 DEF IInv, Conserved
<1>3. /\ fg'.remaining_size = fg.remaining_size
      /\ fg'.bytes_buffered = state.bytes_buffered
      /\ \/ fg'.at = "looking"
         \/ fg'.at = "releasing" /\ fg.bytes_buffered = state.bytes_buffered
  BY <1>1 DEF Check, IInv, TypeOK
<1>4. TypeOK'
  BY Numbers DEF Check, IInv, TypeOK, Points
<1>5. Placed'
  BY <1>1, <1>3 DEF IInv, Placed, Loading
<1>6. Counted'
  BY <1>1, <1>3 DEF IInv, Counted, Loading
<1>7. Taken'
  BY <1>1, <1>3, <1>4 DEF Taken, TypeOK
<1>8. Tail'
  BY <1>1, <1>3, Numbers, Geometry DEF IInv, Taken, Tail, Left, SpanEnd
<1> QED BY <1>1, <1>2, <1>3, <1>4, <1>5, <1>6, <1>7, <1>8, GotoKeeps

LEMMA ContinueKeeps == IInv /\ Continue => IInv'
<1> SUFFICES ASSUME IInv, Continue PROVE IInv'
  OBVIOUS
<1>1. /\ fg.at = "released" /\ sent > 0 /\ Loading
      /\ fg' = [fg EXCEPT !.at = IF state.input_complete THEN "reconciling" ELSE "waiting"]
      /\ UNCHANGED <<size, sent, state, buffer, output>>
  BY HasBegun DEF Continue, Goto, Loading
<1>2. ~Reconciled
  BY <1>1 DEF IInv, Conserved
<1>3. /\ fg'.remaining_size = fg.remaining_size
      /\ fg'.at = IF state.input_complete THEN "reconciling" ELSE "waiting"
  BY <1>1 DEF IInv, TypeOK
<1>4. TypeOK'
  BY <1>1 DEF IInv, TypeOK, Points
<1>5. Placed'
  BY <1>1, <1>3 DEF IInv, Placed, Loading
<1>6. Counted'
  <2>1. state.data_ready => state.input_cursor - state.buffer_start = 0
    BY <1>1, Geometry DEF IInv, Placed, TypeOK, Addresses
  <2> QED BY <1>1, <1>3, <2>1 DEF IInv, Counted, Placed, Loading, TypeOK
<1>7. Taken'
  BY <1>3 DEF Taken
<1>8. Tail'
  BY <1>1, <1>3 DEF IInv, Tail, Loading, Left, SpanEnd, ReleaseWindow
<1> QED BY <1>1, <1>2, <1>3, <1>4, <1>5, <1>6, <1>7, <1>8, GotoKeeps

-----------------------------------------------------------------------------
(* The foreground releases its span. *)

LEMMA PublishKeeps == IInv /\ Publish => IInv'
<1> SUFFICES ASSUME IInv, Publish PROVE IInv'
  OBVIOUS
<1>1. /\ fg.at = "releasing" /\ state.data_ready /\ sent > 0 /\ Loading
      /\ UNCHANGED <<size, sent, buffer, output>>
  BY HasBegun DEF Publish, IInv, Placed, Loading
<1>2. /\ state'.data_ready = state.data_ready
      /\ state'.input_complete = state.input_complete
      /\ state'.buffer_start = state.buffer_start
      /\ state'.input_cursor = state.input_cursor
      /\ state'.bytes_buffered = state.bytes_buffered
      /\ state'.wrap_overflow = state.wrap_overflow
      /\ state'.bytes_consumed = state.input_cursor - state.buffer_start
      /\ fg'.at = "clearing" /\ fg'.open = fg.open
      /\ fg'.remaining_size = fg.remaining_size - (state.input_cursor - state.buffer_start)
  BY DEF Publish, IInv, TypeOK
<1>3. ~Reconciled
  BY <1>1 DEF IInv, Conserved
<1>4. TypeOK'
  <2>1. state.input_cursor - state.buffer_start \in 0..Limit + Guard
    BY <1>1, Numbers, Geometry DEF IInv, Bounded, SpanEnd
  <2>2. fg.remaining_size - (state.input_cursor - state.buffer_start) \in Int
    BY Numbers DEF IInv
  <2>3. state' \in [data_ready : BOOLEAN, input_complete : BOOLEAN,
                    buffer_start : Addresses, input_cursor : Addresses,
                    bytes_buffered : 0..Limit + Guard, bytes_consumed : 0..Limit + Guard,
                    wrap_overflow : 0..Limit]
    BY <2>1 DEF Publish, IInv, TypeOK
  <2>4. fg' \in [at : Points, open : BOOLEAN, remaining_size : Int, bytes_buffered : Nat,
                 decompress_end : Int, source : Addresses]
    BY <2>2 DEF Publish, IInv, TypeOK, Points
  <2> QED BY <1>1, <2>3, <2>4 DEF IInv, TypeOK
<1>5. Begun' /\ Ended' /\ Placed' /\ Words'
  BY <1>1, <1>2, <1>3
     DEF IInv, Begun, Ended, Placed, Words, Loading, Reconciled, Left, SpanEnd
<1>6. Conserved' /\ Bounded'
  BY <1>1, <1>2, <1>3
     DEF IInv, Conserved, Bounded, Loading, Reconciled, Left, SpanEnd, WrapStart, WholeSectors
<1>7. Counted'
  BY <1>1, <1>2, Numbers DEF IInv, Counted, Loading
<1>8. Taken' /\ Tail'
  BY <1>1, <1>2 DEF IInv, Taken, Tail, Loading, Left, SpanEnd, ReleaseWindow
<1> QED BY <1>4, <1>5, <1>6, <1>7, <1>8 DEF IInv

LEMMA ReleaseKeeps == IInv /\ Release => IInv'
<1> SUFFICES ASSUME IInv, Release PROVE IInv'
  OBVIOUS
<1>1. /\ fg.at = "clearing" /\ state.data_ready /\ sent > 0 /\ Loading
      /\ UNCHANGED <<size, sent, buffer, output>>
  BY HasBegun DEF Release, IInv, Placed, Loading
<1>2. /\ state'.data_ready = FALSE
      /\ state'.input_complete = state.input_complete
      /\ state'.buffer_start = state.buffer_start
      /\ state'.input_cursor = state.input_cursor
      /\ state'.bytes_buffered = state.bytes_buffered
      /\ state'.wrap_overflow = state.wrap_overflow
      /\ state'.bytes_consumed = state.bytes_consumed
      /\ fg'.at = "released" /\ fg'.open = fg.open
      /\ fg'.remaining_size = fg.remaining_size
  BY DEF Release, Goto, IInv, TypeOK
<1>3. ~Reconciled
  BY <1>1 DEF IInv, Conserved
<1>4. TypeOK'
  BY <1>1 DEF Release, Goto, IInv, TypeOK, Points
<1>5. Begun' /\ Ended' /\ Placed' /\ Words'
  BY <1>1, <1>2, <1>3
     DEF IInv, Begun, Ended, Placed, Words, Loading, Reconciled, Left, SpanEnd
<1>6. Conserved' /\ Bounded'
  BY <1>1, <1>2, <1>3
     DEF IInv, Conserved, Bounded, Loading, Reconciled, Left, SpanEnd, WrapStart, WholeSectors
<1>7. Counted'
  BY <1>1, <1>2 DEF IInv, Counted, Loading
<1>8. Taken' /\ Tail'
  BY <1>1, <1>2 DEF IInv, Taken, Tail, Loading, Left, SpanEnd, ReleaseWindow
<1> QED BY <1>4, <1>5, <1>6, <1>7, <1>8 DEF IInv

-----------------------------------------------------------------------------
(* The decoder. *)

(* What an opcode that may start finds in the span. *)
LEMMA DecoderFed ==
    ASSUME IInv, fg.at = "decoding", fg.source < fg.decompress_end
    PROVE  \/ Left > Guard
           \/ Left = size - 1 - output /\ sent = size
<1>1. /\ sent > 0 /\ state.data_ready /\ fg.source = state.input_cursor
      /\ fg.decompress_end = DecodeLimit /\ Loading /\ output + 2 <= size /\ output # Garbled
      /\ fg.bytes_buffered <= state.bytes_buffered
  BY HasBegun DEF IInv, Placed, Taken, Loading, Ended
<1>2. /\ size \in Nat /\ sent \in Nat /\ sent <= size /\ output \in Nat
      /\ fg.remaining_size \in Int /\ state.wrap_overflow \in Nat
      /\ state.buffer_start \in Nat /\ state.input_cursor \in Nat
      /\ state.bytes_buffered \in Nat /\ fg.bytes_buffered \in Nat /\ Guard \in Nat
  BY <1>1, Numbers, Geometry DEF IInv
<1>3. Left = state.buffer_start + state.bytes_buffered - state.input_cursor
  BY <1>2 DEF Left, SpanEnd
<1>4. CASE fg.bytes_buffered < fg.remaining_size
  BY <1>1, <1>2, <1>3, <1>4 DEF DecodeLimit
<1>5. CASE fg.bytes_buffered >= fg.remaining_size
  <2>1. fg.remaining_size = size - 1 - output + (state.input_cursor - state.buffer_start)
    BY <1>1 DEF IInv, Counted
  <2>2. Left >= size - 1 - output
    BY <1>1, <1>2, <1>3, <1>5, <2>1
  <2>3. sent >= output + 1 + Left
    BY <1>1, <1>2, <1>3 DEF IInv, Conserved
  <2> QED BY <2>2, <2>3, <1>2, <1>3
<1> QED BY <1>2, <1>4, <1>5

(* Whatever opcode starts, its operands are there and in order. *)
LEMMA OpcodeWhole ==
    ASSUME IInv, fg.at = "decoding", fg.source < fg.decompress_end, NEW n \in OpcodeLengths
    PROVE  /\ Reads(1) /\ Left > 0 /\ n \in Nat /\ n > 0
           /\ output + n < size - 1 => Reads(n) /\ n < Left
<1>1. n \in Nat /\ n > 0 /\ n <= Guard
  BY GeometryAssumption
<1>2. /\ sent > 0 /\ fg.source = state.input_cursor /\ Loading
      /\ output + 2 <= size /\ output # Garbled
  BY HasBegun DEF IInv, Placed, Loading, Ended
<1>3. size \in Nat /\ output \in Nat /\ Left \in Int /\ Guard \in Nat /\ Guard > 0
  BY <1>2, Numbers, Geometry DEF IInv, Left, SpanEnd
<1>4. Left > 0 /\ (output + n < size - 1 => n < Left)
  BY <1>1, <1>2, <1>3, DecoderFed
<1>5. \A m \in Nat : m <= Left => Reads(m)
  BY <1>2, <1>3 DEF IInv, Conserved, Reads
<1> QED BY <1>1, <1>3, <1>4, <1>5

LEMMA ExpandKeeps == IInv /\ Expand => IInv'
<1> SUFFICES ASSUME IInv, Expand PROVE IInv'
  OBVIOUS
<1>1. PICK n \in OpcodeLengths :
         IF Reads(1) /\ output + 2 = size
         THEN /\ output' = output + 1
              /\ state' = [state EXCEPT !.input_cursor = fg.source + 1]
              /\ Goto("done")
         ELSE IF Reads(n)
         THEN /\ output + n < size - 1
              /\ output' = output + n
              /\ state' = [state EXCEPT !.input_cursor = fg.source + n]
              /\ fg' = [fg EXCEPT !.source = @ + n]
         ELSE /\ output + n < size - 1
              /\ output' = Garbled
              /\ Goto("done")
              /\ UNCHANGED state
  BY DEF Expand
<1>2. /\ fg.at = "decoding" /\ fg.source < fg.decompress_end
      /\ UNCHANGED <<size, sent, buffer>>
      /\ sent > 0 /\ state.data_ready /\ fg.source = state.input_cursor /\ Loading
      /\ output + 2 <= size /\ output # Garbled
  BY HasBegun DEF Expand, IInv, Placed, Loading, Ended
<1>3. /\ size \in Nat /\ sent \in Nat /\ sent <= size /\ output \in Nat
      /\ fg.remaining_size \in Int /\ state.wrap_overflow \in Nat
      /\ state.buffer_start \in Nat /\ state.input_cursor \in Nat
      /\ state.bytes_buffered \in Nat /\ fg.bytes_buffered \in Nat
      /\ Guard \in Nat /\ Guard > 0 /\ Limit \in Nat /\ Word \in Nat /\ Word > 0
      /\ Left \in Int /\ Left = state.buffer_start + state.bytes_buffered - state.input_cursor
  BY <1>2, Numbers, Geometry DEF IInv, Left, SpanEnd
<1>4. /\ Reads(1) /\ Left > 0 /\ n \in Nat /\ n > 0
      /\ output + n < size - 1 => Reads(n) /\ n < Left
  BY <1>2, <1>3, OpcodeWhole
<1>5. /\ state.buffer_start <= state.input_cursor /\ SpanEnd <= Limit + Guard
      /\ sent = output + 1 + Left + IF Reconciled THEN 0 ELSE state.wrap_overflow
  BY <1>2 DEF IInv, Bounded, Conserved
<1>6. ASSUME NEW m \in Nat, m > 0, m <= Left, sent < size => m < Left,
             output + m < size,
             output' = output + m,
             state' = [state EXCEPT !.input_cursor = fg.source + m],
             \/ fg' = [fg EXCEPT !.source = @ + m] /\ output + m < size - 1
             \/ Goto("done") /\ output + 2 = size /\ m = 1
      PROVE  IInv'
  <2>1. /\ state'.data_ready = state.data_ready
        /\ state'.input_complete = state.input_complete
        /\ state'.buffer_start = state.buffer_start
        /\ state'.input_cursor = state.input_cursor + m
        /\ state'.bytes_buffered = state.bytes_buffered
        /\ state'.wrap_overflow = state.wrap_overflow
        /\ state'.bytes_consumed = state.bytes_consumed
    BY <1>2, <1>6 DEF IInv, TypeOK
  <2>2. /\ fg'.bytes_buffered = fg.bytes_buffered /\ fg'.remaining_size = fg.remaining_size
        /\ fg'.decompress_end = fg.decompress_end
        /\ \/ fg'.at = "decoding" /\ fg'.source = fg.source + m /\ output + m < size - 1
           \/ fg'.at = "done" /\ output + 2 = size /\ m = 1
    BY <1>6, <1>2 DEF Goto, IInv, TypeOK
  <2>3. Left' = Left - m /\ SpanEnd' = SpanEnd /\ Reconciled' = Reconciled
    BY <1>2, <1>3, <1>6, <2>1 DEF Left, SpanEnd, Reconciled
  <2>4. TypeOK'
    <3>1. state.input_cursor + m \in Addresses
      BY <1>3, <1>5, <1>6 DEF Addresses, SpanEnd
    <3>2. state' \in [data_ready : BOOLEAN, input_complete : BOOLEAN,
                      buffer_start : Addresses, input_cursor : Addresses,
                      bytes_buffered : 0..Limit + Guard, bytes_consumed : 0..Limit + Guard,
                      wrap_overflow : 0..Limit]
      BY <3>1, <1>2, <1>6 DEF IInv, TypeOK
    <3>3. fg' \in [at : Points, open : BOOLEAN, remaining_size : Int, bytes_buffered : Nat,
                   decompress_end : Int, source : Addresses]
      BY <3>1, <1>2, <1>6 DEF Goto, IInv, TypeOK, Points
    <3>4. output' \in 0..size - 1
      BY <1>3, <1>6
    <3> QED BY <3>2, <3>3, <3>4, <1>2 DEF IInv, TypeOK
  <2>5. Begun' /\ Placed'
    BY <1>2, <2>1, <2>2 DEF IInv, Begun, Placed, Loading
  <2>6. Ended'
    <3>1. fg'.at = "done" => sent = size
      BY <1>3, <1>5, <1>6, <2>2
    <3>2. fg'.at # "done" => output + m + 2 <= size
      BY <1>3, <1>6, <2>2
    <3> QED BY <3>1, <3>2, <1>2, <1>3, <1>6 DEF Ended, Garbled
  <2>7. Conserved'
    <3>1. \A i \in 0..Left' - 1 : buffer'[state'.input_cursor + i] = output' + 1 + i
      <4> TAKE i \in 0..Left' - 1
      <4>1. i + m \in 0..Left - 1 /\ state'.input_cursor + i = state.input_cursor + (i + m)
        BY <1>3, <1>6, <2>1, <2>3
      <4>2. buffer[state.input_cursor + (i + m)] = output + 1 + (i + m)
        BY <4>1, <1>2 DEF IInv, Conserved
      <4> QED BY <4>1, <4>2, <1>2, <1>3, <1>6
    <3>2. ~Reconciled => \A i \in 0..state.wrap_overflow - 1 :
                           buffer[WrapStart + i] = output' + 1 + Left' + i
      BY <1>2, <1>3, <1>6, <2>3 DEF IInv, Conserved
    <3>3. Reconciled => sent = size /\ fg.bytes_buffered = state.bytes_buffered
      BY <1>2 DEF IInv, Conserved
    <3>4. output' # 0 /\ sent = output' + 1 + Left' + IF Reconciled THEN 0
                                                     ELSE state.wrap_overflow
      BY <1>3, <1>5, <1>6, <2>3
    <3> QED BY <1>2, <2>1, <2>2, <2>3, <3>1, <3>2, <3>3, <3>4 DEF Conserved, Loading, WrapStart
  <2>8. Counted'
    BY <1>2, <1>3, <1>6, <2>1, <2>2 DEF IInv, Counted, Loading
  <2>9. Taken' /\ Tail'
    BY <1>2, <2>1, <2>2 DEF IInv, Taken, Tail, DecodeLimit
  <2>10. Bounded'
    <3>1. WholeSectors' = WholeSectors
      BY <2>1 DEF WholeSectors
    <3> QED BY <3>1, <1>2, <1>3, <1>6, <2>1, <2>2, <2>3 DEF IInv, Bounded, Loading, Left, SpanEnd, WrapStart
  <2>11. Words'
    BY <1>2, <2>1, <2>3 DEF IInv, Words
  <2> QED BY <2>4, <2>5, <2>6, <2>7, <2>8, <2>9, <2>10, <2>11 DEF IInv
<1>7. CASE Reads(1) /\ output + 2 = size
  BY <1>1, <1>2, <1>3, <1>4, <1>5, <1>6, <1>7
<1>8. CASE ~(Reads(1) /\ output + 2 = size) /\ Reads(n)
  BY <1>1, <1>2, <1>3, <1>4, <1>6, <1>8
<1> QED BY <1>1, <1>4, <1>7, <1>8

-----------------------------------------------------------------------------
(* Moving the unread bytes. *)

LEMMA Released ==
    ASSUME IInv, ~state.data_ready, sent > 0, fg.at # "done"
    PROVE  /\ Loading /\ ~Reconciled /\ Left \in Nat
           /\ SpanEnd = state.input_cursor + Left /\ SpanEnd \in Nat
           /\ SpanEnd <= Limit + Guard
           /\ state.buffer_start + state.bytes_consumed = state.input_cursor
           /\ state.bytes_buffered - state.bytes_consumed = Left
           /\ sent = output + 1 + Left + state.wrap_overflow
           /\ fg.remaining_size = size - 1 - output
           /\ output \in Nat /\ output + 2 <= size
<1>1. Loading
  BY DEF Loading
<1>2. ~Reconciled /\ sent = output + 1 + Left + state.wrap_overflow
  BY <1>1 DEF IInv, Conserved
<1>3. /\ state.bytes_consumed = state.input_cursor - state.buffer_start
      /\ state.buffer_start <= state.input_cursor /\ state.input_cursor <= SpanEnd
      /\ SpanEnd <= Limit + Guard
  BY <1>1 DEF IInv, Placed, Bounded
<1>4. output # Garbled /\ output + 2 <= size
  BY DEF IInv, Ended
<1>5. fg.remaining_size = size - 1 - output
  BY <1>1, <1>4, Numbers DEF IInv, Counted
<1> QED BY <1>1, <1>2, <1>3, <1>4, <1>5, Numbers DEF IInv, Left, SpanEnd

(* What the words in front of the unread bytes are. *)
LEMMA TailWords ==
    ASSUME TypeOK, Left \in Nat, SpanEnd = state.input_cursor + Left, Aligned(SpanEnd),
           NEW pad, pad = Padding(Left)
    PROVE  /\ pad \in Nat /\ pad < Word /\ Aligned(Left + pad)
           /\ state.input_cursor - pad \in Nat
<1>1. pad \in Nat /\ pad < Word /\ Aligned(Left + pad)
  BY PaddingAligns
<1>2. state.input_cursor \in Nat /\ SpanEnd \in Nat
  BY Numbers DEF SpanEnd
<1>3. Aligned(SpanEnd - (Left + pad))
  <2>1. SpanEnd \in Int /\ Left + pad \in Int
    BY <1>1, <1>2
  <2> QED BY <2>1, <1>1, AlignedSum
<1>4. SpanEnd - (Left + pad) = state.input_cursor - pad
  BY <1>1, <1>2
<1> QED BY <1>1, <1>2, <1>3, <1>4, AlignedNatural, Geometry

LEMMA UnwrappedWhole ==
    ASSUME IInv, ~state.data_ready, sent > 0, fg.at # "done",
           state.wrap_overflow # 0, NEW mem, mem = UnwrappedBytes(state.bytes_consumed)
    PROVE  /\ mem \in [Addresses -> Bytes]
           /\ Left <= Guard
           /\ \A i \in 0..Left - 1 : mem[Guard - Left + i] = output + 1 + i
           /\ \A a \in Addresses : a >= Guard => mem[a] = buffer[a]
<1> DEFINE pad == Padding(Left)
           from == state.input_cursor - pad
           to == Guard - Left - pad
           n == Left + pad
<1>1. /\ ~Reconciled /\ Left \in Nat /\ SpanEnd = state.input_cursor + Left
      /\ SpanEnd <= Limit + Guard /\ SpanEnd \in Nat /\ Loading
      /\ state.buffer_start + state.bytes_consumed = state.input_cursor
      /\ state.bytes_buffered - state.bytes_consumed = Left
  BY Released
<1>2. Left <= Guard
  BY <1>1 DEF IInv, Tail
<1>3. Aligned(SpanEnd)
  BY <1>1 DEF IInv, Words
<1>4. state.input_cursor >= Guard /\ state.input_cursor \in Nat
  BY <1>1, Numbers, Geometry DEF IInv, Bounded, WrapStart
<1>5. pad \in Nat /\ pad < Word /\ Aligned(n) /\ from \in Nat
  BY <1>1, <1>3, TailWords DEF IInv
<1>6. to \in Nat
  <2>1. Aligned(Guard - n)
    BY <1>1, <1>5, Geometry, AlignedSum
  <2>2. Guard - n = to
    BY <1>1, <1>5, Geometry
  <2> QED BY <2>1, <2>2, <1>1, <1>2, <1>5, AlignedNatural, Geometry
<1>7. n \in Nat /\ to <= from /\ from + n <= Limit + Guard + Word
  BY <1>1, <1>4, <1>5, <1>6, Geometry
<1>8. mem = Moved(from, to, n)
  <2>1. state.buffer_start + state.bytes_consumed - pad = from
    BY <1>1, <1>5, Numbers DEF IInv
  <2> QED BY <1>1, <2>1 DEF UnwrappedBytes, WrapStart
<1>9. /\ Moved(from, to, n) \in [Addresses -> Bytes]
      /\ \A a \in Addresses :
           /\ a >= to /\ a < to + n => Moved(from, to, n)[a] = buffer[from + (a - to)]
           /\ a < to \/ a >= to + n => Moved(from, to, n)[a] = buffer[a]
  BY <1>5, <1>6, <1>7, MovedAt DEF IInv
<1>10. ASSUME NEW i \in 0..Left - 1 PROVE mem[Guard - Left + i] = output + 1 + i
  <2>1. /\ Guard - Left + i \in Addresses
        /\ Guard - Left + i >= to /\ Guard - Left + i < to + n
        /\ from + ((Guard - Left + i) - to) = state.input_cursor + i
    BY <1>1, <1>2, <1>4, <1>5, <1>6, Geometry DEF Addresses
  <2>2. buffer[state.input_cursor + i] = output + 1 + i
    BY <1>1 DEF IInv, Conserved
  <2> QED BY <1>8, <1>9, <2>1, <2>2
<1>11. ASSUME NEW a \in Addresses, a >= Guard PROVE mem[a] = buffer[a]
  <2>1. a >= to + n
    BY <1>1, <1>5, <1>11, Geometry DEF Addresses
  <2> QED BY <1>8, <1>9, <2>1
<1> QED BY <1>2, <1>8, <1>9, <1>10, <1>11

LEMMA CompactedWhole ==
    ASSUME IInv, ~state.data_ready, sent > 0, sent < size, fg.at # "done",
           NEW pad, pad = Padding(Left),
           NEW mem, mem = Moved(state.buffer_start + state.bytes_consumed - pad, 0, Left + pad)
    PROVE  /\ mem \in [Addresses -> Bytes]
           /\ pad \in Nat /\ pad < Word /\ Aligned(Left + pad) /\ pad <= state.input_cursor
           /\ \A i \in 0..Left - 1 : mem[pad + i] = output + 1 + i
<1> DEFINE from == state.input_cursor - pad
           n == Left + pad
<1>1. /\ Left \in Nat /\ SpanEnd = state.input_cursor + Left /\ SpanEnd \in Nat
      /\ SpanEnd <= Limit + Guard /\ Loading
      /\ state.buffer_start + state.bytes_consumed = state.input_cursor
      /\ state.input_cursor \in Nat
  BY Released, Numbers DEF IInv
<1>2. Aligned(SpanEnd)
  BY <1>1 DEF IInv, Words
<1>3. pad \in Nat /\ pad < Word /\ Aligned(n) /\ from \in Nat
  BY <1>1, <1>2, TailWords DEF IInv
<1>4. n \in Nat /\ 0 <= from /\ from + n <= Limit + Guard + Word
  BY <1>1, <1>3, Geometry
<1>5. mem = Moved(from, 0, n)
  <2>1. state.buffer_start + state.bytes_consumed - pad = from
    BY <1>1, <1>3, Numbers DEF IInv
  <2> QED BY <2>1
<1>6. /\ Moved(from, 0, n) \in [Addresses -> Bytes]
      /\ \A a \in Addresses :
           /\ a >= 0 /\ a < 0 + n => Moved(from, 0, n)[a] = buffer[from + (a - 0)]
           /\ a < 0 \/ a >= 0 + n => Moved(from, 0, n)[a] = buffer[a]
  BY <1>3, <1>4, MovedAt DEF IInv
<1>7. ASSUME NEW i \in 0..Left - 1 PROVE mem[pad + i] = output + 1 + i
  <2>1. /\ pad + i \in Addresses /\ pad + i >= 0 /\ pad + i < 0 + n
        /\ from + ((pad + i) - 0) = state.input_cursor + i
    BY <1>1, <1>3, <1>4, Geometry DEF Addresses
  <2>2. buffer[state.input_cursor + i] = output + 1 + i
    BY <1>1 DEF IInv, Conserved
  <2> QED BY <1>5, <1>6, <2>1, <2>2
<1> QED BY <1>1, <1>3, <1>5, <1>6, <1>7

LEMMA ReconcileKeeps == IInv /\ Reconcile => IInv'
<1> SUFFICES ASSUME IInv, Reconcile PROVE IInv'
  OBVIOUS
<1>1. /\ fg.at = "reconciling" /\ sent > 0 /\ ~state.data_ready /\ sent = size
      /\ fg' = [fg EXCEPT !.at = "waiting"]
      /\ UNCHANGED <<size, sent, output>>
  BY HasBegun DEF Reconcile, Goto, IInv, Placed
<1>2. /\ Loading /\ ~Reconciled /\ Left \in Nat
      /\ SpanEnd = state.input_cursor + Left /\ SpanEnd \in Nat
      /\ SpanEnd <= Limit + Guard
      /\ state.buffer_start + state.bytes_consumed = state.input_cursor
      /\ state.bytes_buffered - state.bytes_consumed = Left
      /\ sent = output + 1 + Left + state.wrap_overflow
      /\ fg.remaining_size = size - 1 - output
      /\ output \in Nat /\ output + 2 <= size
  BY <1>1, Released
<1>3. /\ fg'.at = "waiting" /\ fg'.remaining_size = fg.remaining_size
      /\ fg' \in [at : Points, open : BOOLEAN, remaining_size : Int, bytes_buffered : Nat,
                  decompress_end : Int, source : Addresses]
  BY <1>1 DEF IInv, TypeOK, Points
<1>4. /\ size \in Nat /\ sent \in Nat /\ state.wrap_overflow \in Nat /\ Guard \in Nat
      /\ state.input_cursor \in Nat /\ Limit \in Nat /\ fg.remaining_size \in Int
      /\ Word \in Nat /\ state.wrap_overflow <= Limit
  BY Numbers, Geometry DEF IInv, TypeOK
<1>5. ASSUME buffer' \in [Addresses -> Bytes], state'.data_ready = TRUE,
             state'.wrap_overflow = state.wrap_overflow,
             state'.input_cursor = state'.buffer_start,
             state' \in [data_ready : BOOLEAN, input_complete : BOOLEAN,
                         buffer_start : Addresses, input_cursor : Addresses,
                         bytes_buffered : 0..Limit + Guard, bytes_consumed : 0..Limit + Guard,
                         wrap_overflow : 0..Limit]
      PROVE  TypeOK' /\ Begun' /\ Ended' /\ Placed' /\ Counted' /\ Taken' /\ Tail'
  <2>1. TypeOK'
    BY <1>1, <1>3, <1>5 DEF IInv, TypeOK, Bytes
  <2>2. Begun' /\ Ended' /\ Placed'
    BY <1>1, <1>2, <1>3, <1>4, <1>5, <2>1 DEF IInv, Begun, Ended, Placed, Loading, TypeOK
  <2>3. state'.input_cursor - state'.buffer_start = 0
    BY <1>5, Geometry DEF Addresses
  <2>4. Counted' /\ Taken' /\ Tail'
    BY <1>1, <1>2, <1>3, <1>4, <1>5, <2>3 DEF Counted, Taken, Tail
  <2> QED BY <2>1, <2>2, <2>4
<1>6. CASE state.wrap_overflow # 0
  <2>1. state' = [Unwrapped(state.bytes_consumed, 0) EXCEPT !.data_ready = TRUE]
    BY <1>6 DEF Reconcile
  <2>2. /\ buffer' \in [Addresses -> Bytes] /\ Left <= Guard
        /\ \A i \in 0..Left - 1 : buffer'[Guard - Left + i] = output + 1 + i
        /\ \A a \in Addresses : a >= Guard => buffer'[a] = buffer[a]
    BY <1>1, <1>6, UnwrappedWhole DEF Reconcile
  <2>3. /\ Guard - Left \in Addresses
        /\ state.wrap_overflow + Left + 0 \in 0..Limit + Guard
    BY <1>2, <1>4, <2>2, SMTT(30) DEF Addresses
  <2>4. /\ state'.data_ready = TRUE
        /\ state'.wrap_overflow = state.wrap_overflow
        /\ state'.input_cursor = Guard - Left /\ state'.buffer_start = Guard - Left
        /\ state'.bytes_buffered = state.wrap_overflow + Left + 0
        /\ state' \in [data_ready : BOOLEAN, input_complete : BOOLEAN,
                       buffer_start : Addresses, input_cursor : Addresses,
                       bytes_buffered : 0..Limit + Guard, bytes_consumed : 0..Limit + Guard,
                       wrap_overflow : 0..Limit]
    BY <1>2, <2>1, <2>3 DEF Unwrapped, WrapStart, IInv, TypeOK
  <2>5. SpanEnd' = Guard + state.wrap_overflow /\ Left' = Left + state.wrap_overflow
    BY <1>2, <1>4, <2>4 DEF SpanEnd, Left
  <2>6. Reconciled'
    BY <1>1, <1>2, <1>4, <1>6, <2>4, <2>5 DEF Reconciled
  <2>7. Conserved'
    <3>1. ASSUME NEW i \in 0..Left + state.wrap_overflow - 1
          PROVE  buffer'[state'.input_cursor + i] = output + 1 + i
      <4>1. CASE i < Left
        BY <1>2, <1>4, <2>2, <2>4, <4>1
      <4>2. CASE i >= Left
        <5>1. /\ i - Left \in 0..state.wrap_overflow - 1
              /\ state'.input_cursor + i = Guard + (i - Left)
              /\ Guard + (i - Left) \in Addresses
          BY <1>2, <1>4, <2>4, <4>2 DEF Addresses
        <5>2. buffer[Guard + (i - Left)] = output + 1 + Left + (i - Left)
          BY <1>2, <5>1 DEF IInv, Conserved, WrapStart
        <5>3. buffer'[Guard + (i - Left)] = buffer[Guard + (i - Left)]
          BY <2>2, <5>1, <1>4
        <5> QED BY <1>2, <1>4, <5>1, <5>2, <5>3, <4>2
      <4> QED BY <1>2, <1>4, <4>1, <4>2
    <3>2. output # 0
      BY <1>2, <1>6 DEF IInv, Conserved
    <3>3. sent' = output' + 1 + Left' + 0
      BY <1>1, <1>2, <1>4, <2>5
    <3> QED BY <1>1, <1>2, <1>3, <2>4, <2>5, <2>6, <3>1, <3>2, <3>3 DEF Conserved
  <2>8. Bounded'
    <3>1. ~(size <= Limit)
      BY <1>2, <1>6 DEF IInv, Bounded
    <3> QED BY <1>1, <1>2, <1>4, <2>2, <2>4, <2>5, <2>6, <3>1 DEF Bounded
  <2>9. Words'
    BY <1>1, <1>4, <2>6 DEF Words
  <2> QED BY <1>5, <2>2, <2>4, <2>7, <2>8, <2>9 DEF IInv
<1>7. CASE state.wrap_overflow = 0
  <2>1. /\ state' = [state EXCEPT !.buffer_start = @ + state.bytes_consumed,
                                  !.bytes_buffered = @ - state.bytes_consumed,
                                  !.data_ready = TRUE]
        /\ buffer' = buffer
    BY <1>7 DEF Reconcile
  <2>2. Left \in 0..Limit + Guard
    BY <1>2, <1>4
  <2>3. /\ state'.data_ready = TRUE
        /\ state'.wrap_overflow = 0
        /\ state'.input_cursor = state.input_cursor
        /\ state'.buffer_start = state.input_cursor
        /\ state'.bytes_buffered = Left
        /\ state' \in [data_ready : BOOLEAN, input_complete : BOOLEAN,
                       buffer_start : Addresses, input_cursor : Addresses,
                       bytes_buffered : 0..Limit + Guard, bytes_consumed : 0..Limit + Guard,
                       wrap_overflow : 0..Limit]
    BY <1>2, <1>7, <2>1, <2>2 DEF IInv, TypeOK
  <2>4. SpanEnd' = SpanEnd /\ Left' = Left
    BY <1>2, <1>4, <2>3 DEF SpanEnd, Left
  <2>5. Conserved'
    BY <1>1, <1>2, <1>3, <1>4, <1>7, <2>1, <2>3, <2>4
       DEF IInv, Conserved, Reconciled, WrapStart
  <2>6. Bounded'
    BY <1>1, <1>2, <1>4, <1>7, <2>3, <2>4 DEF IInv, Bounded
  <2>7. Words'
    BY <1>1, <1>4, <2>3 DEF Words
  <2>8. buffer' \in [Addresses -> Bytes]
    BY <2>1 DEF IInv, TypeOK, Bytes
  <2> QED BY <1>5, <1>7, <2>3, <2>5, <2>6, <2>7, <2>8 DEF IInv
<1> QED BY <1>6, <1>7

-----------------------------------------------------------------------------
(* The sectors. *)

StateType ==
    [data_ready : BOOLEAN, input_complete : BOOLEAN,
     buffer_start : Addresses, input_cursor : Addresses,
     bytes_buffered : 0..Limit + Guard, bytes_consumed : 0..Limit + Guard,
     wrap_overflow : 0..Limit]

(* The part of Sector that is the same whatever it does with the sector. *)
Arrives ==
    /\ InFlight
    /\ fg.at \in ReleaseWindow => fg.open
    /\ fg' = [fg EXCEPT !.open = fg.at \notin ReleaseWindow]
    /\ sent' = sent + TransferSize
    /\ UNCHANGED <<size, output>>

LEMMA SectorArrives ==
    ASSUME TypeOK, Arrives
    PROVE  /\ TransferSize \in Nat /\ TransferSize > 0 /\ TransferSize <= SectorSize
           /\ sent' \in Nat /\ sent' > 0 /\ sent' <= size /\ sent < size
           /\ sent' < size => TransferSize = SectorSize
           /\ Pending = TransferSize <=> sent' = size
           /\ fg' \in [at : Points, open : BOOLEAN, remaining_size : Int, bytes_buffered : Nat,
                       decompress_end : Int, source : Addresses]
           /\ fg'.at = fg.at /\ fg'.bytes_buffered = fg.bytes_buffered
           /\ fg'.remaining_size = fg.remaining_size
           /\ fg'.decompress_end = fg.decompress_end /\ fg'.source = fg.source
           /\ fg'.open <=> fg.at \notin ReleaseWindow
<1>1. /\ TransferSize \in Nat /\ TransferSize > 0 /\ TransferSize <= SectorSize
      /\ sent' \in Nat /\ sent' > 0 /\ sent' <= size /\ sent < size
      /\ sent' < size => TransferSize = SectorSize
      /\ Pending = TransferSize <=> sent' = size
  BY Numbers, Geometry DEF Arrives, InFlight, TransferSize, Pending
<1>2. /\ fg' \in [at : Points, open : BOOLEAN, remaining_size : Int, bytes_buffered : Nat,
                  decompress_end : Int, source : Addresses]
      /\ fg'.at = fg.at /\ fg'.bytes_buffered = fg.bytes_buffered
      /\ fg'.remaining_size = fg.remaining_size
      /\ fg'.decompress_end = fg.decompress_end /\ fg'.source = fg.source
      /\ fg'.open <=> fg.at \notin ReleaseWindow
  BY DEF Arrives, TypeOK
<1> QED BY <1>1, <1>2

(* While sectors are on their way. *)
LEMMA StillComing ==
    ASSUME IInv, Arrives
    PROVE  /\ fg.at # "done" /\ fg.at # "reconciling" /\ ~state.input_complete
           /\ Aligned(sent) /\ output # Garbled /\ output + 2 <= size
           /\ sent' < size => Aligned(sent')
           /\ sent > 0 => /\ Loading /\ ~Reconciled /\ Aligned(SpanEnd)
                          /\ Aligned(state.wrap_overflow) /\ WholeSectors
                          /\ state.input_cursor < SpanEnd
<1>1. /\ sent < size /\ sent \in Nat /\ size \in Nat
      /\ sent' < size => sent' = sent + SectorSize
  BY SectorArrives, Numbers DEF IInv, Arrives
<1>2. /\ fg.at # "done" /\ fg.at # "reconciling" /\ ~state.input_complete
      /\ Aligned(sent) /\ output # Garbled /\ output + 2 <= size
  BY <1>1 DEF IInv, Ended, Placed, Words
<1>3. sent' < size => Aligned(sent')
  BY <1>1, <1>2, AlignedSum, Geometry
<1>4. ASSUME sent > 0
      PROVE  /\ Loading /\ ~Reconciled /\ Aligned(SpanEnd)
             /\ Aligned(state.wrap_overflow) /\ WholeSectors /\ state.input_cursor < SpanEnd
  BY <1>1, <1>2, <1>4 DEF IInv, Conserved, Bounded, Words, Loading
<1> QED BY <1>2, <1>3, <1>4

(* A callback that starts a new span at the cursor. *)
LEMMA NewSpan ==
    ASSUME IInv, Arrives, state' \in StateType, buffer' \in [Addresses -> Bytes],
           sent > 0 => ~state.data_ready,
           state'.data_ready = TRUE, state'.wrap_overflow = 0,
           state'.input_complete = state.input_complete,
           state'.input_cursor = state'.buffer_start,
           sent' = output + 1 + state'.bytes_buffered,
           state'.bytes_buffered > 0,
           SpanEnd' <= Limit + Guard, sent' < size => Aligned(SpanEnd'),
           size <= Limit => SpanEnd' <= sent',
           output = 0 => state'.input_cursor <= Guard /\ SpanEnd' <= Limit,
           \A i \in 0..state'.bytes_buffered - 1 :
              buffer'[state'.input_cursor + i] = output + 1 + i
    PROVE  IInv'
<1>1. /\ sent' \in Nat /\ sent' > 0 /\ sent' <= size
      /\ UNCHANGED <<size, output>> /\ size \in Sizes
      /\ output \in {Garbled} \cup 0..size - 1
      /\ fg' \in [at : Points, open : BOOLEAN, remaining_size : Int, bytes_buffered : Nat,
                  decompress_end : Int, source : Addresses]
      /\ fg'.at = fg.at /\ fg'.remaining_size = fg.remaining_size
      /\ fg'.open <=> fg.at \notin ReleaseWindow
  BY SectorArrives DEF Arrives, IInv, TypeOK
<1>2. /\ ~state.input_complete /\ fg.at \notin {"done", "reconciling"}
      /\ output # Garbled /\ output + 2 <= size /\ (sent' < size => Aligned(sent'))
  BY StillComing
<1>3. fg.at \in {"waiting", "released"} /\ fg.remaining_size = size - 1 - output
  <2>1. CASE sent = 0
    BY <2>1, Numbers DEF IInv, Begun
  <2>2. CASE sent # 0
    <3>1. ~state.data_ready /\ sent > 0
      BY <2>2, Numbers DEF IInv
    <3> QED BY <3>1, <1>2, Released DEF IInv, Placed, TypeOK, Points
  <2> QED BY <2>1, <2>2
<1>4. /\ output \in Nat /\ size \in Nat /\ fg.remaining_size \in Int
      /\ state'.bytes_buffered \in Nat /\ state'.input_cursor \in Nat
      /\ state'.input_cursor - state'.buffer_start = 0
  BY <1>2, Numbers, Geometry DEF IInv, StateType, Addresses
<1>5. Left' = state'.bytes_buffered /\ SpanEnd' = state'.input_cursor + state'.bytes_buffered
  BY <1>4 DEF Left, SpanEnd
<1>6. TypeOK'
  BY <1>1 DEF TypeOK, StateType, Bytes
<1>7. Begun' /\ Ended' /\ Placed' /\ Taken' /\ Tail'
  BY <1>1, <1>2, <1>3 DEF Begun, Ended, Placed, Taken, Tail, Loading, ReleaseWindow
<1>8. ~Reconciled'
  BY DEF Reconciled
<1>9. Conserved'
  <2>1. sent' = output' + 1 + Left' + 0
    BY <1>1, <1>4, <1>5
  <2>2. \A i \in 0..state'.wrap_overflow - 1 : FALSE
    OBVIOUS
  <2> QED BY <1>1, <1>5, <1>8, <2>1, <2>2 DEF Conserved
<1>10. Counted'
  BY <1>1, <1>3, <1>4 DEF Counted
<1>11. Bounded'
  <2>1. WholeSectors'
    <3>1. 0 \in 0..Sectors - 1 /\ 0 * SectorSize = 0
      BY Geometry
    <3> QED BY <3>1 DEF WholeSectors
  <2> QED BY <1>1, <1>4, <1>5, <2>1 DEF Bounded
<1>12. Words'
  <2>1. Aligned(0)
    BY GeometryAssumption DEF Aligned
  <2> QED BY <1>1, <1>2, <2>1 DEF Words
<1> QED BY <1>6, <1>7, <1>9, <1>10, <1>11, <1>12 DEF IInv

LEMMA FirstSectorKeeps ==
    ASSUME IInv, Arrives, FirstSector
    PROVE  IInv'
<1>1. /\ sent = 0 /\ buffer' = Stored(buffer, 0, TransferSize) /\ sent' = TransferSize
      /\ output = 0 /\ ~state.input_complete
  BY SectorArrives DEF FirstSector, Extract, IInv, Begun, Arrives
<1>2. /\ TransferSize \in Nat /\ TransferSize > 0 /\ TransferSize <= SectorSize
      /\ sent' <= size /\ (sent' < size => TransferSize = SectorSize)
  BY SectorArrives DEF IInv
<1>3. TransferSize > 1
  BY <1>1, <1>2, Numbers, Geometry DEF IInv
<1>4. TransferSize - 1 \in 0..Limit + Guard /\ 1 \in Addresses /\ 0 \in 0..Limit
  BY <1>2, Geometry DEF Addresses
<1>5. /\ state' \in StateType
      /\ state'.data_ready = TRUE /\ state'.wrap_overflow = 0
      /\ state'.input_complete = state.input_complete
      /\ state'.input_cursor = 1 /\ state'.buffer_start = 1
      /\ state'.bytes_buffered = TransferSize - 1
  BY <1>4 DEF FirstSector, IInv, TypeOK, StateType
<1>6. /\ buffer' \in [Addresses -> Bytes]
      /\ \A a \in Addresses : a >= 0 /\ a < 0 + TransferSize => buffer'[a] = sent + (a - 0)
  BY <1>1, <1>2, StoredAt DEF IInv, TypeOK, Bytes
<1>7. ASSUME NEW i \in 0..state'.bytes_buffered - 1
      PROVE  buffer'[state'.input_cursor + i] = output + 1 + i
  <2>1. 1 + i \in Addresses /\ 1 + i >= 0 /\ 1 + i < 0 + TransferSize /\ i \in Nat
    BY <1>2, <1>5, Geometry DEF Addresses
  <2> QED BY <1>1, <1>5, <1>6, <2>1
<1>8. SpanEnd' = TransferSize
  BY <1>2, <1>5 DEF SpanEnd
<1>9. sent' < size => Aligned(SpanEnd')
  BY <1>2, <1>8, Geometry
<1>10. sent > 0 => ~state.data_ready
  BY <1>1
<1>11. /\ sent' = output + 1 + state'.bytes_buffered /\ state'.bytes_buffered > 0
       /\ SpanEnd' <= Limit + Guard /\ SpanEnd' <= Limit /\ SpanEnd' <= sent'
       /\ state'.input_cursor <= Guard
  BY <1>1, <1>2, <1>3, <1>5, <1>8, Geometry
<1> QED BY <1>5, <1>6, <1>7, <1>9, <1>10, <1>11, NewSpan

LEMMA JoinWrappedKeeps ==
    ASSUME IInv, Arrives, JoinWrapped
    PROVE  IInv'
<1> DEFINE W == state.wrap_overflow
           T == TransferSize
           mem == UnwrappedBytes(state.bytes_consumed)
<1>1. /\ sent # 0 /\ ~state.data_ready /\ W # 0
      /\ state' = [Unwrapped(state.bytes_consumed, T)
                     EXCEPT !.wrap_overflow = 0, !.data_ready = TRUE]
      /\ buffer' = Stored(mem, Guard + W, T) /\ sent' = sent + T
  BY DEF JoinWrapped, Extract, WrapStart
<1>2. /\ T \in Nat /\ T > 0 /\ T <= SectorSize /\ sent' <= size
      /\ sent' < size => T = SectorSize
  BY SectorArrives DEF IInv
<1>3. /\ sent > 0 /\ sent \in Nat /\ fg.at # "done" /\ W \in Nat /\ Aligned(W) /\ WholeSectors
      /\ output \in Nat
  BY <1>1, Numbers, StillComing DEF IInv
<1>4. /\ Loading /\ ~Reconciled /\ Left \in Nat
      /\ state.bytes_buffered - state.bytes_consumed = Left
      /\ sent = output + 1 + Left + W
  BY <1>1, <1>3, Released
<1>5. W + SectorSize <= Limit
  <2>1. PICK k \in 0..Sectors - 1 : W = k * SectorSize
    BY <1>3 DEF WholeSectors
  <2>2. (k + 1) * SectorSize <= Sectors * SectorSize
    BY <2>1, Geometry
  <2> QED BY <2>1, <2>2, Geometry DEF Limit
<1>6. /\ mem \in [Addresses -> Bytes] /\ Left <= Guard
      /\ \A i \in 0..Left - 1 : mem[Guard - Left + i] = output + 1 + i
      /\ \A a \in Addresses : a >= Guard => mem[a] = buffer[a]
  BY <1>1, <1>3, UnwrappedWhole
<1>7. /\ buffer' \in [Addresses -> Bytes]
      /\ \A a \in Addresses :
           /\ a >= Guard + W /\ a < Guard + W + T => buffer'[a] = sent + (a - (Guard + W))
           /\ a < Guard + W => buffer'[a] = mem[a]
  <2>1. Guard + W \in Nat
    BY <1>3, Geometry
  <2> HIDE DEF mem
  <2> QED BY <1>1, <1>2, <1>6, <2>1, StoredAt DEF IInv
<1>8. /\ Guard - Left \in Addresses /\ W + Left + T \in 0..Limit + Guard
      /\ 0 \in 0..Limit
  BY <1>2, <1>3, <1>4, <1>5, <1>6, Geometry, SMTT(30) DEF Addresses
<1>9. /\ state' \in StateType
      /\ state'.data_ready = TRUE /\ state'.wrap_overflow = 0
      /\ state'.input_complete = state.input_complete
      /\ state'.input_cursor = Guard - Left /\ state'.buffer_start = Guard - Left
      /\ state'.bytes_buffered = W + Left + T
  BY <1>1, <1>4, <1>8 DEF Unwrapped, WrapStart, IInv, TypeOK, StateType
<1>10. SpanEnd' = Guard + W + T
  BY <1>2, <1>3, <1>4, <1>6, <1>9, Geometry DEF SpanEnd
<1>11. ASSUME NEW i \in 0..state'.bytes_buffered - 1
       PROVE  buffer'[state'.input_cursor + i] = output + 1 + i
  <2> DEFINE a == Guard - Left + i
  <2>1. a \in Addresses /\ i \in Nat /\ i < W + Left + T /\ a = state'.input_cursor + i
    <3>1. Left <= Guard /\ i \in 0..(W + Left + T) - 1 /\ state'.input_cursor = Guard - Left
      BY <1>6, <1>9
    <3> HIDE DEF W, T
    <3> QED BY <1>2, <1>3, <1>4, <1>5, <3>1, Geometry DEF Addresses
  <2>2. CASE i < Left
    <3>1. a < Guard + W
      BY <1>3, <1>4, <2>1, <2>2, Geometry
    <3> QED BY <1>4, <1>6, <1>7, <2>1, <2>2, <3>1
  <2>3. CASE i >= Left /\ i < Left + W
    <3>1. /\ a = Guard + (i - Left) /\ i - Left \in 0..W - 1 /\ a >= Guard /\ a < Guard + W
      BY <1>3, <1>4, <2>1, <2>3, Geometry
    <3>2. buffer[Guard + (i - Left)] = output + 1 + Left + (i - Left)
      BY <1>4, <3>1 DEF IInv, Conserved, WrapStart
    <3>3. buffer'[a] = buffer[a]
      BY <1>6, <1>7, <2>1, <3>1
    <3> HIDE DEF a
    <3> QED BY <1>3, <1>4, <2>1, <3>1, <3>2, <3>3
  <2>4. CASE i >= Left + W
    <3>1. /\ a >= Guard + W /\ a < Guard + W + T /\ a - (Guard + W) = i - Left - W
      BY <1>2, <1>3, <1>4, <2>1, <2>4, Geometry
    <3> QED BY <1>3, <1>4, <1>7, <2>1, <3>1
  <2> QED BY <1>3, <1>4, <2>1, <2>2, <2>3, <2>4
<1>12. sent' < size => Aligned(SpanEnd')
  <2>1. Guard \in Int /\ W \in Int /\ SectorSize \in Int /\ Aligned(Guard) /\ Aligned(W)
    BY <1>3, Geometry
  <2> HIDE DEF W
  <2>2. Aligned(Guard + W) /\ Guard + W \in Int
    BY <2>1, AlignedSum
  <2>3. Aligned((Guard + W) + SectorSize)
    BY <2>1, <2>2, AlignedSum, Geometry
  <2> QED BY <1>2, <1>10, <2>3
<1>13. ~(size <= Limit) /\ output # 0
  BY <1>1, <1>4 DEF IInv, Bounded, Conserved
<1>14. /\ sent' = output + 1 + state'.bytes_buffered /\ state'.bytes_buffered > 0
       /\ SpanEnd' <= Limit + Guard
  BY <1>1, <1>2, <1>3, <1>4, <1>5, <1>9, <1>10, Geometry
<1> QED BY <1>1, <1>7, <1>9, <1>11, <1>12, <1>13, <1>14, NewSpan

LEMMA CompactKeeps ==
    ASSUME IInv, Arrives, Compact
    PROVE  IInv'
<1> DEFINE T == TransferSize
           pad == Padding(Left)
           mem == Moved(state.buffer_start + state.bytes_consumed - pad, 0, Left + pad)
<1>1. /\ sent # 0 /\ ~state.data_ready /\ state.wrap_overflow = 0 /\ sent' = sent + T
  BY DEF Compact, Extract
<1>2. /\ T \in Nat /\ T > 0 /\ T <= SectorSize /\ sent' <= size
      /\ sent' < size => T = SectorSize
  BY SectorArrives DEF IInv
<1>3. /\ sent > 0 /\ sent \in Nat /\ sent < size /\ fg.at \notin {"done", "reconciling"}
      /\ output \in Nat /\ size \in Nat
  BY <1>1, Numbers, StillComing, SectorArrives DEF IInv
<1>4. /\ Loading /\ Left \in Nat /\ Unread = Left
      /\ SpanEnd = state.input_cursor + Left
      /\ sent = output + 1 + Left + 0
  BY <1>1, <1>3, Released DEF Unread
<1>5. /\ state' = [state EXCEPT !.bytes_buffered = Left + T, !.input_cursor = pad,
                                !.buffer_start = pad, !.data_ready = TRUE]
      /\ buffer' = Stored(mem, Left + pad, T)
  BY <1>4 DEF Compact, Extract
<1>6. /\ mem \in [Addresses -> Bytes]
      /\ pad \in Nat /\ pad < Word /\ Aligned(Left + pad) /\ pad <= state.input_cursor
      /\ \A i \in 0..Left - 1 : mem[pad + i] = output + 1 + i
  BY <1>1, <1>3, CompactedWhole
<1> HIDE DEF mem, pad
<1>7. Left <= Guard + SectorSize
  BY <1>1, <1>4, Geometry DEF IInv, Tail
<1>8. Left + pad <= Guard + SectorSize
  <2>1. Aligned(Guard + SectorSize - (Left + pad))
    <3>1. Aligned(Guard + SectorSize) /\ Guard + SectorSize \in Int /\ Left + pad \in Int
      BY <1>4, <1>6, AlignedSum, Geometry
    <3>2. Aligned((Guard + SectorSize) - (Left + pad))
      BY <1>6, <3>1, AlignedSum
    <3>3. (Guard + SectorSize) - (Left + pad) = Guard + SectorSize - (Left + pad)
      BY <1>4, <1>6, Geometry
    <3> QED BY <3>2, <3>3
  <2>2. /\ Guard + SectorSize - (Left + pad) \in Int
        /\ Guard + SectorSize - (Left + pad) + Word > 0
    BY <1>4, <1>6, <1>7, Geometry
  <2>3. Guard + SectorSize - (Left + pad) \in Nat
    BY <2>1, <2>2, AlignedNatural
  <2> QED BY <2>3, <1>4, <1>6, Geometry
<1>9. /\ buffer' \in [Addresses -> Bytes]
      /\ \A a \in Addresses :
           /\ a >= Left + pad /\ a < Left + pad + T => buffer'[a] = sent + (a - (Left + pad))
           /\ a < Left + pad => buffer'[a] = mem[a]
  <2>1. Left + pad \in Nat
    BY <1>4, <1>6
  <2> QED BY <1>1, <1>2, <1>5, <1>6, <2>1, StoredAt DEF IInv
<1>10. pad \in Addresses /\ Left + T \in 0..Limit + Guard
  BY <1>2, <1>4, <1>6, <1>7, Geometry DEF Addresses
<1>11. /\ state' \in StateType
       /\ state'.data_ready = TRUE /\ state'.wrap_overflow = 0
       /\ state'.input_complete = state.input_complete
       /\ state'.input_cursor = pad /\ state'.buffer_start = pad
       /\ state'.bytes_buffered = Left + T
  BY <1>1, <1>5, <1>10 DEF IInv, TypeOK, StateType
<1>12. SpanEnd' = Left + pad + T
  BY <1>2, <1>4, <1>6, <1>11 DEF SpanEnd
<1>13. ASSUME NEW i \in 0..state'.bytes_buffered - 1
       PROVE  buffer'[state'.input_cursor + i] = output + 1 + i
  <2>1. /\ pad + i \in Addresses /\ i \in Nat /\ i < Left + T
        /\ state'.input_cursor + i = pad + i
    BY <1>2, <1>4, <1>6, <1>8, <1>11, Geometry DEF Addresses
  <2>2. CASE i < Left
    BY <1>4, <1>6, <1>9, <2>1, <2>2
  <2>3. CASE i >= Left
    <3>1. /\ pad + i >= Left + pad /\ pad + i < Left + pad + T
          /\ (pad + i) - (Left + pad) = i - Left
      BY <1>2, <1>4, <1>6, <2>1, <2>3
    <3> QED BY <1>3, <1>4, <1>9, <2>1, <3>1
  <2> QED BY <1>4, <2>1, <2>2, <2>3
<1>14. sent' < size => Aligned(SpanEnd')
  <2>1. Left + pad \in Int
    BY <1>4, <1>6
  <2> QED BY <1>2, <1>6, <1>12, <2>1, AlignedSum, Geometry
<1>15. size <= Limit => SpanEnd' <= sent'
  <2>1. size <= Limit => SpanEnd <= sent
    BY <1>4 DEF IInv, Bounded
  <2> QED BY <1>1, <1>2, <1>3, <1>4, <1>6, <1>12, <2>1, Numbers DEF IInv
<1>16. /\ sent' = output + 1 + state'.bytes_buffered /\ state'.bytes_buffered > 0
       /\ SpanEnd' <= Limit + Guard /\ SpanEnd' <= Limit
       /\ state'.input_cursor <= Guard
  BY <1>1, <1>2, <1>3, <1>4, <1>6, <1>8, <1>11, <1>12, Geometry
<1> QED BY <1>1, <1>9, <1>11, <1>13, <1>14, <1>15, <1>16, NewSpan

(* A callback that adds to the span, or to the wrapped sectors, and leaves *)
(* what the decoder is working on alone.                                   *)
LEMMA AddedTo ==
    ASSUME IInv, Arrives, sent > 0, state.data_ready, state' \in StateType,
           buffer' \in [Addresses -> Bytes],
           state'.data_ready = TRUE,
           state'.input_complete <=> state.input_complete \/ Pending = TransferSize,
           state'.input_cursor = state.input_cursor,
           state'.buffer_start = state.buffer_start,
           state'.bytes_consumed = state.bytes_consumed,
           state'.bytes_buffered >= state.bytes_buffered
    PROVE  /\ TypeOK' /\ Begun' /\ Ended' /\ Placed' /\ Counted' /\ Taken'
           /\ fg.at \in ReleaseWindow => Left <= Guard /\ fg.at \in {"releasing", "clearing"}
<1>1. /\ sent' \in Nat /\ sent' > 0 /\ sent' <= size
      /\ UNCHANGED <<size, output>> /\ size \in Sizes
      /\ output \in {Garbled} \cup 0..size - 1
      /\ Pending = TransferSize <=> sent' = size
      /\ fg' \in [at : Points, open : BOOLEAN, remaining_size : Int, bytes_buffered : Nat,
                  decompress_end : Int, source : Addresses]
      /\ fg'.at = fg.at /\ fg'.remaining_size = fg.remaining_size
      /\ fg'.bytes_buffered = fg.bytes_buffered
      /\ fg'.decompress_end = fg.decompress_end /\ fg'.source = fg.source
      /\ fg.at \in ReleaseWindow => fg.open
  BY SectorArrives DEF Arrives, IInv, TypeOK
<1>2. /\ ~state.input_complete /\ fg.at \notin {"done", "reconciling"} /\ Loading
      /\ output # Garbled /\ output + 2 <= size
  BY StillComing
<1>3. fg.at # "released"
  BY <1>1 DEF IInv, Placed, ReleaseWindow
<1>4. TypeOK'
  BY <1>1 DEF TypeOK, StateType, Bytes
<1>5. Begun' /\ Ended'
  BY <1>1, <1>2 DEF Begun, Ended
<1>6. Placed'
  BY <1>1, <1>2, <1>3 DEF IInv, Placed, Loading
<1>7. Counted'
  BY <1>1, <1>2 DEF IInv, Counted, Loading
<1>8. Taken'
  BY <1>1, Numbers DEF IInv, Taken, DecodeLimit, StateType
<1>9. fg.at \in ReleaseWindow => Left <= Guard /\ fg.at \in {"releasing", "clearing"}
  BY <1>1, <1>2, <1>3 DEF IInv, Tail, ReleaseWindow
<1> QED BY <1>4, <1>5, <1>6, <1>7, <1>8, <1>9

LEMMA ExtendKeeps ==
    ASSUME IInv, Arrives, Extend
    PROVE  IInv'
<1> DEFINE T == TransferSize
<1>1. /\ sent # 0 /\ state.data_ready /\ state.wrap_overflow = 0 /\ SpanEnd + T <= Limit
      /\ state' = Completed([state EXCEPT !.bytes_buffered = @ + T])
      /\ buffer' = Stored(buffer, SpanEnd, T) /\ sent' = sent + T
  BY Numbers, SectorArrives, Geometry DEF Extend, Extract, Wraps, IInv, SpanEnd
<1>2. /\ T \in Nat /\ T > 0 /\ T <= SectorSize /\ sent' <= size
      /\ sent' < size => T = SectorSize
      /\ fg'.at = fg.at /\ fg'.bytes_buffered = fg.bytes_buffered
      /\ fg'.open <=> fg.at \notin ReleaseWindow
  BY SectorArrives DEF IInv
<1>3. /\ sent > 0 /\ sent \in Nat /\ sent < size /\ size \in Nat /\ output \in Nat
      /\ state.buffer_start \in Nat /\ state.bytes_buffered \in Nat
      /\ state.input_cursor \in Nat /\ SpanEnd \in Nat
      /\ SpanEnd = state.buffer_start + state.bytes_buffered
  BY <1>1, Numbers, StillComing, SectorArrives DEF IInv, SpanEnd
<1>4. /\ Loading /\ ~Reconciled /\ Aligned(SpanEnd) /\ WholeSectors
      /\ state.input_cursor < SpanEnd
  BY <1>3, StillComing
<1>5. sent = output + 1 + Left + 0 /\ Left \in Nat /\ Left = SpanEnd - state.input_cursor
  BY <1>1, <1>3, <1>4 DEF IInv, Conserved, Left
<1>6. state.bytes_buffered + T \in 0..Limit + Guard
  BY <1>1, <1>2, <1>3, Geometry
<1>7. /\ state' \in StateType
      /\ state'.data_ready = TRUE /\ state'.wrap_overflow = 0
      /\ state'.input_complete <=> state.input_complete \/ Pending = T
      /\ state'.input_cursor = state.input_cursor
      /\ state'.buffer_start = state.buffer_start
      /\ state'.bytes_consumed = state.bytes_consumed
      /\ state'.bytes_buffered = state.bytes_buffered + T
  BY <1>1, <1>6 DEF Completed, IInv, TypeOK, StateType
<1>8. /\ buffer' \in [Addresses -> Bytes]
      /\ \A a \in Addresses :
           /\ a >= SpanEnd /\ a < SpanEnd + T => buffer'[a] = sent + (a - SpanEnd)
           /\ a < SpanEnd => buffer'[a] = buffer[a]
  <2>1. buffer \in [Addresses -> Bytes]
    BY DEF IInv, TypeOK, Bytes
  <2> QED BY <1>1, <1>2, <1>3, <2>1, StoredAt DEF IInv
<1>9. SpanEnd' = SpanEnd + T /\ Left' = Left + T
  BY <1>2, <1>3, <1>5, <1>7 DEF SpanEnd, Left
<1>10. /\ TypeOK' /\ Begun' /\ Ended' /\ Placed' /\ Counted' /\ Taken'
       /\ fg.at \in ReleaseWindow => Left <= Guard /\ fg.at \in {"releasing", "clearing"}
  <2>1. state'.bytes_buffered >= state.bytes_buffered
    BY <1>2, <1>3, <1>7
  <2> QED BY <1>1, <1>3, <1>7, <1>8, <2>1, AddedTo
<1>11. Conserved'
  <2>1. ASSUME NEW i \in 0..Left' - 1
        PROVE  buffer'[state'.input_cursor + i] = output' + 1 + i
    <3> DEFINE a == state.input_cursor + i
    <3>1. a \in Addresses /\ i \in Nat /\ i < Left + T /\ output' = output
      BY <1>1, <1>2, <1>3, <1>5, <1>9, Geometry DEF Addresses, Arrives
    <3>2. CASE i < Left
      <4>1. a < SpanEnd /\ i \in 0..Left - 1
        BY <1>3, <1>5, <3>1, <3>2
      <4>2. buffer[a] = output + 1 + i
        BY <1>4, <4>1 DEF IInv, Conserved
      <4> QED BY <1>7, <1>8, <3>1, <4>1, <4>2
    <3>3. CASE i >= Left
      <4>1. a >= SpanEnd /\ a < SpanEnd + T /\ a - SpanEnd = i - Left
        BY <1>2, <1>3, <1>5, <3>1, <3>3
      <4> QED BY <1>3, <1>5, <1>7, <1>8, <3>1, <4>1
    <3> QED BY <1>5, <3>1, <3>2, <3>3
  <2>2. sent' = output' + 1 + Left' + 0
    BY <1>1, <1>2, <1>3, <1>5, <1>9 DEF Arrives
  <2>3. output' = 0 => state'.input_cursor <= Guard /\ SpanEnd' <= Limit
    BY <1>1, <1>4, <1>7, <1>9 DEF IInv, Conserved, Arrives
  <2>4. ~Reconciled' /\ \A i \in 0..state'.wrap_overflow - 1 : FALSE
    BY <1>7 DEF Reconciled
  <2> QED BY <1>7, <2>1, <2>2, <2>3, <2>4 DEF Conserved
<1>12. Tail'
  <2>1. fg.at \in {"releasing", "clearing"} => Left' <= Guard + SectorSize
    BY <1>2, <1>5, <1>9, <1>10, Geometry DEF ReleaseWindow
  <2> QED BY <1>2, <1>7, <2>1 DEF Tail, ReleaseWindow
<1>13. Bounded'
  <2>1. WholeSectors'
    BY <1>1, <1>4, <1>7 DEF WholeSectors
  <2>2. /\ state.buffer_start <= state.input_cursor
        /\ size <= Limit => SpanEnd <= sent
    BY <1>4 DEF IInv, Bounded
  <2> QED BY <1>1, <1>2, <1>3, <1>4, <1>7, <1>9, <2>1, <2>2, Geometry DEF Bounded, Arrives
<1>14. Words'
  <2>1. sent' < size => Aligned(SpanEnd')
    BY <1>2, <1>3, <1>4, <1>9, AlignedSum, Geometry
  <2>2. Aligned(0)
    BY GeometryAssumption DEF Aligned
  <2> QED BY <1>7, <2>1, <2>2, StillComing DEF Words, Arrives
<1> QED BY <1>10, <1>11, <1>12, <1>13, <1>14 DEF IInv

(***************************************************************************)
(* A sector wraps only to where the decoder has been: with whole words the *)
(* rounding of the last one makes no difference.                           *)
(***************************************************************************)
LEMMA WrapKeeps ==
    ASSUME WholeWords, IInv, Arrives, Wrap
    PROVE  IInv'
<1> DEFINE T == TransferSize
           W == state.wrap_overflow
<1>1. /\ sent # 0 /\ state.data_ready /\ (W # 0 \/ SpanEnd + T > Limit)
      /\ state.input_cursor >= Guard + W + T
      /\ state' = Completed([state EXCEPT !.wrap_overflow = @ + T])
      /\ buffer' = Stored(buffer, Guard + W, T) /\ sent' = sent + T
  BY DEF Wrap, Extract, Wraps, RoomToWrap, WrapStart
<1>2. /\ T \in Nat /\ T > 0 /\ T <= SectorSize /\ sent' <= size
      /\ sent' < size => T = SectorSize
      /\ fg'.at = fg.at /\ fg'.bytes_buffered = fg.bytes_buffered
      /\ fg'.open <=> fg.at \notin ReleaseWindow
  BY SectorArrives DEF IInv
<1>3. /\ sent > 0 /\ sent \in Nat /\ sent < size /\ size \in Nat /\ output \in Nat
      /\ state.buffer_start \in Nat /\ state.bytes_buffered \in Nat
      /\ state.input_cursor \in Nat /\ SpanEnd \in Nat /\ W \in Nat
      /\ SpanEnd = state.buffer_start + state.bytes_buffered
  BY <1>1, Numbers, StillComing, SectorArrives DEF IInv, SpanEnd
<1>4. /\ Loading /\ ~Reconciled /\ Aligned(SpanEnd) /\ Aligned(W) /\ WholeSectors
      /\ state.input_cursor < SpanEnd /\ Aligned(sent)
  BY <1>3, StillComing
<1>5. /\ sent = output + 1 + Left + W /\ Left \in Nat /\ Left = SpanEnd - state.input_cursor
      /\ SpanEnd <= Limit + Guard /\ state.buffer_start <= state.input_cursor
      /\ size <= Limit => SpanEnd <= sent /\ W = 0
  BY <1>1, <1>3, <1>4 DEF IInv, Conserved, Bounded, Left
<1>6. ~(size <= Limit)
  BY <1>1, <1>2, <1>3, <1>5, Geometry
<1>7. WordsOf(T) = T
  <2>1. CASE sent' < size
    BY <1>2, <2>1, Geometry, AlignedWords
  <2>2. CASE sent' = size
    <3>1. Aligned(size)
      BY <1>6 DEF WholeWords, IInv, TypeOK
    <3>2. Aligned(size - sent) /\ size - sent = T
      BY <1>1, <1>2, <1>3, <1>4, <2>2, <3>1, AlignedSum
    <3> QED BY <1>2, <3>2, AlignedWords
  <2> QED BY <1>2, <1>1, <1>3, <2>1, <2>2
<1>8. W + T \in 0..Limit
  BY <1>1, <1>2, <1>3, <1>4, <1>5, Geometry
<1>9. /\ state' \in StateType
      /\ state'.data_ready = TRUE /\ state'.wrap_overflow = W + T
      /\ state'.input_complete <=> state.input_complete \/ Pending = T
      /\ state'.input_cursor = state.input_cursor
      /\ state'.buffer_start = state.buffer_start
      /\ state'.bytes_consumed = state.bytes_consumed
      /\ state'.bytes_buffered = state.bytes_buffered
  BY <1>1, <1>8 DEF Completed, IInv, TypeOK, StateType
<1>10. /\ buffer' \in [Addresses -> Bytes]
       /\ \A a \in Addresses :
            /\ a >= Guard + W /\ a < Guard + W + T => buffer'[a] = sent + (a - (Guard + W))
            /\ a < Guard + W \/ a >= Guard + W + T => buffer'[a] = buffer[a]
  <2>1. buffer \in [Addresses -> Bytes]
    BY DEF IInv, TypeOK, Bytes
  <2>2. Guard + W \in Nat
    BY <1>3, Geometry
  <2> QED BY <1>1, <1>2, <1>7, <2>1, <2>2, StoredAt DEF IInv
<1>11. SpanEnd' = SpanEnd /\ Left' = Left
  BY <1>9 DEF SpanEnd, Left
<1>12. /\ TypeOK' /\ Begun' /\ Ended' /\ Placed' /\ Counted' /\ Taken'
       /\ fg.at \in ReleaseWindow => Left <= Guard /\ fg.at \in {"releasing", "clearing"}
  <2>1. state'.bytes_buffered >= state.bytes_buffered
    BY <1>3, <1>9
  <2> QED BY <1>1, <1>3, <1>9, <1>10, <2>1, AddedTo
<1>13. ~Reconciled' /\ output' = output
  BY <1>1, <1>2, <1>3, <1>5, <1>9, <1>11 DEF Reconciled, Arrives
<1>14. Conserved'
  <2>1. ASSUME NEW i \in 0..Left' - 1
        PROVE  buffer'[state'.input_cursor + i] = output' + 1 + i
    <3>1. /\ state.input_cursor + i \in Addresses /\ i \in 0..Left - 1
          /\ state.input_cursor + i >= Guard + W + T
      BY <1>1, <1>2, <1>3, <1>5, <1>11, Geometry DEF Addresses
    <3>2. buffer[state.input_cursor + i] = output + 1 + i
      BY <1>4, <3>1 DEF IInv, Conserved
    <3> QED BY <1>9, <1>10, <1>13, <3>1, <3>2
  <2>2. ASSUME NEW i \in 0..state'.wrap_overflow - 1
        PROVE  buffer'[WrapStart + i] = output' + 1 + Left' + i
    <3> DEFINE a == Guard + i
    <3>1. a \in Addresses /\ i \in Nat /\ i < W + T
      BY <1>2, <1>3, <1>8, <1>9, Geometry DEF Addresses
    <3>2. CASE i < W
      <4>1. a < Guard + W /\ i \in 0..W - 1
        BY <1>3, <3>1, <3>2, Geometry
      <4>2. buffer[a] = output + 1 + Left + i
        BY <1>4, <4>1 DEF IInv, Conserved, WrapStart
      <4> QED BY <1>10, <1>11, <1>13, <3>1, <4>1, <4>2 DEF WrapStart
    <3>3. CASE i >= W
      <4>1. a >= Guard + W /\ a < Guard + W + T /\ a - (Guard + W) = i - W
        BY <1>2, <1>3, <3>1, <3>3, Geometry
      <4>2. buffer'[a] = sent + (i - W)
        BY <1>10, <3>1, <4>1
      <4>3. sent + (i - W) = output + 1 + Left + i
        BY <1>3, <1>5, <3>1
      <4> QED BY <1>11, <1>13, <4>2, <4>3 DEF WrapStart
    <3> QED BY <1>3, <3>1, <3>2, <3>3
  <2>3. sent' = output' + 1 + Left' + state'.wrap_overflow
    BY <1>1, <1>2, <1>3, <1>5, <1>9, <1>11, <1>13
  <2>4. output' # 0
    BY <1>1, <1>2, <1>3, <1>4, <1>13, Geometry DEF IInv, Conserved
  <2> QED BY <1>13, <2>1, <2>2, <2>3, <2>4 DEF Conserved
<1>15. Tail'
  BY <1>2, <1>9, <1>11, <1>12 DEF Tail, ReleaseWindow
<1>16. Bounded'
  <2>1. sent' < size => WholeSectors'
    <3>1. SUFFICES ASSUME T = SectorSize PROVE WholeSectors'
      BY <1>2
    <3>2. PICK k \in 0..Sectors - 1 : W = k * SectorSize
      BY <1>4 DEF WholeSectors
    <3>3. W + SectorSize < Limit
      BY <1>1, <1>3, <1>4, <1>5, <3>1, Geometry
    <3>4. (k + 1) * SectorSize = W + SectorSize /\ (k + 1) * SectorSize < Sectors * SectorSize
      BY <3>2, <3>3, Geometry DEF Limit
    <3>5. k + 1 < Sectors
      BY <3>2, <3>4, Geometry
    <3>6. k + 1 \in 0..Sectors - 1
      BY <3>2, <3>5, Geometry
    <3>7. state'.wrap_overflow = (k + 1) * SectorSize
      BY <1>9, <3>1, <3>4
    <3> QED BY <3>6, <3>7 DEF WholeSectors
  <2>2. WrapStart + state'.wrap_overflow <= state'.input_cursor
    BY <1>1, <1>2, <1>3, <1>9, Geometry DEF WrapStart
  <2> QED BY <1>2, <1>3, <1>4, <1>5, <1>6, <1>9, <1>11, <2>1, <2>2, Geometry
          DEF Bounded, Arrives, WrapStart
<1>17. Words'
  <2>1. sent' < size => Aligned(W + T)
    <3>1. W \in Int /\ SectorSize \in Int /\ Aligned(W) /\ Aligned(SectorSize)
      BY <1>3, <1>4, Geometry
    <3> HIDE DEF W
    <3>2. Aligned(W + SectorSize)
      BY <3>1, AlignedSum
    <3> QED BY <1>2, <3>2
  <2> QED BY <1>4, <1>9, <1>11, <2>1, StillComing DEF Words, Arrives
<1> QED BY <1>12, <1>14, <1>15, <1>16, <1>17 DEF IInv

LEMMA SectorKeeps ==
    ASSUME WholeWords, IInv, Sector
    PROVE  IInv'
<1>1. Arrives
  BY DEF Sector, Arrives, FirstSector, JoinWrapped, Compact, Extend, Wrap, Extract
<1> QED BY <1>1, FirstSectorKeeps, JoinWrappedKeeps, CompactKeeps, ExtendKeeps, WrapKeeps
        DEF Sector

-----------------------------------------------------------------------------
(* The invariant. *)

LEMMA StreamInit == Init => IInv
<1> SUFFICES ASSUME Init PROVE IInv
  OBVIOUS
<1>1. /\ size \in Sizes /\ size \in Nat /\ size > 1 /\ sent = 0 /\ output = 0
      /\ state = [data_ready |-> FALSE, input_complete |-> FALSE, buffer_start |-> 0,
                  input_cursor |-> 0, bytes_buffered |-> 0, bytes_consumed |-> 0,
                  wrap_overflow |-> 0]
      /\ buffer = [a \in Addresses |-> Junk]
      /\ fg = [at |-> "waiting", open |-> TRUE, remaining_size |-> size - 1,
               bytes_buffered |-> 0, decompress_end |-> 0, source |-> 0]
  BY GeometryAssumption DEF Init
<1>2. TypeOK
  <2>1. 0 \in Addresses /\ 0 \in 0..Limit + Guard /\ 0 \in 0..Limit /\ 0 \in 0..size - 1
    BY <1>1, Geometry DEF Addresses
  <2> QED BY <1>1, <2>1 DEF TypeOK, Points
<1>3. Begun /\ Ended /\ Placed
  BY <1>1 DEF Begun, Ended, Placed, Loading, Garbled
<1>4. Conserved /\ Counted /\ Taken /\ Tail /\ Bounded
  BY <1>1 DEF Conserved, Counted, Taken, Tail, Bounded, Loading
<1>5. Words
  <2>1. Aligned(0)
    BY GeometryAssumption DEF Aligned
  <2> QED BY <1>1, <2>1 DEF Words
<1> QED BY <1>2, <1>3, <1>4, <1>5 DEF IInv

LEMMA StutterKeeps == IInv /\ UNCHANGED vars => IInv'
<1> SUFFICES ASSUME IInv, UNCHANGED vars PROVE IInv'
  OBVIOUS
<1>1. UNCHANGED <<size, sent, state, buffer, fg, output>>
  BY DEF vars
<1>2. TypeOK' /\ Begun' /\ Ended' /\ Placed'
  BY <1>1 DEF IInv, TypeOK, Begun, Ended, Placed, Loading
<1>3. Conserved' /\ Counted' /\ Taken' /\ Tail'
  BY <1>1 DEF IInv, Conserved, Counted, Taken, Tail, Loading, Reconciled, Left, SpanEnd,
              DecodeLimit, WrapStart
<1>4. Bounded' /\ Words'
  BY <1>1 DEF IInv, Bounded, Words, Loading, Reconciled, Left, SpanEnd, WholeSectors, WrapStart
<1> QED BY <1>2, <1>3, <1>4 DEF IInv

LEMMA StreamStep ==
    ASSUME WholeWords, IInv, [Next]_vars
    PROVE  IInv'
BY SectorKeeps, LookKeeps, BeginKeeps, ExpandKeeps, PausedKeeps, CheckKeeps, PublishKeeps,
   ReleaseKeeps, ContinueKeeps, ReconcileKeeps, StutterKeeps DEF Next, Foreground

THEOREM StreamInvariant ==
    ASSUME WholeWords
    PROVE  Spec => []IInv
BY StreamInit, StreamStep, PTL DEF Spec

(***************************************************************************)
(* Type correctness; in it, that a span and the sectors wrapped behind it  *)
(* never outgrow the input buffer by more than the guard, whatever the     *)
(* interrupts do, and that output is never Garbled for want of the next    *)
(* byte (cdrom_stream, cdrom_handle_stream_data).                          *)
(***************************************************************************)
THEOREM StreamTypeCorrect ==
    ASSUME WholeWords
    PROVE  Spec => [](TypeOK /\ output # Garbled)
<1>1. IInv => TypeOK /\ output # Garbled
  BY DEF IInv, Ended
<1> QED BY <1>1, StreamInvariant, PTL

(***************************************************************************)
(* Every byte the decoder may read without asking again is in its place.   *)
(***************************************************************************)
LEMMA InPlace == IInv => InputInPlace
<1> SUFFICES ASSUME IInv, sent > 0, fg.at # "done"
             PROVE  /\ \A i \in 0..Span - 1 : buffer[Cursor + i] = output + 1 + i
                    /\ \A i \in 0..Behind - 1 : buffer[WrapStart + i] = output + 1 + Span + i
                    /\ Behind \in {0, state.wrap_overflow}
  BY DEF InputInPlace
<1>1. Loading /\ output # Garbled
  BY DEF Loading, IInv, Ended
<1>2. Cursor = state.input_cursor /\ Span = Left
  BY DEF Cursor, Span, Left, IInv, Placed
<1>3. /\ sent = output + 1 + Left + IF Reconciled THEN 0 ELSE state.wrap_overflow
      /\ \A i \in 0..Left - 1 : buffer[state.input_cursor + i] = output + 1 + i
      /\ ~Reconciled => \A i \in 0..state.wrap_overflow - 1 :
                          buffer[WrapStart + i] = output + 1 + Left + i
  BY <1>1 DEF IInv, Conserved
<1>4. Behind = IF Reconciled THEN 0 ELSE state.wrap_overflow
  BY <1>1, <1>2, <1>3, Numbers DEF Behind, IInv, Left, SpanEnd
<1> QED BY <1>2, <1>3, <1>4

THEOREM InputStaysInPlace ==
    ASSUME WholeWords
    PROVE  Spec => []InputInPlace
BY StreamInvariant, InPlace, PTL

(***************************************************************************)
(* The word loops and CdGetSector are never given an address inside a      *)
(* word.                                                                   *)
(***************************************************************************)
THEOREM WordsStayAligned ==
    ASSUME WholeWords
    PROVE  Spec => []WordAligned
<1>1. IInv => WordAligned
  BY DEF IInv, Words, WordAligned, Aligned
<1> QED BY <1>1, StreamInvariant, PTL

-----------------------------------------------------------------------------
(***************************************************************************)
(* The loader implements the byte stream: the safety half of               *)
(* StreamImplements.                                                       *)
(***************************************************************************)
TakenSoFar == IF output = 0 THEN 0 ELSE output + 1

LEMMA NumbersNext ==
    ASSUME TypeOK'
    PROVE  /\ size' \in Nat /\ sent' \in Nat /\ sent' <= size'
           /\ output' \in Int /\ (output' # Garbled => output' \in Nat) /\ output' < size'
           /\ state'.buffer_start \in Nat /\ state'.input_cursor \in Nat
           /\ state'.bytes_buffered \in Nat /\ state'.wrap_overflow \in Nat
<1>1. /\ size' \in Sizes /\ sent' \in 0..size' /\ output' \in {Garbled} \cup 0..size' - 1
      /\ state' \in StateType
  BY DEF TypeOK, StateType
<1>2. /\ state'.buffer_start \in Addresses /\ state'.input_cursor \in Addresses
      /\ state'.bytes_buffered \in 0..Limit + Guard /\ state'.wrap_overflow \in 0..Limit
  BY <1>1 DEF StateType
<1>3. size' \in Nat /\ Addresses \subseteq Nat
  BY <1>1, Geometry, GeometryAssumption DEF Addresses
<1>4. \A s \in Nat : \A t \in 0..s, o \in {Garbled} \cup 0..s - 1 :
        /\ t \in Nat /\ t <= s
        /\ o \in Int /\ (o # Garbled => o \in Nat) /\ o < s
  BY DEF Garbled
<1>5. /\ sent' \in Nat /\ sent' <= size'
      /\ output' \in Int /\ (output' # Garbled => output' \in Nat) /\ output' < size'
  BY <1>1, <1>3, <1>4
<1>6. 0..Limit + Guard \subseteq Nat /\ 0..Limit \subseteq Nat
  BY Geometry
<1> QED BY <1>2, <1>3, <1>5, <1>6

LEMMA FeedStep ==
    ASSUME IInv, IInv', Sector
    PROVE  Stream!Feed
<1>1. Arrives
  BY DEF Sector, Arrives, FirstSector, JoinWrapped, Compact, Extend, Wrap, Extract
<1>2. /\ sent' \in Nat /\ sent' > 0 /\ sent' <= size /\ sent < sent' /\ sent \in Nat
      /\ size \in Nat /\ UNCHANGED <<size, output>> /\ fg'.at # "done"
  BY <1>1, SectorArrives, StillComing, Numbers DEF IInv, Arrives
<1>3. Loading' /\ output' # Garbled
  BY <1>2 DEF Loading, IInv, Ended
<1>4. /\ sent' = output' + 1 + Left' + IF Reconciled' THEN 0 ELSE state'.wrap_overflow
      /\ output' = 0 => state'.wrap_overflow = 0 /\ SpanEnd' <= Limit
      /\ SpanEnd' <= Limit + Guard /\ state'.input_cursor <= SpanEnd'
      /\ state'.wrap_overflow # 0 /\ ~Reconciled' =>
           state'.input_cursor >= WrapStart + state'.wrap_overflow
  BY <1>3 DEF IInv, Conserved, Bounded
<1>5. /\ output' \in Nat /\ state'.wrap_overflow \in Nat /\ state'.input_cursor \in Nat
      /\ Left' = SpanEnd' - state'.input_cursor /\ SpanEnd' \in Nat
  BY <1>3, NumbersNext DEF IInv, Left, SpanEnd
<1>6. sent' - TakenSoFar <= Limit + Guard
  <2>1. CASE output = 0
    BY <1>2, <1>4, <1>5, <2>1, Geometry DEF TakenSoFar
  <2>2. CASE output # 0
    BY <1>2, <1>4, <1>5, <2>2, Geometry DEF TakenSoFar, WrapStart
  <2> QED BY <2>1, <2>2
<1>7. sent' \in sent + 1..size /\ UNCHANGED <<size, TakenSoFar>>
  BY <1>2 DEF TakenSoFar
<1> QED BY <1>6, <1>7 DEF Stream!Feed, TakenSoFar

LEMMA TakeStep ==
    ASSUME IInv, IInv', Foreground
    PROVE  Stream!Take \/ UNCHANGED Stream!vars
<1>1. CASE Expand
  <2>1. UNCHANGED <<size, sent>> /\ output \in Nat /\ output' \in Nat /\ output' # Garbled
    <3>1. output # Garbled /\ output' # Garbled
      BY DEF IInv, Ended
    <3> QED BY <1>1, <3>1, Numbers, NumbersNext DEF Expand, IInv
  <2>2. output' > output
    <3>1. PICK n \in OpcodeLengths : output' \in {output + 1, output + n, Garbled}
      BY <1>1 DEF Expand
    <3>2. n \in Nat /\ n > 0
      BY GeometryAssumption
    <3> QED BY <2>1, <3>1, <3>2
  <2>3. output' + 1 <= sent'
    <3>1. sent' \in Nat /\ sent' > 0 /\ sent' <= size'
      BY <1>1, <2>1, HasBegun, Numbers DEF Expand, IInv
    <3>2. CASE fg'.at = "done"
      BY <2>1, <3>1, <3>2, NumbersNext DEF IInv, Ended
    <3>3. CASE fg'.at # "done"
      <4>1. Loading'
        BY <3>1, <3>3 DEF Loading
      <4>2. /\ sent' = output' + 1 + Left' + IF Reconciled' THEN 0 ELSE state'.wrap_overflow
            /\ state'.input_cursor <= SpanEnd'
        BY <4>1 DEF IInv, Conserved, Bounded
      <4> QED BY <2>1, <3>1, <4>2, NumbersNext DEF IInv, Left, SpanEnd
    <3> QED BY <3>2, <3>3
  <2>4. TakenSoFar' \in TakenSoFar + 1..sent
    <3>1. \A m, n \in Nat : \A t \in {0, m + 1} :
            n > m => n # 0 /\ n + 1 >= t + 1 /\ n + 1 \in Int /\ t + 1 \in Int
      OBVIOUS
    <3>2. TakenSoFar \in {0, output + 1} /\ output' # 0
      BY <2>1, <2>2, <3>1 DEF TakenSoFar
    <3>3. TakenSoFar' = output' + 1
      BY <3>2 DEF TakenSoFar
    <3>4. output' + 1 >= TakenSoFar + 1 /\ output' + 1 \in Int /\ TakenSoFar + 1 \in Int
      BY <2>1, <2>2, <3>1, <3>2
    <3>5. \A m, n, k \in Int : m >= n /\ m <= k => m \in n..k
      OBVIOUS
    <3>6. sent \in Int /\ sent' = sent
      BY <2>1, Numbers DEF IInv
    <3> QED BY <2>3, <3>3, <3>4, <3>5, <3>6
  <2> QED BY <2>1, <2>4 DEF Stream!Take, TakenSoFar
<1>2. CASE ~Expand
  BY <1>2 DEF Foreground, Look, Begin, Paused, Check, Publish, Release, Continue, Reconcile,
              Stream!vars
<1> QED BY <1>1, <1>2

(***************************************************************************)
(* The payload is expanded in order, each byte once, never past what has   *)
(* come in, and what is in and not yet out fits the buffer and its guard,  *)
(* whatever the interleaving of callback and decoder.                      *)
(***************************************************************************)
THEOREM StreamStepsImplemented ==
    ASSUME WholeWords
    PROVE  Spec => Stream!Init /\ [][Stream!Next]_(Stream!vars)
<1>1. Init => Stream!Init
  BY DEF Init, Stream!Init
<1>2. ASSUME IInv, IInv', [Next]_vars
      PROVE  [Stream!Next]_(Stream!vars)
  <2>1. CASE Next
    BY <1>2, <2>1, FeedStep, TakeStep DEF Next, Stream!Next
  <2>2. CASE UNCHANGED vars
    BY <2>2 DEF vars, Stream!vars
  <2> QED BY <1>2, <2>1, <2>2
<1> QED BY <1>1, <1>2, StreamInvariant, PTL DEF Spec

=============================================================================
