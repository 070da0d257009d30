------------------------------- MODULE Frames -------------------------------
(***************************************************************************)
(* The frames of both firmwares as bytes: the text frames of the legacy    *)
(* protocol (tryx-legacy/src/frame.rs), which are stuffed, and the binary  *)
(* frames of KANALI (tryx-proto/src/frame.rs), which have a length, with   *)
(* the loop that finds them in what is read (tryx-kanali/src/session.rs).  *)
(* The values are those of the program.  A buffer that is changed in place *)
(* is the sequence of what is left of it.                                  *)
(***************************************************************************)
EXTENDS Naturals, Sequences, SequencesExt

From(s, i) == SubSeq(s, i, Len(s))

-----------------------------------------------------------------------------
(* Legacy: marker, stuffed (length, text, checksum), marker.               *)

FRAME_MARKER == 90
ESCAPE_MARKER == 91
FRAMING_OVERHEAD == 5

crc8(data) == FoldSeq(LAMBDA byte, sum : (sum + byte) % 256, 0, data)

Stuffed(byte) ==
    CASE byte = FRAME_MARKER -> <<ESCAPE_MARKER, 1>>
      [] byte = ESCAPE_MARKER -> <<ESCAPE_MARKER, 2>>
      [] OTHER -> <<byte>>

escape(data) == FlattenSeq([i \in 1..Len(data) |-> Stuffed(data[i])])

\* An escape byte before anything else is kept as it is.
unescape[data \in Seq(Nat)] ==
    IF data = << >> THEN << >>
    ELSE IF Len(data) > 1 /\ data[1] = ESCAPE_MARKER /\ data[2] \in {1, 2}
    THEN <<data[2] + FRAME_MARKER - 1>> \o unescape[From(data, 3)]
    ELSE <<data[1]>> \o unescape[Tail(data)]

\* The length is two bytes, the high one first; wrap refuses a longer text.
wrap(text) ==
    LET length == Len(text) + FRAMING_OVERHEAD
        raw == <<length \div 256, length % 256>> \o text
    IN  <<FRAME_MARKER>> \o escape(Append(raw, crc8(raw))) \o <<FRAME_MARKER>>

\* Nothing, or the text of a frame and what its length and checksum say of it.
parse_response(frame) ==
    LET decoded == unescape[SubSeq(frame, 2, Len(frame) - 1)]
        payload == Front(decoded)
        text == From(payload, 3)
    IN  IF Len(frame) < 4 \/ Len(decoded) < 3 THEN << >>
        ELSE <<[text |-> text,
                checksum_ok |-> crc8(payload) = Last(decoded),
                length_ok |-> payload[1] * 256 + payload[2] = Len(text) + FRAMING_OVERHEAD]>>

\* The frame between the first two markers and what is left; bytes before it
\* are dropped with it.  No frame is no bytes.
LegacyFrame(buffer) ==
    LET markers == {i \in 1..Len(buffer) : buffer[i] = FRAME_MARKER}
        start == Min(markers)
        end == Min(markers \ {start})
    IN  IF \E i, j \in markers : i # j
        THEN [frame |-> SubSeq(buffer, start, end), left |-> From(buffer, end + 1)]
        ELSE [frame |-> << >>, left |-> buffer]

-----------------------------------------------------------------------------
(* KANALI: the magic, four bytes of length with the low one first, payload. *)

MAGIC == <<84, 82, 89, 88>>     \* "TRYX"
HEADER_LEN == 8
MAX_PAYLOAD_LEN == 1024 * 1024

encode(payload) ==
    LET n == Len(payload)
    IN  MAGIC \o <<n % 256, (n \div 256) % 256, n \div 65536, 0>> \o payload

StartsWith(buffer, s) == Len(buffer) >= Len(s) /\ SubSeq(buffer, 1, Len(s)) = s

\* Bytes five to eight; one in the highest makes any length implausible.
Plausible(buffer) ==
    /\ buffer[8] = 0
    /\ buffer[5] + 256 * buffer[6] + 65536 * buffer[7] <= MAX_PAYLOAD_LEN

FrameLen(buffer) ==
    HEADER_LEN + buffer[5] + 256 * buffer[6] + 65536 * buffer[7]

\* take_frame: a payload, if a whole frame is there; a bad header clears all.
KanaliFrame(buffer) ==
    LET More == [payload |-> << >>, left |-> buffer]
        Malformed == [payload |-> << >>, left |-> << >>]
    IN  IF Len(buffer) < Len(MAGIC) THEN More
        ELSE IF ~StartsWith(buffer, MAGIC) THEN Malformed
        ELSE IF Len(buffer) < HEADER_LEN THEN More
        ELSE IF ~Plausible(buffer) THEN Malformed
        ELSE IF Len(buffer) < FrameLen(buffer) THEN More
        ELSE [payload |-> <<SubSeq(buffer, HEADER_LEN + 1, FrameLen(buffer))>>,
              left |-> From(buffer, FrameLen(buffer) + 1)]

\* Mutant: without a magic, nothing of the buffer is kept.
NothingKept(buffer) ==
    LET magics == {i \in 1..Len(buffer) : StartsWith(From(buffer, i), MAGIC)}
    IN  IF magics # {} THEN From(buffer, Min(magics)) ELSE << >>

\* What is left starts with the magic, or is the longest end of the buffer
\* that a magic may start with.
discard_bytes_before_frame_magic(buffer) ==
    LET magics == {i \in 1..Len(buffer) : StartsWith(From(buffer, i), MAGIC)}
        ends == {k \in 0..3 : k <= Len(buffer)
                    /\ From(buffer, Len(buffer) - k + 1) = SubSeq(MAGIC, 1, k)}
    IN  IF magics # {} THEN From(buffer, Min(magics))
        ELSE From(buffer, Len(buffer) - Max(ends) + 1)

\* A magic whose length is not plausible is not one: a byte goes.
discard_bytes_before_plausible_frame[buffer \in Seq(Nat)] ==
    LET b == discard_bytes_before_frame_magic(buffer)
    IN  IF Len(b) < HEADER_LEN \/ Plausible(b) THEN b
        ELSE discard_bytes_before_plausible_frame[Tail(b)]

\* Session::read_frame, called until there is no frame: garbage first, then a
\* frame, from what was pending and what was read.
read_frame[pending \in Seq(Nat)] ==
    LET taken == KanaliFrame(discard_bytes_before_plausible_frame[pending])
        later == read_frame[taken.left]
    IN  IF taken.payload = << >> THEN [pending |-> taken.left, got |-> << >>]
        ELSE [pending |-> later.pending, got |-> taken.payload \o later.got]

ReadAll(first, second) ==
    LET before == read_frame[first]
        after == read_frame[before.pending \o second]
    IN  before.got \o after.got

=============================================================================
