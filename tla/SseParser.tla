------------------------------ MODULE SseParser ------------------------------
(***************************************************************************)
(* The usage parser of one streamed response: the parsing part of          *)
(* _stream_bytes() and _consume_sse_events() (services/proxy.py).          *)
(*                                                                         *)
(* The upstream's answer is a text; the network cuts it into chunks        *)
(* wherever it likes.  A text is a sequence of the pieces the parser tells *)
(* apart, each counted as one byte: "data:", CR and LF, a JSON object with *)
(* usage, a JSON value that is no object ("list"), any other word          *)
(* ("[DONE]", malformed JSON, another field), and the first byte of a      *)
(* character that takes several ("half").  CR is whitespace to JSON.       *)
(*                                                                         *)
(* Disconnects and failures of the upstream are in Gateway; what happens   *)
(* to the usage after the stream's end is there, too.                      *)
(***************************************************************************)
EXTENDS Naturals, SequencesExt

CONSTANTS
    Streams,         \* the answers considered
    Usages,          \* JSON objects the extractor finds usage in
    MaxChunk,        \* longest chunk the client library hands over
    MaxBufferBytes   \* server.max_sse_decode_buffer_bytes

CR == "\r"
LF == "\n"
Pieces == {"data:", CR, LF, "list", "word", "half"} \cup Usages

None == "none"

ASSUME ParserAssumption ==
    /\ Streams \subseteq Seq(Pieces)
    /\ None \notin Usages
    /\ MaxChunk \in Nat \ {0}
    /\ MaxBufferBytes \in Nat \ {0}

VARIABLES
    stream,          \* the answer
    taken,           \* how much of it has arrived
    decode_buffer,
    latest_usage,
    parsing_enabled,
    outcome          \* "open", "complete", or "broken" by the extractor

vars == <<stream, taken, decode_buffer, latest_usage, parsing_enabled, outcome>>

-----------------------------------------------------------------------------
\* s with every CR LF replaced by LF, from left to right.
Normalized(s) ==
    LET InPair(i) == s[i] = CR /\ i < Len(s) /\ s[i + 1] = LF
        kept[i \in 0 .. Len(s)] ==
            IF i = 0 THEN <<>>
            ELSE IF InPair(i) THEN kept[i - 1] ELSE Append(kept[i - 1], s[i])
    IN  kept[Len(s)]

\* Where the first event ends: the first of two LF in a row, or 0.
EventEnd(s) ==
    LET ends == {i \in 1 .. Len(s) - 1 : s[i] = LF /\ s[i + 1] = LF}
    IN  IF ends = {} THEN 0 ELSE Min(ends)

LineStart(e, i) == i = 1 \/ e[i - 1] = LF

\* What json.loads() is given, without whitespace: the text of the lines that
\* start with "data:", after that prefix.
EventPayload(e) ==
    LET OnDataLine(i) == \E j \in 1 .. i - 1 : /\ LineStart(e, j) /\ e[j] = "data:"
                                              /\ \A k \in j .. i : e[k] # LF
        shown[i \in 0 .. Len(e)] ==
            IF i = 0 THEN <<>>
            ELSE IF e[i] # CR /\ OnDataLine(i) THEN Append(shown[i - 1], e[i])
            ELSE shown[i - 1]
    IN  shown[Len(e)]

\* The latest usage after an event with that payload.
Extracted(payload, latest) ==
    IF \E u \in Usages : payload = <<u>> THEN payload[1] ELSE latest

\* One turn of the loop of _consume_sse_events(): an event is taken off, if there
\* is one.  The extractor raises on JSON that is no object; anything that is not
\* one JSON value is skipped.
Turn(drained) ==
    LET end     == EventEnd(drained.rest)
        payload == EventPayload(SubSeq(drained.rest, 1, end - 1))
    IN  IF drained.raised \/ end = 0 THEN drained
        ELSE IF payload = <<"list">> THEN [drained EXCEPT !.raised = TRUE]
        ELSE [drained EXCEPT !.rest = SubSeq(@, end + 2, Len(@)),
                             !.usage = Extracted(payload, @)]

\* The loop: [rest, usage, raised] once text has been searched for events, latest
\* being the usage before.  A text has no more events than pieces.
Drained(text, latest) ==
    LET turn[i \in 0 .. Len(text)] ==
            IF i = 0 THEN [rest |-> text, usage |-> latest, raised |-> FALSE]
                     ELSE Turn(turn[i - 1])
    IN  turn[Len(text)]

\* Mutant of Buffered: line ends are normalized before the fragment is joined.
BufferedUnjoined(fragment) == decode_buffer \o Normalized(fragment)

\* The buffer once a fragment has been added.
Buffered(fragment) == Normalized(decode_buffer \o fragment)

\* Mutant of Overflows: the bound is put on a chunk, not on the buffer.
FragmentOverflows(fragment) == Len(fragment) > MaxBufferBytes

\* Mutant of Overflows: what has arrived so far counts, parsed or not.
EverythingOverflows(fragment) == taken + Len(fragment) > MaxBufferBytes

Overflows(fragment) == Len(Buffered(fragment)) > MaxBufferBytes

\* _consume_sse_events() does not give up: the buffer fits, it is searched for
\* events, and either the extractor raises, which leaves the caller's variables
\* as they were, or the rest and the latest usage are kept.
Consume(fragment, next) ==
    LET drained == Drained(Buffered(fragment), latest_usage)
    IN  /\ ~Overflows(fragment)
        /\ UNCHANGED parsing_enabled
        /\ IF drained.raised
              THEN outcome' = "broken" /\ UNCHANGED <<decode_buffer, latest_usage>>
              ELSE /\ outcome' = next
                   /\ decode_buffer' = drained.rest
                   /\ latest_usage' = drained.usage

\* Undecodable bytes or too long a buffer: no usage is read from here on.
\* Only an overflow clears the buffer.
GiveUp(overflow, next) ==
    /\ parsing_enabled' = FALSE
    /\ decode_buffer' = IF overflow THEN <<>> ELSE decode_buffer
    /\ outcome' = next
    /\ UNCHANGED latest_usage

-----------------------------------------------------------------------------
Init ==
    /\ stream \in Streams
    /\ taken = 0
    /\ decode_buffer = <<>>
    /\ latest_usage = None
    /\ parsing_enabled = TRUE
    /\ outcome = "open"

Chunk(n) == SubSeq(stream, taken + 1, taken + n)

\* The incremental decoder keeps an incomplete character back until the next
\* byte, which here never completes it.
DecoderHolds == taken > 0 /\ stream[taken] = "half"
Undecodable(chunk) == DecoderHolds \/ "half" \in ToSet(Front(chunk))
Fragment(chunk) == IF Last(chunk) = "half" THEN Front(chunk) ELSE chunk

\* A chunk arrives, is searched for usage, and goes on to the client.
ChunkArrives(n) ==
    /\ outcome = "open"
    /\ taken + n <= Len(stream)
    /\ taken' = taken + n
    /\ UNCHANGED stream
    /\ LET chunk == Chunk(n) IN
       \/ /\ ~parsing_enabled
          /\ UNCHANGED <<decode_buffer, latest_usage, parsing_enabled, outcome>>
       \/ parsing_enabled /\ Undecodable(chunk) /\ GiveUp(FALSE, "open")
       \/ /\ parsing_enabled /\ ~Undecodable(chunk)
          /\ \/ Consume(Fragment(chunk), "open")
             \/ Overflows(Fragment(chunk)) /\ GiveUp(TRUE, "open")

\* The upstream's stream is over: the decoder is flushed and the buffer
\* searched a last time.  It cannot overflow any more.
StreamEnds ==
    /\ outcome = "open"
    /\ taken = Len(stream)
    /\ UNCHANGED <<stream, taken>>
    /\ \/ /\ ~parsing_enabled
          /\ outcome' = "complete"
          /\ UNCHANGED <<decode_buffer, latest_usage, parsing_enabled>>
       \/ parsing_enabled /\ DecoderHolds /\ GiveUp(FALSE, "complete")
       \/ parsing_enabled /\ ~DecoderHolds /\ Consume(<<>>, "complete")

Next == StreamEnds \/ \E n \in 1 .. MaxChunk : ChunkArrives(n)

Spec == Init /\ [][Next]_vars

-----------------------------------------------------------------------------
(***************************************************************************)
(* What a text says, read line by line and in one piece.                   *)
(***************************************************************************)

Arrived == SubSeq(stream, 1, taken)

\* A reader knows how the line at hand began, the data since the last blank
\* line, the latest usage, and whether the extractor has raised.
Fresh == [line |-> "start", data |-> <<>>, usage |-> None, raised |-> FALSE]

\* A line ends with LF or CR LF; a blank one dispatches the data.
BlankLine(reader) ==
    [line |-> "start", data |-> <<>>,
     usage |-> IF \E u \in Usages : reader.data = <<u>> THEN reader.data[1] ELSE reader.usage,
     raised |-> reader.raised \/ reader.data = <<"list">>]

ReadPiece(reader, piece) ==
    CASE piece = LF /\ reader.line \in {"start", "cr"} -> BlankLine(reader)
      [] piece = LF /\ reader.line \in {"data", "other"} -> [reader EXCEPT !.line = "start"]
      [] piece # LF /\ reader.line = "start" ->
           [reader EXCEPT !.line = IF piece = "data:" THEN "data"
                                   ELSE IF piece = CR THEN "cr" ELSE "other"]
      [] piece # LF /\ reader.line = "data" ->
           [reader EXCEPT !.data = IF piece = CR THEN @ ELSE Append(@, piece)]
      [] piece # LF /\ reader.line \in {"cr", "other"} -> [reader EXCEPT !.line = "other"]

\* What the reader knows when it has read the text.
Read(reader, text) ==
    LET read[i \in 0 .. Len(text)] ==
            IF i = 0 THEN reader ELSE ReadPiece(read[i - 1], text[i])
    IN  read[Len(text)]

\* CR CR LF is no line end of the format.  Its first CR can pair with the LF in
\* a later call, or not: what it means depends on the chunks.
Regular(text) ==
    \A i \in 1 .. Len(text) - 2 : ~ (text[i] = CR /\ text[i + 1] = CR /\ text[i + 2] = LF)

\* However the network cuts the answer, even between CR and LF or in the middle
\* of a line, the usage at hand is that of the last event that carries one in
\* the text so far, and an event the extractor cannot take has ended the stream.
\* Nothing is counted twice, lost, or read from an event that is not complete.
UsageIndependentOfChunks ==
    parsing_enabled /\ outcome # "broken" /\ Regular(Arrived)
        => LET reader == Read(Fresh, Arrived)
           IN  ~reader.raised /\ latest_usage = reader.usage

\* A stretch of the text within one event.
LongestEvent(text) ==
    LET stretches == {p \in (1 .. Len(text) + 1) \X (0 .. Len(text)) : p[1] <= p[2] + 1}
        WithinEvent(p) == EventEnd(SubSeq(text, p[1], p[2])) = 0
    IN  Max({p[2] + 1 - p[1] : p \in {q \in stretches : WithinEvent(q)}})

\* The parser gives a response up only over undecodable bytes or an event that,
\* with one more chunk, is too long for the buffer; a long answer of short
\* events never is.
GivesUpOnLongEventsOnly ==
    ~parsing_enabled =>
        \/ "half" \in ToSet(Arrived)
        \/ LongestEvent(Normalized(Arrived)) >= MaxBufferBytes - MaxChunk

\* The state kept between two chunks is bounded, and holds no complete event
\* (but for the LF that an irregular CR CR LF turns into later).
BufferBounded ==
    /\ Len(decode_buffer) <= MaxBufferBytes
    /\ EventEnd(decode_buffer) = 0
=============================================================================
