------------------------------ MODULE TailFrames ------------------------------
(***************************************************************************)
(* tail.ts: what readFrames makes of the body of an event stream, which    *)
(* arrives in chunks cut anywhere, also within a character; and toFrame,   *)
(* which decodes what a frame carries.                                     *)
(*                                                                         *)
(* A behaviour is one body.  The decoder takes it byte by byte and a chunk *)
(* ends after any of them, so that every cutting is a behaviour.           *)
(***************************************************************************)
EXTENDS Naturals, Sequences, SequencesExt, FiniteSets

CONSTANT Body   \* the bodies

\* A body is written in these units.  "e1" and "e2" are the bytes of one
\* character; the others are one character each, or a word of them.
Newline == "\n"
Character == "e"
Garbled == "?"

\* The bytes of a character follow each other, the last one may be missing.
WellFormed(b) ==
  \A i \in DOMAIN b : /\ b[i] = "e1" /\ i < Len(b) => b[i + 1] = "e2"
                      /\ b[i] = "e2" => i > 1 /\ b[i - 1] = "e1"

ASSUME BodyAssumption == \A b \in Body : b \in Seq(STRING) /\ WellFormed(b)

VARIABLES
  body,      \* all that the server sends
  carried,   \* the value in an event's frame, as JSON.parse gives it
  read,      \* how many bytes the decoder has had
  half,      \* whether it keeps the first byte of a character
  text,      \* all it has given, which only the properties look at
  buffer,    \* what of that is not yet cut off
  frames,    \* what each block gave, <<>> if it gave no frame
  phase      \* in readFrames: "next", "decode", "cut", or how it ended

frameVars == <<body, carried, read, half, text, buffer, frames, phase>>

-----------------------------------------------------------------------------
\* A value of JSON.parse is known by its kind.  num() takes finite numbers only.
JsonKind == {"string", "number", "infinite", "object", "absent"}
Str(x, default) == IF x = "string" THEN x ELSE default
Num(x, default) == IF x = "number" THEN x ELSE default

\* An event without outcome or time stamp is none; an event that has no
\* response is no request; the rest has defaults.
ToEvent(v) ==
  IF v.outcome # "string" \/ v.time # "number" THEN <<>>
  ELSE <<[outcome |-> v.outcome, time |-> v.time,
          status |-> IF v.response = "object" THEN Num(v.status, "zero") ELSE "none",
          name |-> Str(v.name, "empty"), cpu |-> Num(v.cpu, "null")]>>

Events == [outcome : JsonKind, time : JsonKind, response : {"object", "absent"}, status : JsonKind,
           name : JsonKind, cpu : JsonKind]

\* JSON.parse, as far as these bodies have it; and toFrame's answer to it.
ToFrame(data) ==
  CASE data = <<"a">> -> <<"ready">>
    [] data = <<"a", Newline, Character>> -> ToEvent(carried)
    [] data = <<Character>> -> <<"closed", Character>>
    [] OTHER -> <<>>

LinesOf(block) ==
  FoldLeft(LAMBDA lines, c :
             IF c = Newline THEN Append(lines, <<>>) ELSE Append(Front(lines), Append(Last(lines), c)),
           << <<>> >>, block)

WithNewlines(lines) ==
  IF lines = <<>> THEN <<>>
  ELSE FoldLeft(LAMBDA joined, line : joined \o <<Newline>> \o line, Head(lines), Tail(lines))

\* What follows data: in the lines that begin so, without one space.
DataOf(block) ==
  LET IsData(line) == IsPrefix(<<"data", ":">>, line)
      Carried(line) == IF Len(line) > 2 /\ line[3] = " " THEN SubSeq(line, 4, Len(line))
                       ELSE SubSeq(line, 3, Len(line))
      lines == SelectSeq(LinesOf(block), IsData)
  IN WithNewlines([i \in DOMAIN lines |-> Carried(lines[i])])

FrameOf(block) == ToFrame(DataOf(block))

-----------------------------------------------------------------------------
FramesInit ==
  /\ body \in Body
  /\ carried \in Events
  /\ read = 0
  /\ half = FALSE
  /\ text = <<>>
  /\ buffer = <<>>
  /\ frames = <<>>
  /\ phase = "next"

ChunkArrives ==
  /\ phase = "next" /\ read < Len(body)
  /\ phase' = "decode"
  /\ UNCHANGED <<body, carried, read, half, text, buffer, frames>>

\* decode with stream: true.  A first byte waits for the second one.
DecodeByte ==
  /\ phase = "decode" /\ read < Len(body)
  /\ read' = read + 1
  /\ LET byte == body[read + 1]
         given == IF byte = "e1" THEN <<>>
                  ELSE IF byte = "e2" THEN <<IF half THEN Character ELSE Garbled>> ELSE <<byte>>
     IN /\ half' = (byte = "e1")
        /\ text' = text \o given
        /\ buffer' = buffer \o given
  /\ UNCHANGED <<body, carried, frames, phase>>

\* Mutant: decode without stream: true forgets a first byte.
ChunkEndsForgetting ==
  /\ phase = "decode"
  /\ phase' = "cut"
  /\ half' = FALSE
  /\ UNCHANGED <<body, carried, read, text, buffer, frames>>

ChunkEnds ==
  /\ phase = "decode"
  /\ phase' = "cut"
  /\ UNCHANGED <<body, carried, read, half, text, buffer, frames>>

\* The places of blank lines.
Breaks(s) == {i \in 1..(Len(s) - 1) : s[i] = Newline /\ s[i + 1] = Newline}

\* A block ends at the first blank line in the buffer; toFrame is asked of it.
CutBlock ==
  /\ phase = "cut"
  /\ \E end \in Breaks(buffer) :
       /\ \A i \in Breaks(buffer) : end <= i
       /\ buffer' = SubSeq(buffer, end + 2, Len(buffer))
       /\ frames' = Append(frames, FrameOf(SubSeq(buffer, 1, end - 1)))
  /\ UNCHANGED <<body, carried, read, half, text, phase>>

\* Mutant: a chunk is taken to end at most one frame.
ChunkDoneAnyway ==
  /\ phase = "cut"
  /\ phase' = "next"
  /\ UNCHANGED <<body, carried, read, half, text, buffer, frames>>

ChunkDone ==
  /\ phase = "cut" /\ Breaks(buffer) = {}
  /\ phase' = "next"
  /\ UNCHANGED <<body, carried, read, half, text, buffer, frames>>

\* What is left in the buffer at the end is no frame.
BodyEnds ==
  /\ phase = "next" /\ read = Len(body)
  /\ phase' = "ended"
  /\ UNCHANGED <<body, carried, read, half, text, buffer, frames>>

\* reader.read() throws: the connection is lost, or was aborted.
BodyBreaks ==
  /\ phase = "next"
  /\ phase' = "broken"
  /\ UNCHANGED <<body, carried, read, half, text, buffer, frames>>

FramesNext ==
  ChunkArrives \/ DecodeByte \/ ChunkEnds \/ CutBlock \/ ChunkDone \/ BodyEnds \/ BodyBreaks

FramesSpec == FramesInit /\ [][FramesNext]_frameVars

(***************************************************************************)
(* Properties.  They speak of the body and of its text, not of chunks.     *)
(***************************************************************************)
\* The bytes among the first n that end a character, and the character.
CharEnds(n) == {i \in 1..n : body[i] # "e1"}
Spelt(i) == IF body[i] = "e2" THEN Character ELSE body[i]

\* The text is that of the bytes.
TextWhole ==
  /\ Len(text) = Cardinality(CharEnds(read))
  /\ \A i \in CharEnds(read) : text[Cardinality(CharEnds(i))] = Spelt(i)

\* Of the newlines in a row every second one, from the first, ends a block.
RowFrom(s, i) == (s = 1 \/ text[s - 1] # Newline) /\ \A j \in s..i : text[j] = Newline
BlockEnds == {i \in Breaks(text) : \E s \in 1..i : RowFrom(s, i) /\ \E k \in 0..i : i = s + 2 * k}

\* From the end of the block before, if there is one.
BlockFrom(s, i) ==
  /\ s = 1 \/ s - 2 \in BlockEnds
  /\ \A d \in BlockEnds : d < i => d + 2 <= s

\* Those that are cut off.
Cut == {i \in BlockEnds : i < Len(text) - Len(buffer)}

BlocksWhole ==
  /\ Len(frames) = Cardinality(Cut)
  /\ \A i \in Cut : \E s \in 1..i :
       BlockFrom(s, i) /\ frames[Cardinality({d \in Cut : d <= i})] = FrameOf(SubSeq(text, s, i - 1))

\* Of an event nothing that is well-formed is lost, and what is not gets through
\* in no field that is printed.
EventRight(v, event) ==
  IF v.outcome = "string" /\ v.time = "number"
  THEN \E e \in ToSet(event) :
         /\ e.name = "string" <=> v.name = "string"
         /\ e.cpu = "number" <=> v.cpu = "number"
         /\ e.status = "number" <=> v.status = "number" /\ v.response = "object"
         /\ {e.name, e.cpu, e.status} \cap {"infinite", "object", "absent"} = {}
  ELSE event = <<>>

\* However the body of an event stream is cut into chunks, the frames that come
\* out are those of its blocks, in their order, all that have ended by the time
\* readFrames waits for more or returns; and an event's fields are what it
\* carries or a default.
FramesWhole ==
  /\ TextWhole /\ BlocksWhole
  /\ phase \in {"next", "ended", "broken"} => Cut = BlockEnds
  /\ phase = "ended" => read = Len(body)
  /\ EventRight(carried, ToEvent(carried))

=============================================================================
