---------------------------- MODULE TextFraming ----------------------------
(***************************************************************************)
(* How the station receiver cuts a TCP stream into frames: FrameDecoder    *)
(* and the codec of competition/station_text.py, driven by the receive     *)
(* loop of StationPeer.run. TCP hands the stream over in chunks of any     *)
(* size; a text frame has no length and no line end, it is complete when   *)
(* its last field is the word end, at the place the prefix gives it.       *)
(*                                                                         *)
(* A byte is a one-character string. What matters of a field is whether    *)
(* plain() lets it pass and whether it looks like the terminator.          *)
(***************************************************************************)
EXTENDS Integers, Sequences, SequencesExt, FiniteSets

CONSTANTS
    COMMAS,    \* the prefixes and the number of commas before the last field
    Fields,    \* field values stations report
    Noise,     \* other byte strings that may be on the wire
    MAX_FRAME, \* bytes of a frame
    MaxChunk,  \* bytes recv returns at most
    MAX_RATE,  \* frames taken within a second
    MAX_ERRORS,\* refused frames after which a connection is closed
    MaxPieces  \* bound on the messages and noise of one stream

ASSUME FramingConstants ==
    /\ \A x \in DOMAIN COMMAS : COMMAS[x] \in Nat \ {0}
    /\ DOMAIN COMMAS \cup Fields \cup Noise \subseteq Seq(STRING)
    /\ MAX_FRAME \in Nat \ {0} /\ MaxChunk \in Nat \ {0} /\ MaxPieces \in Nat
    /\ MAX_RATE \in Nat \ {0} /\ MAX_ERRORS \in Nat \ {0}

VARIABLES
    pieces,  \* what the station sent: messages, and noise
    wire,    \* bytes recv has not returned yet
    buffer,  \* the bytearray of StationPeer.run
    mode,    \* FrameDecoder.mode: "unknown", "json" or "text"
    loop,    \* "recv" or "pop": which of the two nested loops runs
    frames,  \* the frames pop returned; StationEngine.receive gets them all, but
             \* for the last one of a connection closed for its rate
    errors,  \* how many of them receive refused
    ended    \* "no", or why the connection was given up

vars == <<pieces, wire, buffer, mode, loop, frames, errors, ended>>

-----------------------------------------------------------------------------
(* Bytes and messages                                                      *)

Comma == ","
LineBytes == {"\n", "\r"}
Blanks == {" ", "\t", "\r"}
End == <<"e", "n", "d">>

Plain(field) == \A i \in DOMAIN field : field[i] \notin LineBytes \cup {Comma}

(* A prefix is a word: a stream that begins with one is not taken for JSON.*)
ASSUME PrefixesAreWords ==
    \A x \in DOMAIN COMMAS : x # <<>> /\ Plain(x) /\ Head(x) \notin Blanks \cup {"{"}

(* A message is its prefix and the fields between prefix and end.          *)
Sendable ==
    UNION {{[prefix |-> x, fields |-> fs] : fs \in [1 .. COMMAS[x] - 1 -> {f \in Fields : Plain(f)}]} :
           x \in DOMAIN COMMAS}

Encode(m) ==
    m.prefix \o FlattenSeq([i \in 1 .. COMMAS[m.prefix] |->
                              <<Comma>> \o IF i < COMMAS[m.prefix] THEN m.fields[i] ELSE End])

CommasOf(s) == {i \in DOMAIN s : s[i] = Comma}
Before(i, set) == Cardinality({j \in set : j < i})

(* The fields of a frame: what stands between its commas                   *)
Split(s) ==
    LET cut == CommasOf(s)
        from(n) == IF n = 0 THEN 1 ELSE 1 + CHOOSE i \in cut : Before(i, cut) = n - 1
        to(n) == IF n = Cardinality(cut) THEN Len(s) ELSE (CHOOSE i \in cut : Before(i, cut) = n) - 1
    IN  [n \in 1 .. Cardinality(cut) + 1 |-> SubSeq(s, from(n - 1), to(n - 1))]

(* decode_text; a frame with a field that is not plain text is refused     *)
Malformed == [prefix |-> <<>>, fields |-> <<>>]
Decode(frame) ==
    LET fs == Split(frame) IN
    IF fs[1] \in DOMAIN COMMAS /\ Len(fs) = COMMAS[fs[1]] + 1 /\ Last(fs) = End
       /\ \A i \in DOMAIN fs : Plain(fs[i])
    THEN [prefix |-> fs[1], fields |-> SubSeq(fs, 2, Len(fs) - 1)]
    ELSE Malformed

-----------------------------------------------------------------------------
(* FrameDecoder.pop                                                        *)

WithoutLeading(s, set) ==
    LET kept == {i \in DOMAIN s : s[i] \notin set}
    IN  IF kept = {} THEN <<>> ELSE SubSeq(s, Min(kept), Len(s))

(* fault: CR not skipped                                                   *)
TrimmedFeeds == IF mode = "json" THEN buffer ELSE WithoutLeading(buffer, {"\n"})

(* Line ends between frames go; not in JSON mode, where a line end is the  *)
(* frame's end.                                                            *)
Trimmed == IF mode = "json" THEN buffer ELSE WithoutLeading(buffer, LineBytes)

(* The first byte that is not blank fixes the mode for the connection.     *)
ModeOf(s) ==
    LET probe == WithoutLeading(s, Blanks) IN
    CASE mode # "unknown" -> mode
      [] mode = "unknown" /\ probe = <<>> -> "unknown"
      [] mode = "unknown" /\ probe # <<>> -> IF Head(probe) = "{" THEN "json" ELSE "text"

(* Where the terminator of a text frame begins: behind the last comma of   *)
(* its prefix's count                                                      *)
TerminatorAt(s, prefix) ==
    1 + CHOOSE i \in CommasOf(s) : Before(i, CommasOf(s)) = COMMAS[prefix] - 1

Wait == [kind |-> "wait", length |-> 0]
Fails(reason) == [kind |-> reason, length |-> 0]
Frame(length) == [kind |-> "frame", length |-> length]

Terminated(s, start) == SubSeq(s, start, Min({start + 2, Len(s)})) = End

EnoughAlways(s, start) == TRUE  \* fault: the bytes compared before they are all there
Enough(s, start) == Len(s) >= start + 2

TextStep(s) ==
    LET prefix == SubSeq(s, 1, Min(CommasOf(s)) - 1) IN
    CASE CommasOf(s) = {} -> Wait
      [] CommasOf(s) # {} /\ prefix \notin DOMAIN COMMAS -> Fails("FORMAT")
      [] CommasOf(s) # {} /\ prefix \in DOMAIN COMMAS ->
           IF Cardinality(CommasOf(s)) < COMMAS[prefix] THEN Wait
           ELSE LET start == TerminatorAt(s, prefix) IN
                CASE ~Enough(s, start) -> Wait
                  [] Enough(s, start) /\ ~Terminated(s, start) -> Fails("FORMAT")
                  [] Enough(s, start) /\ Terminated(s, start) ->
                       IF start + 2 > MAX_FRAME THEN Fails("LIMIT") ELSE Frame(start + 2)

JsonStep(s) ==
    LET ends == {i \in DOMAIN s : s[i] = "\n"} IN
    CASE ends = {} -> Wait
      [] ends # {} /\ Min(ends) - 1 > MAX_FRAME -> Fails("LIMIT")
      [] ends # {} /\ Min(ends) - 1 <= MAX_FRAME -> Frame(Min(ends))

Step(s) ==
    CASE ModeOf(s) = "unknown" -> Wait
      [] ModeOf(s) = "json" -> JsonStep(s)
      [] ModeOf(s) = "text" -> TextStep(s)

-----------------------------------------------------------------------------
(* StationPeer.run                                                         *)

(* A piece without a prefix stands for the noise in its one field.         *)
IsReport(piece) == piece.prefix # <<>>
Bytes(piece) == IF IsReport(piece) THEN Encode(piece) ELSE piece.fields[1]
Pieces == Sendable \cup {[prefix |-> <<>>, fields |-> <<bytes>>] : bytes \in Noise}
Streams == UNION {[1 .. n -> Pieces] : n \in 0 .. MaxPieces}
Sent(ps) == FlattenSeq([i \in DOMAIN ps |-> Bytes(ps[i])])

Init ==
    /\ pieces \in Streams
    /\ wire = Sent(pieces)
    /\ buffer = <<>> /\ mode = "unknown" /\ loop = "recv"
    /\ frames = <<>> /\ errors = 0 /\ ended = "no"

Recv(n) ==
    /\ loop = "recv" /\ ended = "no" /\ n <= Len(wire)
    /\ buffer' = buffer \o SubSeq(wire, 1, n)
    /\ wire' = SubSeq(wire, n + 1, Len(wire))
    /\ loop' = "pop"
    /\ UNCHANGED <<pieces, mode, frames, errors, ended>>

RestWithLast(length) == SubSeq(Trimmed, length, Len(Trimmed))  \* fault: off by one
Rest(length) == SubSeq(Trimmed, length + 1, Len(Trimmed))

(* The frame is one too many for a second, and dropped. The clock is left  *)
(* out: the last MAX_RATE frames came within a second, or they did not.    *)
TooFast ==
    /\ Len(frames) >= MAX_RATE
    /\ ended' = "RATE"
    /\ UNCHANGED errors

(* StationEngine.receive gets the frame. It refuses what decode_text does; *)
(* what else it refuses is the engine's.                                   *)
HandedOver ==
    \E refused \in BOOLEAN :
        /\ mode' = "text" /\ Decode(Last(frames')) = Malformed => refused
        /\ errors' = IF refused THEN errors + 1 ELSE errors
        /\ ended' = IF errors' >= MAX_ERRORS THEN "ERRORS" ELSE "no"

PopFrame ==
    /\ loop = "pop" /\ ended = "no" /\ Step(Trimmed).kind = "frame"
    /\ LET length == Step(Trimmed).length IN
       /\ frames' = Append(frames, SubSeq(Trimmed, 1, length))
       /\ buffer' = Rest(length)
    /\ mode' = ModeOf(Trimmed)
    /\ TooFast \/ HandedOver
    /\ UNCHANGED <<pieces, wire, loop>>

(* Ambiguous framing: the next boundary is not guessed.                    *)
PopFails ==
    /\ loop = "pop" /\ ended = "no" /\ Step(Trimmed).kind \in {"FORMAT", "LIMIT"}
    /\ ended' = Step(Trimmed).kind
    /\ buffer' = Trimmed /\ mode' = ModeOf(Trimmed) /\ loop' = "recv"
    /\ UNCHANGED <<pieces, wire, frames, errors>>

TooLongLate == Len(buffer') > MAX_FRAME + MaxChunk  \* fault: the chunk not counted
TooLong == Len(buffer') > MAX_FRAME

(* Back to recv, unless the unfinished frame is too long already           *)
PopNothing ==
    /\ loop = "pop" /\ ended = "no" /\ Step(Trimmed).kind = "wait"
    /\ buffer' = Trimmed /\ mode' = ModeOf(Trimmed) /\ loop' = "recv"
    /\ ended' = IF TooLong THEN "LIMIT" ELSE "no"
    /\ UNCHANGED <<pieces, wire, frames, errors>>

(* An unfinished frame is given up after 5 seconds. partial_at is set      *)
(* whenever bytes are left over.                                           *)
PartialTimeout ==
    /\ loop = "recv" /\ ended = "no" /\ buffer # <<>>
    /\ ended' = "PARTIAL"
    /\ UNCHANGED <<pieces, wire, buffer, mode, loop, frames, errors>>

(* The other ways a connection ends, at any time: the station hung up or   *)
(* was silent for 30 seconds, a send or the database failed, another       *)
(* connection took the place, the service stops.                           *)
Closes ==
    /\ ended = "no"
    /\ ended' = "CLOSED"
    /\ UNCHANGED <<pieces, wire, buffer, mode, loop, frames, errors>>

Next ==
    \/ \E n \in 1 .. MaxChunk : Recv(n)
    \/ PopFrame \/ PopFails \/ PopNothing
    \/ PartialTimeout \/ Closes

Spec == Init /\ [][Next]_vars

-----------------------------------------------------------------------------

TypeOK ==
    /\ pieces \in Streams
    /\ IsSuffix(wire, Sent(pieces))
    /\ Len(FlattenSeq(frames)) + Len(buffer) + Len(wire) <= Len(Sent(pieces))
    /\ mode \in {"unknown", "json", "text"} /\ loop \in {"recv", "pop"}
    /\ errors \in Nat
    /\ ended \in {"no", "FORMAT", "LIMIT", "RATE", "ERRORS", "PARTIAL", "CLOSED"}

Waiting == loop = "recv" /\ ended = "no"
Finished == wire = <<>> /\ Waiting

(* A station that sends what encode_result produces is understood: however *)
(* TCP cuts the stream, whatever its fields look like and whatever line    *)
(* ends stand between the reports, the receiver sees the reports that were *)
(* sent, in order, none invented, none merged, and none missing before the *)
(* connection ends. Its framing is never the reason for the end, the rate  *)
(* only if more than MAX_RATE reports were sent, and the time-out of an    *)
(* unfinished frame only while bytes are still to come.                    *)
ReportsOf(ps) == FlattenSeq([i \in DOMAIN ps |-> IF IsReport(ps[i]) THEN <<ps[i]>> ELSE <<>>])
Reports == ReportsOf(pieces)
Clean == \A i \in DOMAIN pieces : IsReport(pieces[i]) \/ ToSet(Bytes(pieces[i])) \subseteq LineBytes
InLimits == \A i \in DOMAIN pieces : Len(Bytes(pieces[i])) <= MAX_FRAME
Received == [i \in DOMAIN frames |-> Decode(frames[i])]
SentIsReceived ==
    Clean /\ InLimits =>
        /\ ended \notin {"FORMAT", "LIMIT"}
        /\ ended = "RATE" => Len(Reports) > MAX_RATE
        /\ ended = "PARTIAL" => wire # <<>>
        /\ IsPrefix(Received, Reports)
        /\ Finished => Received = Reports

(* Text frames of a byte string, told by their shape alone                 *)
IsText(s) ==
    LET fs == Split(s) IN
    fs[1] \in DOMAIN COMMAS /\ Len(fs) = COMMAS[fs[1]] + 1 /\ Last(fs) = End /\ Len(s) <= MAX_FRAME
IsLine(s) == s # <<>> /\ Last(s) = "\n" /\ Len(s) - 1 <= MAX_FRAME
             /\ \A i \in 1 .. Len(s) - 1 : s[i] # "\n"

Json(s) ==
    LET first == WithoutLeading(WithoutLeading(s, LineBytes), Blanks)
    IN  first # <<>> /\ Head(first) = "{"

(* The stream's frames, cut from the whole of it at once: where a frame    *)
(* begins that is looked for from i on, and where one ends that begins at b *)
Begins(s, json, i) == {j \in i .. Len(s) : s[j] \notin LineBytes \/ (json /\ i > 1)}
Stops(s, json, b) ==
    {j \in b .. Len(s) : IF json THEN IsLine(SubSeq(s, b, j)) ELSE IsText(SubSeq(s, b, j))}

CutFrom(s, json) ==
    LET from[i \in 1 .. Len(s) + 1] ==
            LET begins == Begins(s, json, i)
                stops == Stops(s, json, Min(begins))
            IN  IF begins = {} \/ stops = {} THEN <<>>
                ELSE <<SubSeq(s, Min(begins), Min(stops))>> \o from[Min(stops) + 1]
    IN  from

Cut(s) == CutFrom(s, Json(s))[1]

(* The frames do not depend on how TCP cut the stream: they are the first  *)
(* ones of the stream as a whole, and all of them up to the first bytes    *)
(* that are no frame unless the connection ends for another reason.        *)
ChunksDoNotMatter ==
    /\ IsPrefix(frames, Cut(Sent(pieces)))
    /\ Finished \/ ended \in {"FORMAT", "LIMIT"} => frames = Cut(Sent(pieces))

(* A connection keeps at most one frame's bytes while it waits for more.   *)
BufferBounded == Waiting => Len(buffer) <= MAX_FRAME

=============================================================================
