------------------------------ MODULE SseFramer ------------------------------
(***************************************************************************)
(* sseFramer (sse.go): upstream bytes in, the data of events out, whatever *)
(* the sizes of the reads. A byte is a string: "n" and "r" are the line    *)
(* ends, a field name is one byte wide ("d" for data), and a JSON text is  *)
(* the two bytes <<name, "}">>, so that it can be cut in the middle.       *)
(***************************************************************************)
EXTENDS Naturals, Sequences, SequencesExt, FiniteSetsExt

CONSTANT Limit  \* maxRequestBodyBytes, or maxImageSSEEventBytes for images

ASSUME LimitAssumption == Limit \in Nat

NewFramer == [line |-> << >>, data |-> << >>, hasData |-> FALSE]

\* bytes.IndexByte(chunk, '\n'), and the end of the chunk if it has none.
LineEnd(chunk) ==
    IF Contains(chunk, "n") THEN SelectInSeq(chunk, LAMBDA b : b = "n") - 1 ELSE Len(chunk)

TrimCR(line) == IF line # << >> /\ Last(line) = "r" THEN Front(line) ELSE line

IsData(line) == Len(line) >= 2 /\ SubSeq(line, 1, 2) = <<"d", ":">>

DataOf(line) ==
    LET value == SubSeq(line, 3, Len(line))
    IN  IF value # << >> /\ Head(value) = " " THEN Tail(value) ELSE value

\* flushEvent: the data that is handed to the consumer, if there is any.
FlushEvent(f) ==
    [framer |-> [f EXCEPT !.data = << >>, !.hasData = FALSE],
     events |-> IF f.hasData THEN <<f.data>> ELSE << >>,
     tooLong |-> FALSE]

\* flushLine: an empty line ends the event, a data line adds to it, others are skipped.
FlushLine(f) ==
    LET line == TrimCR(f.line)
        g == [f EXCEPT !.line = << >>]
        data == IF f.hasData THEN f.data \o <<"n">> \o DataOf(line) ELSE DataOf(line)
    IN  IF line = << >> THEN FlushEvent(g)
        ELSE IF ~IsData(line) THEN [framer |-> g, events |-> << >>, tooLong |-> FALSE]
        ELSE [framer |-> IF Len(data) > Limit THEN g ELSE [g EXCEPT !.data = data, !.hasData = TRUE],
              events |-> << >>, tooLong |-> Len(data) > Limit]

\* Mutant of FeedLine: what an earlier read left of the line is not kept.
FeedLineAlone(f, chunk) ==
    LET n == LineEnd(chunk)
        g == [f EXCEPT !.line = SubSeq(chunk, 1, n)]
    IN  IF n = Len(chunk) THEN [framer |-> g, events |-> << >>, tooLong |-> FALSE] ELSE FlushLine(g)

\* Mutant of FeedLine: the size of an event is not limited.
FeedLineUnlimited(f, chunk) ==
    LET n == LineEnd(chunk)
        g == [f EXCEPT !.line = @ \o SubSeq(chunk, 1, n)]
    IN  IF n = Len(chunk) THEN [framer |-> g, events |-> << >>, tooLong |-> FALSE] ELSE FlushLine(g)

\* One turn of the loop of feed: the chunk up to its first line end.
FeedLine(f, chunk) ==
    LET n == LineEnd(chunk)
        g == [f EXCEPT !.line = @ \o SubSeq(chunk, 1, n)]
    IN  IF Len(f.line) + Len(f.data) + n > Limit
        THEN [framer |-> f, events |-> << >>, tooLong |-> TRUE]
        ELSE IF n = Len(chunk) THEN [framer |-> g, events |-> << >>, tooLong |-> FALSE]
        ELSE FlushLine(g)

\* What that turn leaves of the chunk.
RestOf(chunk) == SubSeq(chunk, LineEnd(chunk) + 2, Len(chunk))

\* finish: the last line and the last event may lack their ends.
FinishFraming(f) ==
    LET last == IF f.line = << >> THEN [framer |-> f, events |-> << >>, tooLong |-> FALSE] ELSE FlushLine(f)
        end == FlushEvent(last.framer)
    IN  IF last.tooLong THEN last ELSE [end EXCEPT !.events = last.events \o @]

-----------------------------------------------------------------------------
(* The reference: what a text says, without regard to how it was read.     *)

\* Where the line begins that goes on, or ends, at position i of a text.
LineStart(text, i) == Max({j \in 1..i : j = 1 \/ text[j - 1] = "n"})

\* The line whose end is at position i.
LineAt(text, i) == TrimCR(SubSeq(text, LineStart(text, i), i - 1))

\* What has been said up to position i of a text, given what was said before it: the
\* events that are over, and the one that is open, if there is one. An empty line ends
\* an event, and data lines make one up, joined by line ends.
Said(text, i, before) ==
    LET line == LineAt(text, i)
        data == IF before.open = << >> THEN DataOf(line) ELSE before.open[1] \o <<"n">> \o DataOf(line)
    IN  CASE text[i] # "n" -> before
          [] text[i] = "n" /\ line = << >> -> [events |-> before.events \o before.open, open |-> << >>]
          [] text[i] = "n" /\ line # << >> -> IF IsData(line) THEN [before EXCEPT !.open = <<data>>] ELSE before

Reading(text) ==
    LET said[i \in 0..Len(text)] ==
          IF i = 0 THEN [events |-> << >>, open |-> << >>] ELSE Said(text, i, said[i - 1])
    IN  said

\* The events of a text.
EventsOf(text) == Reading(text)[Len(text)].events
=============================================================================
