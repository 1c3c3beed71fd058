--------------------------- MODULE ResponseStream ---------------------------
(***************************************************************************)
(* The way of an upstream stream through its handler, after dispatch: a    *)
(* loop of reads, the framer, the consumer of the handler's mode, what the *)
(* client receives and what the log entry says. handleResponses relays     *)
(* ("responses") or aggregates ("aggregate"), handleChatCompletions        *)
(* translates ("chat") or aggregates ("completion"), and the image         *)
(* handlers stream one image ("image") or collect Count ("images"). The    *)
(* upstream may end or break off anywhere and the client may leave.        *)
(***************************************************************************)
EXTENDS Integers, SseFramer, ChatTranslator, ResponseReaders

CONSTANTS
    Words,          \* strings: bytes, names, ids, pieces of text
    Streams,        \* upstream streams, of each mode
    Event,          \* what a JSON text says, by its name
    MaxChunk,       \* bound on the size of a read
    MaxImageBytes,  \* maxImageSSEBytes
    Count           \* images of a request that does not stream

Modes == {"responses", "aggregate", "completion", "chat", "image", "images"}

Parts == [kind : Words, value : Seq(Words)]

Items == [type : Words, id : Words, content : Seq(Parts), arguments : Seq(Words), status : Words,
          payload : Words]

Responses == [id : Words, status : Words, output : Seq(Items), usage : Int]

\* The fields of an event, as the consumers decode them.
WellTyped(e) ==
    /\ e.type \in Words
    /\ "response" \in DOMAIN e => e.response \in Responses
    /\ e.type \in Terminal \cup {"response.created", "response.in_progress"} => "response" \in DOMAIN e
    /\ e.type \in {"response.output_item.added", "response.output_item.done"} =>
          e.item \in Items /\ e.index \in Int
    /\ e.type \in {"response.output_text.delta", "response.refusal.delta"} =>
          e.index \in Int /\ e.part \in Int /\ e.delta \in Seq(Words)
    /\ e.type = "response.function_call_arguments.delta" =>
          e.item \in Words /\ e.index \in Int /\ e.delta \in Seq(Words)
    /\ e.type = "response.image_generation_call.partial_image" => e.payload \in Words /\ e.index \in Int

ASSUME StreamAssumption ==
    /\ MaxChunk \in Nat \ {0} /\ MaxImageBytes \in Nat /\ Count \in Nat \ {0}
    /\ {"", "n", "own", "output", "role", "text", "refusal", "tool", "finish", "usage", "error", "done",
        "length", "tool_calls", "stop", "missing"} \subseteq Words
    /\ \A s \in Streams : s.mode \in Modes /\ s.wire \in Seq(Words)
    /\ \A name \in DOMAIN Event : WellTyped(Event[name])

VARIABLES
    stream,     \* the upstream stream that is read: its mode, wire and meaning
    read,       \* bytes of it that have been read
    chunk,      \* the part of the last read that has not been fed
    framer, delivered,  \* the framer, and the data of events it has handed on
    consumer,   \* the state of the mode's consumer
    out,        \* what the client has been sent, but for relayed bytes
    forwarded,  \* bytes relayed to the client
    gone,       \* the client has left
    at, stop,   \* where the handler stands, and why it has stopped reading
    results,    \* images collected, with the streams they came from
    entry       \* error and usage of the log entry

handler == <<framer, delivered, consumer, out, forwarded, results, entry>>

streamVars == <<stream, read, chunk, gone, at, stop, handler>>

Is(modes) == stream.mode \in modes

NewConsumer(mode) ==
    CASE mode = "responses" -> NewTracker
      [] mode \in {"aggregate", "completion"} -> NewAggregate
      [] mode = "chat" -> NewTranslator
      [] OTHER -> NewImage

StreamInit ==
    \E s \in Streams :
       /\ stream = s /\ read = 0 /\ chunk = << >> /\ framer = NewFramer /\ delivered = << >>
       /\ consumer = NewConsumer(s.mode) /\ at = "read" /\ stop = "none"
       /\ out = << >> /\ forwarded = 0 /\ gone = FALSE /\ results = << >>
       /\ entry = [error |-> "open", usage |-> 0]

-----------------------------------------------------------------------------
(* Consumers. *)

\* json.Unmarshal, to which line ends are space.
Text(payload) == SelectSeq(payload, LAMBDA b : b \notin {" ", "n", "r"})

IsJSON(text) == Len(text) = 2 /\ text[1] \in DOMAIN Event /\ text[2] = "}"

\* What a consumer does with the data of an event.
StepOn(c, payload) ==
    LET text == Text(payload)
        e == Event[text[1]]
    IN  IF text = << >> THEN c
        ELSE IF Is({"chat"}) THEN IF IsJSON(text) THEN Consume(c, e) ELSE Fail(c)
        ELSE IF text = <<"DONE">> \/ (Is({"responses"}) /\ c.terminal) THEN c
        ELSE IF Is({"image", "images"})
        THEN IF IsJSON(text) THEN ReadImageEvent(c, e) ELSE Failing([c EXCEPT !.events = @ + 1], "malformed")
        ELSE IF ~IsJSON(text) THEN Failing(c, "malformed")
        ELSE IF Is({"responses"}) THEN Track(c, e) ELSE Aggregate(c, e, Len(payload))

After(c, events) == IF events = << >> THEN c ELSE StepOn(c, events[1])

\* How a consumer's answer ends the reading, if it does.
Verdict(c) ==
    IF Is({"chat"}) THEN IF c.failed THEN "event" ELSE IF c.terminal THEN "complete" ELSE "none"
    ELSE IF c.err # "" THEN "event" ELSE IF c.complete THEN "complete" ELSE "none"

Wrote(c) == IF Is({"chat", "image"}) THEN c.wrote ELSE << >>

Written(c) == IF Is({"chat", "image", "images"}) THEN [c EXCEPT !.wrote = << >>] ELSE c

\* The consumer's writes succeed, or one fails and the consumer returns its error. The
\* image stream looks whether the client is there; a write to a client that has left
\* may still seem to succeed.
Write(c, otherwise) ==
    \/ /\ Is({"image"}) /\ gone => Wrote(c) = << >>
       /\ out' = out \o Wrote(c)
       /\ stop' = otherwise
    \/ /\ gone
       /\ \E k \in 0..(Len(Wrote(c)) - 1) :
             /\ Is({"image"}) => k = 0
             /\ out' = out \o SubSeq(Wrote(c), 1, k)
       /\ stop' = "client"

-----------------------------------------------------------------------------
(* readSSE and the loop of copyStreamingResponse. *)

Read(n) ==
    /\ at = "read" /\ read + n <= Len(stream.wire)
    /\ Is({"image", "images"}) => read + n <= MaxImageBytes + 1
    /\ read' = read + n
    /\ chunk' = SubSeq(stream.wire, read + 1, read + n)
    /\ at' = "feed"
    /\ UNCHANGED <<stream, gone, stop, handler>>

\* One line of a chunk.
Feed ==
    LET turn == FeedLine(framer, chunk)
        c == After(consumer, turn.events)
    IN  /\ at = "feed" /\ ~Is({"responses"})
        /\ framer' = turn.framer
        /\ delivered' = delivered \o turn.events
        /\ consumer' = Written(c)
        /\ Write(c, IF turn.tooLong THEN "framing" ELSE Verdict(c))
        /\ chunk' = RestOf(chunk)
        /\ at' = IF stop' # "none" THEN "end" ELSE IF RestOf(chunk) = << >> THEN "read" ELSE "feed"
        /\ UNCHANGED <<stream, read, gone, forwarded, results, entry>>

\* The same for the tracker, whose error is kept: the chunk is relayed all the same.
FeedTracker ==
    LET turn == FeedLine(framer, chunk)
        c == IF turn.tooLong THEN Failing(consumer, "framing") ELSE After(consumer, turn.events)
    IN  /\ at = "feed" /\ Is({"responses"})
        /\ framer' = turn.framer
        /\ delivered' = delivered \o turn.events
        /\ consumer' = c
        /\ chunk' = RestOf(chunk)
        /\ at' = IF c.err # "" \/ RestOf(chunk) = << >> THEN "forward" ELSE "feed"
        /\ UNCHANGED <<stream, read, gone, stop, out, forwarded, results, entry>>

Forward ==
    /\ at = "forward"
    /\ \/ /\ forwarded' = read
          /\ stop' = IF consumer.err # "" THEN "event" ELSE IF consumer.terminal THEN "complete" ELSE "none"
       \/ gone /\ stop' = "client" /\ UNCHANGED forwarded
    /\ at' = IF stop' = "none" THEN "read" ELSE "end"
    /\ UNCHANGED <<stream, read, chunk, gone, framer, delivered, consumer, out, results, entry>>

\* The stream ends, at its end or before it: what is left of it is an event.
Eof ==
    LET turn == FinishFraming(framer)
        c == After(consumer, turn.events)
    IN  /\ at = "read"
        /\ \/ Is({"responses"}) /\ stop' = "eof" /\ UNCHANGED <<framer, delivered, consumer, out>>
           \/ /\ ~Is({"responses"})
              /\ framer' = turn.framer
              /\ delivered' = delivered \o turn.events
              /\ consumer' = Written(c)
              /\ Write(c, IF turn.tooLong THEN "framing"
                          ELSE IF Verdict(c) = "none" THEN "eof" ELSE Verdict(c))
        /\ at' = "end"
        /\ UNCHANGED <<stream, read, chunk, gone, forwarded, results, entry>>

ReadFails ==
    /\ at = "read"
    /\ at' = "end" /\ stop' = "read"
    /\ UNCHANGED <<stream, read, chunk, gone, handler>>

ClientLeaves ==
    /\ at # "done" /\ ~gone
    /\ gone' = TRUE
    /\ UNCHANGED <<stream, read, chunk, at, stop, handler>>

-----------------------------------------------------------------------------
(* What the handlers do after the stream. *)

Done(error, usage) ==
    /\ at' = "done"
    /\ entry' = [error |-> error, usage |-> usage]
    /\ UNCHANGED <<stream, read, chunk, gone, stop, forwarded>>

Answer(field, value) == <<[field |-> field, value |-> value]>>

\* Mutant of RelayError: a stream that just ends is fine.
RelayErrorOnly(t) == IF t.err # "" THEN t.err ELSE IF stop \in {"client", "read"} THEN stop ELSE ""

\* The tracker's error comes before the one of the relay.
RelayError(t) ==
    IF t.err # "" THEN t.err
    ELSE IF stop \in {"client", "read"} THEN stop
    ELSE IF ~t.terminal THEN "unterminated" ELSE ""

\* copyStreamingResponse's finish: the tracker reads what is left, however it ended.
EndResponses ==
    LET over == consumer.err # "" \/ consumer.terminal
        turn == FinishFraming(framer)
        c == IF over THEN consumer ELSE After(consumer, turn.events)
    IN  /\ at = "end" /\ Is({"responses"})
        /\ framer' = IF over THEN framer ELSE turn.framer
        /\ delivered' = IF over THEN delivered ELSE delivered \o turn.events
        /\ consumer' = c
        /\ Done(RelayError(c), c.usage)
        /\ UNCHANGED <<out, results>>

\* copyChatCompletionsStream: an error that the translator has not reported, and an
\* end without a terminal event, are reported now.
EndChat ==
    LET reported == stop \in {"event", "client", "complete"}
        c == IF reported THEN consumer ELSE Fail(consumer)
    IN  /\ at = "end" /\ Is({"chat"})
        /\ \/ out' = out \o Wrote(c)
           \/ gone /\ \E k \in 0..(Len(Wrote(c)) - 1) : out' = out \o SubSeq(Wrote(c), 1, k)
        /\ consumer' = Written(c)
        /\ Done(IF stop = "complete" THEN "" ELSE stop, c.usage)
        /\ UNCHANGED <<framer, delivered, results>>

\* The final response, as it is or as a chat completion, or an error if it has not come.
EndAggregate ==
    LET response == FinalResponse(consumer)
        broken == stop # "complete"
        refused == Is({"completion"}) /\ response.status \in {"failed", "cancelled"}
        marked == Is({"aggregate"}) /\ response.status \in {"failed", "incomplete"}
    IN  /\ at = "end" /\ Is({"aggregate", "completion"})
        /\ out' = IF broken \/ refused THEN Answer("error", << >>)
                  ELSE Answer("reply", IF Is({"completion"}) THEN ChatCompletion(response) ELSE response.output)
        /\ Done(IF broken THEN stop ELSE IF refused \/ marked THEN response.status ELSE "",
                IF broken \/ refused THEN 0 ELSE response.usage)
        /\ UNCHANGED <<framer, delivered, consumer, results>>

\* Mutant of ImageRead: what has come by the end of the limited reader is taken.
ImageReadUnlimited == stop \in {"complete", "eof"} /\ ImageOK(consumer)

ImageRead == stop \in {"complete", "eof"} /\ read <= MaxImageBytes /\ ImageOK(consumer)

\* streamOneImage: the image or an error, if the client is there.
EndImage ==
    /\ at = "end" /\ Is({"image"})
    /\ \/ /\ ImageRead
          /\ out' = out \o IF gone THEN << >> ELSE Answer("completed", ImageItems(consumer)[1].payload)
          /\ Done(IF gone THEN "client" ELSE "", consumer.completed.usage)
       \/ /\ ~ImageRead
          /\ out' = out \o IF gone THEN << >> ELSE Answer("error", "")
          /\ Done("image", 0)
    /\ UNCHANGED <<framer, delivered, consumer, results>>

Collected ==
    Append(results, [payload |-> ImageItems(consumer)[1].payload, usage |-> consumer.completed.usage,
                     meant |-> [image |-> stream.answer.image, usage |-> stream.usage]])

Used(images) == FoldLeft(LAMBDA sum, image : sum + image.usage, 0, images)

\* writeImageResults: another image is generated, or all have been, or one has failed.
NextImage ==
    /\ at = "end" /\ Is({"images"}) /\ ImageRead /\ Len(results) + 1 < Count
    /\ results' = Collected
    /\ \E s \in {t \in Streams : t.mode = "images"} : stream' = s
    /\ read' = 0 /\ chunk' = << >> /\ framer' = NewFramer /\ delivered' = << >>
    /\ consumer' = NewImage /\ at' = "read" /\ stop' = "none"
    /\ UNCHANGED <<gone, out, forwarded, entry>>

EndImages ==
    /\ at = "end" /\ Is({"images"})
    /\ \/ /\ ImageRead /\ Len(results) + 1 = Count
          /\ results' = Collected
          /\ out' = Answer("reply", [i \in 1..Count |-> Collected[i].payload])
          /\ Done("", Used(Collected))
       \/ /\ ~ImageRead
          /\ out' = Answer("error", << >>)
          /\ Done("image", 0)
          /\ UNCHANGED results
    /\ UNCHANGED <<framer, delivered, consumer>>

Conclude == EndResponses \/ EndChat \/ EndAggregate \/ EndImage \/ NextImage \/ EndImages

StreamNext ==
    \/ \E n \in 1..MaxChunk : Read(n)
    \/ Feed \/ FeedTracker \/ Forward
    \/ Eof \/ ReadFails \/ ClientLeaves
    \/ Conclude

StreamSpec == StreamInit /\ [][StreamNext]_streamVars

-----------------------------------------------------------------------------
(* What is expected of a stream. *)

Framer == [line : Seq(Words), data : Seq(Words), hasData : BOOLEAN]

\* What a tool is known by: its item's id, or else its place in the output.
ToolKeys == ({"output"} \X Int) \cup Seq(Words)

Chunks == [id : Words, field : Words, value : Seq(Words), index : Int]

Translator == [id : Words, roleSent : BOOLEAN, terminal : BOOLEAN, failed : BOOLEAN, usage : Int,
               tools : Seq([key : ToolKeys, argumentsEmitted : BOOLEAN]),
               contentSeen : SUBSET (Int \X Int \X Words), wrote : Seq(Chunks)]

Failures == {"", "retained", "missing", "event", "malformed", "framing", "incomplete", "failed", "events",
             "partial", "untyped"}

Aggregator == [final : Responses, items : Seq([index : Int, item : Items]), retained : Nat,
               err : Failures, complete : BOOLEAN]

Tracker == [usage : Int, terminal : BOOLEAN, err : Failures, complete : BOOLEAN]

Partials == [field : {"partial"}, value : Words]

ImageReader == [events : Nat, doneItems : Seq(Items), completed : Responses, err : Failures,
                complete : BOOLEAN, wrote : Seq(Partials)]

Consumers(mode) ==
    CASE mode = "responses" -> Tracker
      [] mode \in {"aggregate", "completion"} -> Aggregator
      [] mode = "chat" -> Translator
      [] OTHER -> ImageReader

StreamTypeOK ==
    /\ framer \in Framer /\ delivered \in Seq(Seq(Words)) /\ consumer \in Consumers(stream.mode)
    /\ stream \in Streams /\ read \in 0..Len(stream.wire) /\ forwarded \in 0..read
    /\ at \in {"read", "feed", "forward", "end", "done"}
    /\ stop \in {"none", "complete", "eof", "framing", "read", "event", "client"}
    /\ gone \in BOOLEAN /\ Len(results) \in 0..Count

\* Whatever the sizes of the reads, the consumer is handed the events of what has been
\* read: all that are complete before the next read, and never one that upstream has
\* not sent or half of one that goes on. The end of the stream ends its last event.
FramedWhole ==
    LET text == SubSeq(stream.wire, 1, read)
    IN  /\ at = "read" => delivered = EventsOf(text)
        /\ IsPrefix(delivered, EventsOf(text \o <<"n", "n">>))
        /\ at = "end" /\ stop = "eof" /\ ~Is({"responses"}) => delivered = EventsOf(text \o <<"n", "n">>)

\* The types, and the work of the framer.
StreamInv == StreamTypeOK /\ FramedWhole

Fields(fields) == {i \in 1..Len(out) : out[i].field \in fields}

\* A client that stays is told once, and at last, how its request ended, wherever the
\* stream broke off: a chat stream has one finish or one error and then [DONE], an
\* image stream one image or one error, any other request one answer. A relay passes
\* on all that it has read. The log never counts as served a request whose client has
\* been told an error, whether it has left or not.
EndsOnce ==
    /\ \A i \in Fields({"done", "completed", "reply"}) : i = Len(out)
    /\ Cardinality(Fields({"finish", "error", "completed", "reply"})) <= 1
    /\ at = "done" /\ ~gone =>
          /\ ~Is({"responses"}) => Cardinality(Fields({"finish", "error", "completed", "reply"})) = 1
          /\ Is({"chat"}) => Last(out).field = "done"
          /\ Is({"responses"}) => forwarded = read
    /\ at = "done" /\ entry.error = "" => Fields({"error"}) = {}

\* The chunks of a chat stream carry one id, and the first one gives the role, although
\* fallbacks may write before upstream has named the response.
OneIdentity ==
    Is({"chat"}) =>
      \A i \in 1..Len(out) : out[i].field \notin {"error", "done"} =>
         /\ out[i].id = out[1].id
         /\ out[i].field = "role" <=> i = 1

Heard(kind) == FoldLeft(LAMBDA s, c : IF c.field = kind THEN s \o c.value ELSE s, << >>, out)

HeardCall(k) ==
    FoldLeft(LAMBDA s, c : IF c.field = "tool" /\ c.index = k THEN s \o c.value ELSE s, << >>, out)

Calls == Cardinality({out[i].index : i \in Fields({"tool"})})

\* No arguments may be told as none or as the empty object.
Arguments(told) == IF told = <<"{}">> THEN << >> ELSE told

\* Upstream has sent an empty delta of the arguments of call k.
EmptyDelta(k) ==
    \E i \in 1..Len(delivered) :
       LET text == Text(delivered[i])
           e == Event[text[1]]
       IN  /\ IsJSON(text) /\ e.type = "response.function_call_arguments.delta" /\ e.delta = << >>
           /\ Place(consumer, ToolKey(e.item, e.index)) = k

\* A chat stream has told a message: its text, its refusal and its calls, each once and
\* in its place, and the arguments of each call, or none where upstream sent an empty
\* delta of them and the rest only as a whole: the translator takes the delta for the
\* arguments (chat_completions.go:934).
Says(message) ==
    /\ Heard("text") = message.text /\ Heard("refusal") = message.refusal
    /\ Calls = Len(message.calls)
    /\ \A k \in 1..Calls : HeardCall(k) = message.calls[k] \/ (EmptyDelta(k) /\ HeardCall(k) = << >>)

\* A request that the log counts as served has given the client what upstream meant:
\* every text, refusal and call once and in its place, be it told by deltas, by
\* completed items, by the final response or by several of them; and every image.
ClientGetsTheAnswer ==
    at = "done" /\ entry.error = "" =>
      LET message == stream.answer.message
          reply == out[1].value
          calls == SelectSeq(reply, IsCall)
      IN  CASE Is({"chat"}) -> Says(message)
            [] Is({"completion"}) ->
                 message = [reply EXCEPT !.calls = [k \in 1..Len(reply.calls) |-> Arguments(reply.calls[k])]]
            [] Is({"aggregate"}) ->
                 message = [text |-> SaidIn(reply, "text"), refusal |-> SaidIn(reply, "refusal"),
                            calls |-> [k \in 1..Len(calls) |-> calls[k].arguments]]
            [] Is({"image"}) -> stream.answer.image = Last(out).value
            [] Is({"images"}) -> reply = [i \in 1..Count |-> results[i].meant.image]
            [] OTHER -> TRUE

\* The log counts a request as served exactly if upstream completed the response within
\* the limits and its terminal event has been read; a client that leaves and a stream
\* that breaks off are the only excuses. The usage is the one of the final response, of
\* all of them if there are several images.
LoggedAsServed ==
    at = "done" =>
      /\ entry.error = "" =>
            /\ stream.good
            /\ entry.usage = IF Is({"images"}) THEN FoldLeft(LAMBDA sum, r : sum + r.meant.usage, 0, results)
                             ELSE stream.usage
      /\ stream.good => entry.error = "" \/ gone \/ stop = "read" \/ read < Len(stream.wire)
=============================================================================
