-------------------------- MODULE MCResponseStream --------------------------
(* TLC instance of ResponseStream: scripts of upstream events, each with what it means. *)
EXTENDS ResponseStream

AllWords == STRING

Part(kind, value) == [kind |-> kind, value |-> value]

Item(type, id) == [type |-> type, id |-> id, content |-> << >>, arguments |-> << >>,
                   status |-> "completed", payload |-> "bad"]

Msg == [Item("message", "m") EXCEPT !.content = <<Part("text", <<"a", "b">>), Part("refusal", <<"c">>)>>]

Call(id, arguments) == [Item("function_call", id) EXCEPT !.arguments = arguments]

Pic(payload) == [Item("image_generation_call", "i") EXCEPT !.payload = payload]

Response(id, status, output, usage) == [id |-> id, status |-> status, output |-> output, usage |-> usage]

With(type, response) == [type |-> type, response |-> response]

About(type, index, item) == [type |-> type, index |-> index, item |-> item]

Delta(type, index, part, delta) == [type |-> type, index |-> index, part |-> part, delta |-> delta]

ArgsDelta(id, index, delta) ==
    [type |-> "response.function_call_arguments.delta", item |-> id, index |-> index, delta |-> delta]

Partial(payload, index) ==
    [type |-> "response.image_generation_call.partial_image", payload |-> payload, index |-> index]

Events ==
    [created |-> With("response.created", Response("r", "in_progress", << >>, 0)),
     running |-> With("response.in_progress", Response("r", "in_progress", << >>, 0)),
     addMsg  |-> About("response.output_item.added", 0, Item("message", "m")),
     ta      |-> Delta("response.output_text.delta", 0, 0, <<"a">>),
     tb      |-> Delta("response.output_text.delta", 0, 0, <<"b">>),
     t0      |-> Delta("response.output_text.delta", 0, 0, << >>),
     rc      |-> Delta("response.refusal.delta", 0, 1, <<"c">>),
     doneMsg |-> About("response.output_item.done", 0, Msg),
     addOne  |-> About("response.output_item.added", 1, Item("function_call", "f")),
     addTwo  |-> About("response.output_item.added", 2, Item("function_call", "")),
     arg0    |-> ArgsDelta("f", 1, << >>),
     argOne  |-> ArgsDelta("f", 1, <<"x">>),
     argTwo  |-> ArgsDelta("", 2, <<"y">>),
     doneOne |-> About("response.output_item.done", 1, Call("f", <<"x">>)),
     doneNil |-> About("response.output_item.done", 1, Call("f", << >>)),
     doneTwo |-> About("response.output_item.done", 2, Call("", <<"y">>)),
     thought |-> About("response.output_item.done", 0, Item("reasoning", "t")),
     pic     |-> About("response.output_item.done", 0, Pic("early")),
     part0   |-> Partial("p", 0),
     part9   |-> Partial("p", 9),
     partNeg |-> Partial("p", -1),
     untyped |-> [type |-> ""],
     error   |-> [type |-> "error"],
     failed  |-> With("response.failed", Response("r", "failed", << >>, 1)),
     empty   |-> With("response.completed", Response("q", "completed", << >>, 2)),
     over    |-> With("response.done", Response("q", "completed", << >>, 2)),
     told    |-> With("response.completed", Response("q", "completed", <<Msg, Call("f", <<"x">>), Call("", <<"y">>)>>, 2)),
     cut     |-> With("response.incomplete", Response("q", "incomplete", <<Msg>>, 2)),
     noBody  |-> With("response.completed", Missing),
     picture |-> With("response.completed", Response("q", "completed", <<Pic("image")>>, 3)),
     silent  |-> With("response.completed", Response("q", "", <<[Pic("image") EXCEPT !.status = ""]>>, 3)),
     halted  |-> With("response.completed", Response("q", "completed", <<[Pic("image") EXCEPT !.status = "failed"]>>, 3)),
     blurred |-> With("response.completed", Response("q", "completed", <<Pic("bad")>>, 3))]

\* Three ways to write an event: plain; with a comment, line ends of two bytes and two
\* data lines; and, for what is not JSON or padded to a length, as it is.
Plain(name) == <<"d", ":", name, "}", "n", "n">>

Fussy(name) == <<":", "r", "n", "d", ":", " ", name, "r", "n", "d", ":", "}", "r", "n", "r", "n">>

Raw(bytes) == <<"d", ":">> \o bytes \o <<"n", "n">>

Bytes(name, Style(_)) ==
    CASE name = "DONE" -> Raw(<<"DONE">>)
      [] name = "junk" -> Raw(<<"junk">>)
      [] name = "snug" -> Raw(<<"told", " ", " ", " ", "}">>)
      [] name = "long" -> Raw(<<"told", " ", " ", " ", " ", "}">>)
      [] name = "vast" -> Raw(<<"picture", " ", " ", " ", " ", "}">>)
      [] OTHER -> Style(name)

Wire(script, Style(_)) == FlattenSeq([i \in 1..Len(script) |-> Bytes(script[i], Style)])

Means(text, refusal, calls) == [message |-> [text |-> text, refusal |-> refusal, calls |-> calls], image |-> ""]

Nothing == Means(<< >>, << >>, << >>)

Message == Means(<<"a", "b">>, <<"c">>, << >>)

TwoCalls == Means(<< >>, << >>, <<<<"x">>, <<"y">>>>)

OneCall == Means(<< >>, << >>, <<<<"x">>>>)

IdleCall == Means(<< >>, << >>, << << >> >>)

Everything == Means(<<"a", "b">>, <<"c">>, <<<<"x">>, <<"y">>>>)

Shows(image) == [Nothing EXCEPT !.image = image]

Script(events, answer, good, usage) == [events |-> events, answer |-> answer, good |-> good, usage |-> usage]

\* What every consumer of a response may be sent.
Common ==
    {Script(<<"created", "addMsg", "ta", "tb", "rc", "doneMsg", "empty">>, Message, TRUE, 2),
     Script(<<"t0", "doneMsg", "addOne", "argOne", "doneTwo", "doneOne", "told", "DONE">>, Everything, TRUE, 2),
     Script(<<"created", "told">>, Everything, TRUE, 2),
     Script(<<"running", "untyped", "doneMsg", "over">>, Message, TRUE, 2),
     Script(<<"addOne", "arg0", "doneOne", "empty">>, OneCall, TRUE, 2),
     Script(<<"doneNil", "over">>, IdleCall, TRUE, 2),
     Script(<<"snug">>, Everything, TRUE, 2),
     Script(<<"addOne", "addTwo", "arg0", "argTwo", "argOne", "doneTwo", "doneOne", "empty">>, TwoCalls, TRUE, 2),
     Script(<<"ta", "failed">>, Nothing, FALSE, 0),
     Script(<<"ta", "error">>, Nothing, FALSE, 0),
     Script(<<"junk", "told">>, Nothing, FALSE, 0),
     Script(<<"ta", "long">>, Nothing, FALSE, 0),
     Script(<<"ta", "DONE">>, Nothing, FALSE, 0)}

\* Image readers know no response.done.
Pictures ==
    {Script(<<"part0", "pic", "picture">>, Shows("image"), TRUE, 3),
     Script(<<"pic", "empty", "DONE">>, Shows("early"), TRUE, 2),
     Script(<<"silent">>, Shows("image"), TRUE, 3),
     Script(<<"part9", "picture">>, Nothing, FALSE, 0),
     Script(<<"partNeg", "picture">>, Nothing, FALSE, 0),
     Script(<<"untyped", "picture">>, Nothing, FALSE, 0),
     Script(<<"vast">>, Nothing, FALSE, 0),
     Script(<<"halted">>, Nothing, FALSE, 0),
     Script(<<"empty">>, Nothing, FALSE, 0),
     Script(<<"pic", "over">>, Nothing, FALSE, 0),
     Script(<<"blurred">>, Nothing, FALSE, 0),
     Script(<<"pic", "failed">>, Nothing, FALSE, 0),
     Script(<<"part0", "part0", "part0", "part0", "picture">>, Nothing, FALSE, 0)}

\* An incomplete response is an answer to a chat, and an error to the others; items
\* that are too large together are an error to those who retain them; and the relay
\* does not miss the response of a terminal event.
Scripts(mode) ==
    IF mode \in {"image", "images"} THEN Pictures
    ELSE Common \cup
         {Script(<<"created", "noBody">>, Nothing, mode = "responses", 0),
          Script(<<"ta", "tb", "cut">>, Message, mode \in {"chat", "completion"}, 2),
          Script(<<"thought", "thought", "thought", "thought", "thought", "told">>, Everything,
                 mode \in {"responses", "chat"}, 2)}

\* Upstream did well if it is an answer that it gave, and for an image within the limit.
StreamsOf(mode, Style(_)) ==
    {[mode |-> mode, wire |-> Wire(s.events, Style), answer |-> s.answer, usage |-> s.usage,
      good |-> s.good /\ (mode \in {"image", "images"} => Len(Wire(s.events, Style)) <= MaxImageBytes)] :
       s \in Scripts(mode)}

AllStreams ==
    UNION {StreamsOf(mode, Plain) \cup StreamsOf(mode, Fussy) :
              mode \in {"responses", "aggregate", "completion", "chat", "image", "images"}}
=============================================================================
