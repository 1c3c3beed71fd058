--------------------------- MODULE ChatTranslator ---------------------------
(***************************************************************************)
(* chatStreamTranslator (chat_completions.go): events of a response in,    *)
(* chunks of a chat completion out. Every method maps the translator to    *)
(* the translator after it; "wrote" holds the chunks written by the call.  *)
(* Text and arguments are sequences of pieces, so that a whole is its      *)
(* deltas put together. Of a completion's identity the model keeps the id. *)
(***************************************************************************)
EXTENDS Naturals, Sequences, SequencesExt

CONSTANT IncludeUsage  \* stream_options.include_usage

NewTranslator ==
    [id |-> "", roleSent |-> FALSE, terminal |-> FALSE, failed |-> FALSE, usage |-> 0,
     tools |-> << >>, contentSeen |-> {}, wrote |-> << >>]

Chunk(id, field, value, index) == [id |-> id, field |-> field, value |-> value, index |-> index]

WriteObject(t, chunk) == [t EXCEPT !.wrote = Append(@, chunk)]

\* writeChoice and baseChunk: a completion that upstream has not named names itself.
WriteChoice(t, field, value, index) ==
    LET id == IF t.id = "" THEN "own" ELSE t.id
    IN  WriteObject([t EXCEPT !.id = id], Chunk(id, field, value, index))

WriteDone(t) == WriteObject(t, Chunk("", "done", << >>, 0))

EnsureRole(t) ==
    IF t.roleSent THEN t ELSE WriteChoice([t EXCEPT !.roleSent = TRUE], "role", << >>, 0)

\* Mutant of CaptureResponse: the latest response names the completion.
CaptureAlways(t, response) ==
    [t EXCEPT !.id = IF response.id # "" THEN response.id ELSE @,
              !.usage = IF response.usage > 0 THEN response.usage ELSE @]

\* Once a chunk has been sent, the completion keeps its identity.
CaptureResponse(t, response) ==
    [t EXCEPT !.id = IF ~t.roleSent /\ response.id # "" THEN response.id ELSE @,
              !.usage = IF response.usage > 0 THEN response.usage ELSE @]

-----------------------------------------------------------------------------
(* Tools. A tool's index is its place in the sequence. *)

ToolKey(id, index) == IF id # "" THEN <<id>> ELSE <<"output", index>>

Known(t, key) == \E i \in 1..Len(t.tools) : t.tools[i].key = key

Place(t, key) == CHOOSE i \in 1..Len(t.tools) : t.tools[i].key = key

EnsureTool(t, item, index) ==
    LET r == EnsureRole(t)
        key == ToolKey(item.id, index)
        tool == [key |-> key, argumentsEmitted |-> item.arguments # << >>]
    IN  IF Known(r, key) THEN r
        ELSE WriteChoice([r EXCEPT !.tools = Append(@, tool)], "tool", item.arguments, Len(r.tools) + 1)

WriteToolArguments(t, key, arguments) ==
    WriteChoice([t EXCEPT !.tools[Place(t, key)].argumentsEmitted = TRUE], "tool", arguments, Place(t, key))

\* Mutant of EmitCall: complete arguments are written after their deltas.
EmitCallAgain(t, item, index) ==
    LET u == EnsureTool(t, item, index)
    IN  IF item.arguments # << >> THEN WriteToolArguments(u, ToolKey(item.id, index), item.arguments) ELSE u

\* A call that is complete: its arguments are written unless they have been before.
EmitCall(t, item, index) ==
    LET u == EnsureTool(t, item, index)
        key == ToolKey(item.id, index)
    IN  IF item.arguments # << >> /\ ~u.tools[Place(u, key)].argumentsEmitted
        THEN WriteToolArguments(u, key, item.arguments) ELSE u

-----------------------------------------------------------------------------
(* Messages. *)

\* Mutant of EmitPart: the whole part is written after its deltas.
EmitPartAgain(t, item, outputIndex, i) ==
    IF item.content[i].kind \notin {"text", "refusal"} THEN t
    ELSE WriteChoice(EnsureRole(t), item.content[i].kind, item.content[i].value, 0)

\* A part of a message: written whole unless some of it has been written before.
EmitPart(t, item, outputIndex, i) ==
    LET part == item.content[i]
        key == <<outputIndex, i - 1, part.kind>>
    IN  IF part.kind \notin {"text", "refusal"} \/ key \in t.contentSeen THEN t
        ELSE WriteChoice(EnsureRole([t EXCEPT !.contentSeen = @ \cup {key}]), part.kind, part.value, 0)

EmitMessageFallback(t, item, outputIndex) ==
    LET emitted[i \in 0..Len(item.content)] ==
          IF i = 0 THEN t ELSE EmitPart(emitted[i - 1], item, outputIndex, i)
    IN  emitted[Len(item.content)]

EmitItem(t, item, outputIndex) ==
    CASE item.type = "message" -> EmitMessageFallback(t, item, outputIndex)
      [] item.type = "function_call" -> EmitCall(t, item, outputIndex)
      [] OTHER -> t

\* The items of the final response, for what no event has told.
EmitResponseOutputFallback(t, response) ==
    LET emitted[i \in 0..Len(response.output)] ==
          IF i = 0 THEN t ELSE EmitItem(emitted[i - 1], response.output[i], i - 1)
    IN  emitted[Len(response.output)]

WriteDelta(t, e, kind) ==
    LET key == <<e.index, e.part, kind>>
        u == EnsureRole(t)
    IN  WriteChoice(IF e.delta = << >> THEN u ELSE [u EXCEPT !.contentSeen = @ \cup {key}], kind, e.delta, 0)

\* Arguments of a call that nothing has announced announce it.
WriteArguments(t, e) ==
    LET key == ToolKey(e.item, e.index)
        u == IF Known(t, key) THEN t ELSE EnsureTool(t, [id |-> e.item, arguments |-> << >>], e.index)
    IN  WriteToolArguments(u, key, e.delta)

-----------------------------------------------------------------------------
(* The end of the stream. *)

Fail(t) ==
    IF t.terminal THEN t
    ELSE WriteDone(WriteObject([t EXCEPT !.terminal = TRUE, !.failed = TRUE],
                               Chunk("", "error", << >>, 0)))

ChatFinishReason(response, hasToolCalls) ==
    IF response.status = "incomplete" THEN "length" ELSE IF hasToolCalls THEN "tool_calls" ELSE "stop"

\* Mutant of Finish: the usage chunk follows the end of the stream.
FinishBeforeUsage(t, response) ==
    LET u == EnsureRole(EmitResponseOutputFallback(CaptureResponse(t, response), response))
        v == WriteChoice(u, "finish", <<ChatFinishReason(response, u.tools # << >>)>>, 0)
    IN  WriteObject(WriteDone([v EXCEPT !.terminal = TRUE]), Chunk(v.id, "usage", << >>, v.usage))

Finish(t, response) ==
    LET u == EnsureRole(EmitResponseOutputFallback(CaptureResponse(t, response), response))
        v == WriteChoice(u, "finish", <<ChatFinishReason(response, u.tools # << >>)>>, 0)
        w == IF IncludeUsage /\ v.usage > 0
             THEN WriteObject(v, Chunk(v.id, "usage", << >>, v.usage)) ELSE v
    IN  IF t.terminal THEN t
        ELSE IF response.status \in {"missing", "failed", "cancelled"} THEN Fail(t)
        ELSE WriteDone([w EXCEPT !.terminal = TRUE])

\* consume: one event.
Consume(t, e) ==
    CASE e.type \in {"response.created", "response.in_progress"} -> EnsureRole(CaptureResponse(t, e.response))
      [] e.type = "response.output_item.added" ->
           CASE e.item.type = "function_call" -> EnsureTool(t, e.item, e.index)
             [] e.item.type = "message" -> EnsureRole(t)
             [] OTHER -> t
      [] e.type = "response.output_item.done" ->
           EmitItem(t, e.item, e.index)
      [] e.type = "response.output_text.delta" -> WriteDelta(t, e, "text")
      [] e.type = "response.refusal.delta" -> WriteDelta(t, e, "refusal")
      [] e.type = "response.function_call_arguments.delta" -> WriteArguments(t, e)
      [] e.type \in {"response.completed", "response.done", "response.incomplete"} -> Finish(t, e.response)
      [] e.type = "response.failed" -> Fail(CaptureResponse(t, e.response))
      [] e.type = "error" -> Fail(t)
      [] OTHER -> t
=============================================================================
