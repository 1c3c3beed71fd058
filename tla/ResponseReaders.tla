--------------------------- MODULE ResponseReaders ---------------------------
(***************************************************************************)
(* The other consumers of upstream's events: aggregateResponsesSSE and     *)
(* sseUsageTracker (proxy.go), chatCompletionFromResponse                  *)
(* (chat_completions.go) and parseImageSSEStream (images.go). A consumer   *)
(* is a record whose "err" is not empty once it has returned an error and  *)
(* whose "complete" tells that it has returned errSSEComplete.             *)
(***************************************************************************)
EXTENDS Integers, Sequences, SequencesExt, FiniteSetsExt

CONSTANTS
    MaxRetained,       \* maxRequestBodyBytes, for the items that are retained
    MaxImageEvents,    \* maxImageSSEEvents
    MaxPartialImages   \* maxPartialImages

ASSUME ReadersAssumption == {MaxRetained, MaxImageEvents, MaxPartialImages} \subseteq Nat

Missing == [id |-> "", status |-> "missing", output |-> << >>, usage |-> 0]

Failing(c, why) == [c EXCEPT !.err = why]

Terminal == {"response.completed", "response.done", "response.incomplete", "response.failed"}

-----------------------------------------------------------------------------
(* aggregateResponsesSSE *)

NewAggregate == [final |-> Missing, items |-> << >>, retained |-> 0, err |-> "", complete |-> FALSE]

Aggregate(a, e, size) ==
    CASE e.type = "response.output_item.done" ->
           IF a.retained + size > MaxRetained THEN Failing(a, "retained")
           ELSE [a EXCEPT !.retained = @ + size, !.items = Append(@, [index |-> e.index, item |-> e.item])]
      [] e.type \in Terminal ->
           IF e.response = Missing THEN Failing(a, "missing")
           ELSE [a EXCEPT !.final = e.response, !.complete = TRUE]
      [] e.type = "error" -> Failing(a, "event")
      [] OTHER -> a

\* sort.SliceStable by output index.
InOrder(items) ==
    LET before(i, j) == items[i].index < items[j].index \/ (items[i].index = items[j].index /\ i < j)
        order == SetToSortSeq(1..Len(items), before)
    IN  [i \in 1..Len(items) |-> items[order[i]].item]

\* Nonempty final output is authoritative; completed items are the fallback.
FinalResponse(a) ==
    IF a.final.output = << >> THEN [a.final EXCEPT !.output = InOrder(a.items)] ELSE a.final

\* The text or the refusal of an output.
SaidIn(output, kind) ==
    LET said(item) == FoldLeft(LAMBDA s, p : IF p.kind = kind THEN s \o p.value ELSE s, << >>, item.content)
    IN  FoldLeft(LAMBDA s, item : IF item.type = "message" THEN s \o said(item) ELSE s, << >>, output)

IsCall(item) == item.type = "function_call"

\* The arguments of the calls of an output; a call without any is given the empty object.
CallsIn(output) ==
    LET calls == SelectSeq(output, IsCall)
    IN  [i \in 1..Len(calls) |-> IF calls[i].arguments = << >> THEN <<"{}">> ELSE calls[i].arguments]

\* chatCompletionFromResponse: the message of the completion.
ChatCompletion(response) ==
    [text |-> SaidIn(response.output, "text"), refusal |-> SaidIn(response.output, "refusal"),
     calls |-> CallsIn(response.output)]

-----------------------------------------------------------------------------
(* sseUsageTracker *)

NewTracker == [usage |-> 0, terminal |-> FALSE, err |-> "", complete |-> FALSE]

Track(t, e) ==
    LET usage == IF "response" \in DOMAIN e /\ e.response.usage > 0 THEN e.response.usage ELSE t.usage
        u == [t EXCEPT !.usage = usage]
    IN  CASE e.type \in {"response.completed", "response.done"} -> [u EXCEPT !.terminal = TRUE]
          [] e.type = "response.incomplete" -> [u EXCEPT !.terminal = TRUE, !.err = "incomplete"]
          [] e.type \in {"response.failed", "error"} -> [u EXCEPT !.terminal = TRUE, !.err = "failed"]
          [] OTHER -> u

-----------------------------------------------------------------------------
(* parseImageSSEStream. "wrote" holds the partial images of the call. *)

NewImage == [events |-> 0, doneItems |-> << >>, completed |-> Missing, err |-> "", complete |-> FALSE,
             wrote |-> << >>]

IsImage(item) == item.type = "image_generation_call"

ReadImageEvent(m, e) ==
    LET n == [m EXCEPT !.events = @ + 1]
    IN  IF n.events > MaxImageEvents THEN Failing(n, "events")
        ELSE
        CASE e.type = "" -> Failing(n, "untyped")
          [] e.type \in {"response.failed", "response.incomplete", "error"} -> Failing(n, "failed")
          [] e.type = "response.image_generation_call.partial_image" ->
               IF e.payload = "bad" \/ e.index < 0 \/ e.index >= MaxPartialImages THEN Failing(n, "partial")
               ELSE [n EXCEPT !.wrote = Append(@, [field |-> "partial", value |-> e.payload])]
          [] e.type = "response.completed" ->
               IF e.response = Missing THEN Failing(n, "missing")
               ELSE [n EXCEPT !.completed = e.response, !.complete = TRUE]
          [] e.type = "response.output_item.done" /\ IsImage(e.item) ->
               [n EXCEPT !.doneItems = Append(@, e.item)]
          [] OTHER -> n

\* imageOutputItems of the final response, or else the items completed before it.
ImageItems(m) ==
    LET items == SelectSeq(m.completed.output, IsImage)
    IN  IF items = << >> THEN m.doneItems ELSE items

\* After the stream: the response has come, and decodeImageItem of its first item. A
\* status has to say completed where there is one.
ImageOK(m) ==
    /\ m.completed.status \in {"", "completed"}
    /\ ImageItems(m) # << >>
    /\ ImageItems(m)[1].status \in {"", "completed"} /\ ImageItems(m)[1].payload # "bad"
=============================================================================
