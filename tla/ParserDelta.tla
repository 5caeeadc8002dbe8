---------------------------- MODULE ParserDelta ----------------------------
(***************************************************************************)
(* The parser of a streamed answer (src/patches/files/parser_engine.py):   *)
(* it turns the events of a lexer into deltas of reasoning, content and    *)
(* tool calls for the client.  A delta cannot be taken back, so what later *)
(* events may still change is deferred: white space at the end of the      *)
(* reasoning and at the beginning of the content, text next to a tool      *)
(* call, and the arguments whose form depends on what follows.  parse()    *)
(* handles the same events in one batch.                                   *)
(*                                                                         *)
(* Text is a sequence of characters: "x" is visible, "nl" a newline and    *)
(* "sp" a space.  The raw arguments of a call are a sequence of parameter  *)
(* keys and of value characters; their JSON is a sequence of "{", ",",     *)
(* "}", keys (with their colon), quotes and characters.  A call's name may *)
(* come in parts.                                                          *)
(***************************************************************************)
EXTENDS Integers, SequencesExt

CONSTANTS
  Requests,    \* what requests ask for: include_reasoning and tool_choice
  Tools,       \* the request's tools: for each name, the type of each parameter
  Parts,       \* the parts of names the model writes
  Keys,        \* parameter keys
  Letters,     \* the characters of parameter values
  Digits,      \* those of them that make up integers
  Structural,  \* _arg_structural_chars: arguments are converted at these only
  DropWsOnly,  \* drop_whitespace_only_content_before_tools
  StripReasoning, \* strip_trailing_reasoning_whitespace
  Mixes,       \* one delta may hold text and a call that starts after it
  MaxEvents,   \* bound: what the model writes
  MaxBatch     \* bound: what one delta holds

ASSUME ToolsAssumption == /\ <<>> \notin DOMAIN Tools
                          /\ \A f \in DOMAIN Tools : DOMAIN Tools[f] \subseteq Keys
\* A value ends at a quote, and no symbol of the JSON around it is a key.
ASSUME SymbolsAssumption == "quote" \notin Keys \union Letters /\ "}" \notin Keys
ASSUME BoundsAssumption == MaxEvents \in Nat /\ MaxBatch \in Nat /\ DropWsOnly \in BOOLEAN
                           /\ StripReasoning \in BOOLEAN /\ Mixes \in BOOLEAN

VARIABLES
  request,  \* the request
  lexer,    \* where the answer is: in reasoning, content, a name, arguments
  batch,    \* the events of the delta to come
  parser,   \* the parser's fields
  given,    \* history: the events parsed
  client,   \* what the client has put together from its deltas
  finished  \* the last delta has been parsed

vars == <<request, lexer, batch, parser, given, client, finished>>

NoName == <<>>
NoId == 0

Blank(c) == c \in {"nl", "sp"}
Blanks(text) == \A i \in DOMAIN text : Blank(text[i])

From(text, i) == IF i = 0 THEN <<>> ELSE SubSeq(text, i, Len(text))

\* lstrip("\r\n") and rstrip().
StripNewlines(text) == From(text, SelectInSeq(text, LAMBDA c : c # "nl"))
StripEnd(text) == SubSeq(text, 1, SelectLastInSeq(text, LAMBDA c : ~Blank(c)))

---------------------------------------------------------------------------
(* The arguments of a call.                                                *)

Properties(name) == IF name \in DOMAIN Tools THEN Tools[name] ELSE [k \in {} |-> "string"]

\* A key begins a parameter; anything else is more of the last one's value.
AddSymbol(params, a) ==
  IF a \in Keys THEN Append(params, [key |-> a, value |-> <<>>])
  ELSE [params EXCEPT ![Len(params)].value = Append(@, a)]

\* The parameters in the raw arguments, the last one perhaps unfinished.
Parameters(raw) == FoldLeft(AddSymbol, <<>>, raw)

\* _coerce_value: a value of a parameter that is not a string becomes what it
\* reads as, and stays a string when it does not read so.
CoerceValue(param, properties) ==
  IF /\ param.key \in DOMAIN properties /\ properties[param.key] = "integer"
     /\ param.value # <<>> /\ ToSet(param.value) \subseteq Digits
  THEN param.value ELSE <<"quote">> \o param.value \o <<"quote">>

\* The argument converter, which closes what is open, and _fix_arg_types.
Json(raw, name) ==
  LET params == Parameters(raw)
      member(i) == <<params[i].key>> \o CoerceValue(params[i], Properties(name))
  IN  <<"{">> \o FlattenSeq([i \in DOMAIN params |->
                   (IF i = 1 THEN <<>> ELSE <<",">>) \o member(i)]) \o <<"}">>

\* Mutant: a string may stream whatever the type of its parameter.
AnyKey(name) == Keys

\* _streamable_string_keys: all keys when there is no schema.
StringKeys(name) ==
  IF DOMAIN Properties(name) = {} THEN Keys
  ELSE {k \in DOMAIN Properties(name) : Properties(name)[k] = "string"}

\* _safe_arg_prefix: up to the last value, and into it when it is a string
\* that can only be continued.
SafeArgPrefix(json, stringKeys) ==
  LET colon == SelectLastInSeq(json, LAMBDA t : t \in Keys)
      close == SelectInSubSeq(json, colon + 2, Len(json), LAMBDA t : t = "quote")
  IN  IF colon = 0 THEN <<>>
      ELSE IF json[colon + 1] = "quote" /\ json[colon] \in stringKeys
           THEN SubSeq(json, 1, close - 1)
           ELSE SubSeq(json, 1, colon)

\* What json adds to what was sent; nothing when it does not extend it.
Extension(sent, json) ==
  IF IsPrefix(sent, json) THEN From(json, Len(sent) + 1) ELSE <<>>

\* _compute_arg_delta: the arguments that can be sent after a chunk.
ComputeArgDelta(slot, chunk) ==
  IF ToSet(chunk) \cap Structural = {} THEN <<>>
  ELSE Extension(slot.streamed_json,
                 SafeArgPrefix(Json(slot.args, slot.name), slot.string_keys))

\* _flush_arg_converter: the arguments left to send when the call ends.
FlushArgs(slot) == Extension(slot.streamed_json, Json(slot.args, slot.name))

---------------------------------------------------------------------------
(* The events of a batch.  acc holds the parser, and the parts of the      *)
(* delta put together so far.                                              *)

NewSlot == [id |-> NoId, name |-> <<>>, args |-> <<>>, name_sent |-> FALSE,
            string_keys |-> {}, streamed_json |-> <<>>]

NewParser == [reasoning_ended |-> FALSE, saw_reasoning_end |-> FALSE,
              content_has_nonws |-> FALSE, deferred_content |-> <<>>,
              deferred_reasoning |-> <<>>, slots |-> <<>>, history_tool_call_cnt |-> 0]

NewAcc(p) == [p |-> p, content |-> <<>>, reasoning |-> <<>>, deltas |-> <<>>, seen |-> FALSE]

CallEvents == {"TOOL_CALL_START", "TOOL_NAME", "ARG_VALUE_CHUNK", "TOOL_CALL_END"}

\* _check_skip_tool_parsing: the request wants no calls.
Suppress == request.tool_choice = "none"

\* With validate_tool_names: a name the request has a tool for, never the
\* empty one.
AcceptToolName(name) == name \in DOMAIN Tools

CallDelta(idx, id, name, arguments) ==
  [index |-> idx, id |-> id, name |-> name, arguments |-> arguments]

\* Mutant: the id of the call is not given out.
NameSentNoId(p, idx) ==
  [p EXCEPT !.slots[idx].name_sent = TRUE,
            !.slots[idx].string_keys = StringKeys(p.slots[idx].name)]

\* The parser once the name of the call is sent: the call has an id.
NameSent(p, idx) ==
  [p EXCEPT !.slots[idx].name_sent = TRUE,
            !.slots[idx].string_keys = StringKeys(p.slots[idx].name),
            !.slots[idx].id = p.history_tool_call_cnt + 1,
            !.history_tool_call_cnt = @ + 1]

\* The first delta of a call, and one that only adds arguments.
AnnounceCall(acc, idx, arguments) ==
  LET q == NameSent(acc.p, idx)
  IN  [acc EXCEPT !.p = q, !.deltas = Append(@,
         CallDelta(idx, q.slots[idx].id, q.slots[idx].name, arguments))]

AddArguments(acc, idx, arguments) ==
  IF arguments = <<>> THEN acc
  ELSE [acc EXCEPT !.deltas = Append(@, CallDelta(idx, NoId, NoName, arguments))]

\* The call goes on with more arguments, which are marked as sent.
SendArguments(acc, idx, arguments) ==
  AddArguments([acc EXCEPT !.p.slots[idx].streamed_json = @ \o arguments], idx, arguments)

\* _handle_arg_chunk, with the chunk in the slot: the chunk that makes the name
\* known brings no arguments.
HandleArgChunk(acc, idx, chunk) ==
  LET slot == acc.p.slots[idx]
  IN  CASE slot.name_sent -> SendArguments(acc, idx, ComputeArgDelta(slot, chunk))
        [] ~slot.name_sent /\ AcceptToolName(slot.name) -> AnnounceCall(acc, idx, <<>>)
        [] OTHER -> acc

\* _handle_tool_end: what is left of the arguments is sent, with the name if
\* that is still to be sent, and is marked as sent even if the name is refused.
HandleToolEnd(acc, idx, rest) ==
  LET slot    == acc.p.slots[idx]
      flushed == [acc EXCEPT !.p.slots[idx].streamed_json = @ \o rest]
  IN  CASE slot.name_sent -> AddArguments(flushed, idx, rest)
        [] ~slot.name_sent /\ AcceptToolName(slot.name) -> AnnounceCall(flushed, idx, rest)
        [] OTHER -> flushed

\* One event of _events_to_delta.
TakeEvent(acc, e) ==
  LET seen == [acc EXCEPT !.seen = TRUE]
  IN  CASE e.type = "TEXT_CHUNK" ->
             IF acc.seen THEN [acc EXCEPT !.p.deferred_content = @ \o e.value]
             ELSE [acc EXCEPT !.content = @ \o e.value]
        [] e.type = "REASONING_CHUNK" -> [acc EXCEPT !.reasoning = @ \o e.value]
        [] e.type = "REASONING_END" ->
             [acc EXCEPT !.p.reasoning_ended = TRUE, !.p.saw_reasoning_end = TRUE]
        [] e.type \in CallEvents /\ Suppress -> acc
        [] e.type = "TOOL_CALL_START" /\ ~Suppress ->
             [seen EXCEPT !.p.slots = Append(@, NewSlot)]
        [] e.type = "TOOL_NAME" /\ ~Suppress ->
             [seen EXCEPT !.p.slots[e.index].name = @ \o e.value]
        [] e.type = "ARG_VALUE_CHUNK" /\ ~Suppress ->
             HandleArgChunk([seen EXCEPT !.p.slots[e.index].args = @ \o e.value],
                            e.index, e.value)
        [] e.type = "TOOL_CALL_END" /\ ~Suppress ->
             HandleToolEnd(seen, e.index, FlushArgs(acc.p.slots[e.index]))

\* _coalesce_tool_call_deltas: the first entry of a call takes in the others.
MergeDelta(merged, d) ==
  LET i == SelectInSeq(merged, LAMBDA m : m.index = d.index)
  IN  IF i = 0 THEN Append(merged, d)
      ELSE [merged EXCEPT ![i].id = IF @ = NoId THEN d.id ELSE @,
                          ![i].name = IF @ = NoName THEN d.name ELSE @,
                          ![i].arguments = @ \o d.arguments]

Coalesce(deltas) == FoldLeft(MergeDelta, <<>>, deltas)

---------------------------------------------------------------------------
(* Deltas.                                                                 *)

\* Mutant: leading newlines are stripped from every delta.
LeadOfAny(p, text) ==
  IF p.saw_reasoning_end THEN StripNewlines(text) ELSE text

\* Leading newlines of the content are dropped after a reasoning block.
Lead(p, text) ==
  IF ~p.content_has_nonws /\ p.saw_reasoning_end THEN StripNewlines(text) ELSE text

\* Mutant: released text goes behind the text of this delta.
ReleaseBehind(acc) ==
  IF acc.seen /\ acc.deltas # <<>> THEN acc.content
  ELSE acc.content \o acc.p.deferred_content

\* The content of a delta, with what was deferred in front of it, unless the
\* delta is about calls.
Release(acc) ==
  IF acc.seen /\ acc.deltas # <<>> THEN acc.content
  ELSE acc.p.deferred_content \o acc.content

\* After the loop of _events_to_delta: white space before the first visible
\* content waits for it, unless a call came first or this is the end.
Assemble(p, text, last) ==
  LET early == ~p.content_has_nonws /\ text # <<>> /\ Blanks(text)
      wait  == early /\ p.slots = <<>> /\ ~last
      drop  == early /\ p.slots # <<>> /\ DropWsOnly
  IN  [p |-> [p EXCEPT !.content_has_nonws = @ \/ ~Blanks(text),
                       !.deferred_content = IF wait THEN text ELSE @],
       content |-> IF wait \/ drop THEN <<>> ELSE text]

DeltaOf(acc, last) ==
  LET p   == [acc.p EXCEPT !.deferred_content =
                IF acc.seen /\ acc.deltas # <<>> THEN @ ELSE <<>>]
      out == Assemble(p, Lead(p, Release(acc)), last)
  IN  [p |-> out.p, content |-> out.content, reasoning |-> acc.reasoning,
       calls |-> Coalesce(acc.deltas)]

\* _events_to_delta: the parser and the delta.
EventsToDelta(p, events, last) ==
  DeltaOf(FoldLeft(TakeEvent, NewAcc(p), events), last)

\* Mutant: the white space is dropped as soon as a delta has no reasoning.
StripTrailingEagerly(out) ==
  LET combined == out.p.deferred_reasoning \o out.reasoning
  IN  [out EXCEPT !.reasoning = StripEnd(combined),
                  !.p.deferred_reasoning = IF out.reasoning = <<>> THEN <<>>
                     ELSE From(combined, Len(StripEnd(combined)) + 1)]

\* _strip_trailing_reasoning
StripTrailingReasoning(out) ==
  LET combined == out.p.deferred_reasoning \o out.reasoning
  IN  CASE ~StripReasoning -> out
        [] StripReasoning /\ out.reasoning # <<>> ->
             [out EXCEPT !.reasoning = StripEnd(combined),
                         !.p.deferred_reasoning = From(combined, Len(StripEnd(combined)) + 1)]
        [] StripReasoning /\ out.reasoning = <<>> ->
             [out EXCEPT !.p.deferred_reasoning =
                IF out.p.reasoning_ended THEN <<>> ELSE @]

\* A slot is a call in _build_extracted_result if its name is accepted.
ExtractCall(calls, slot) ==
  IF AcceptToolName(slot.name)
  THEN Append(calls, [id |-> slot.id, name |-> slot.name,
                      arguments |-> Json(slot.args, slot.name)])
  ELSE calls

\* parse() of the whole answer, which is one batch.
Parsed(out) ==
  [content |-> out.content, calls |-> FoldLeft(ExtractCall, <<>>, out.p.slots)]

Parse(events) == Parsed(EventsToDelta(NewParser, events, TRUE))

---------------------------------------------------------------------------
(* The answer is lexed and parsed delta by delta.                          *)

Init ==
  /\ request \in Requests
  /\ lexer \in [phase : {"reasoning", "content"}, calls : {0}, keys : {{}}, written : {0}]
  /\ batch = <<>>
  /\ parser = NewParser
  /\ given = <<>>
  /\ client = [reasoning |-> <<>>, content |-> <<>>, calls |-> <<>>]
  /\ finished = FALSE

Event(type, value, index) == [type |-> type, value |-> value, index |-> index]

\* The lexer's next event and the phase after it.
NextEvents ==
  LET call == lexer.calls
      ends == [event |-> Event("TOOL_CALL_END", <<>>, call), phase |-> "content"]
      args == {[event |-> Event("ARG_VALUE_CHUNK", <<a>>, call), phase |-> "args"] :
                 a \in (Keys \ lexer.keys) \union (IF lexer.keys = {} THEN {} ELSE Letters)}
  IN  CASE lexer.phase = "reasoning" ->
             {[event |-> Event("REASONING_CHUNK", <<c>>, 0), phase |-> "reasoning"] :
                c \in {"x", "nl"}}
             \union {[event |-> Event("REASONING_END", <<>>, 0), phase |-> "content"]}
        [] lexer.phase = "content" ->
             {[event |-> Event("TEXT_CHUNK", <<c>>, 0), phase |-> "content"] :
                c \in {"x", "nl", "sp"}}
             \union {[event |-> Event("TOOL_CALL_START", <<>>, call + 1), phase |-> "name"] :
                i \in IF Mixes \/ \A j \in DOMAIN batch : batch[j].type # "TEXT_CHUNK"
                      THEN {1} ELSE {}}
        [] lexer.phase = "name" ->
             {[event |-> Event("TOOL_NAME", <<part>>, call), phase |-> "name"] : part \in Parts}
             \union args \union {ends}
        [] lexer.phase = "args" -> args \union {ends}

\* The lexer yields an event, or makes the last chunk of arguments longer.
Lex ==
  /\ ~finished /\ lexer.written < MaxEvents
  /\ \E next \in NextEvents :
       LET e == next.event
       IN  /\ lexer' = [phase |-> next.phase,
                        calls |-> IF e.index > 0 THEN e.index ELSE lexer.calls,
                        keys |-> IF next.phase = "args"
                                 THEN lexer.keys \union (ToSet(e.value) \cap Keys) ELSE {},
                        written |-> lexer.written + 1]
           /\ \/ Len(batch) < MaxBatch /\ batch' = Append(batch, e)
              \/ /\ batch # <<>> /\ Last(batch).type = "ARG_VALUE_CHUNK"
                 /\ e.type = "ARG_VALUE_CHUNK"
                 /\ batch' = [batch EXCEPT ![Len(batch)].value = @ \o e.value]
  /\ UNCHANGED <<request, parser, given, client, finished>>

\* The client has the delta of these events.
Deliver(out, events) ==
  /\ parser' = out.p
  /\ given' = given \o events
  /\ client' = [reasoning |-> IF request.include_reasoning
                              THEN client.reasoning \o out.reasoning ELSE <<>>,
                content |-> client.content \o out.content,
                calls |-> Coalesce(client.calls \o out.calls)]

\* The events of the delta; the last one ends a call that is open (finish()).
Events(last) ==
  IF last /\ lexer.phase \in {"name", "args"}
  THEN Append(batch, Event("TOOL_CALL_END", <<>>, lexer.calls)) ELSE batch

\* parse_delta
ParseDelta(last) ==
  /\ ~finished
  /\ Deliver(StripTrailingReasoning(EventsToDelta(parser, Events(last), last)),
             Events(last))
  /\ batch' = <<>>
  /\ finished' = last
  /\ UNCHANGED <<request, lexer>>

Next == Lex \/ \E last \in BOOLEAN : ParseDelta(last)

Spec == Init /\ [][Next]_vars

---------------------------------------------------------------------------
(* Properties.                                                             *)

Characters == {"x", "nl", "sp"}

Name == Seq(Parts)

\* Types; a call whose name was sent, and no other, has an id of its own and
\* may have arguments sent.
TypeOK ==
  /\ parser.deferred_content \in Seq(Characters)
  /\ parser.deferred_reasoning \in Seq({"nl", "sp"})
  /\ client.content \in Seq(Characters) /\ client.reasoning \in Seq(Characters)
  /\ \A i \in DOMAIN parser.slots :
       LET slot == parser.slots[i]
       IN  /\ slot.name \in Name /\ slot.args \in Seq(Keys \union Letters)
           /\ slot.name_sent <=> slot.id \in 1 .. parser.history_tool_call_cnt
           /\ \A j \in DOMAIN parser.slots :
                i # j /\ slot.name_sent => parser.slots[j].id # slot.id

TextOf(type) ==
  FlattenSeq([i \in DOMAIN given |-> IF given[i].type = type THEN given[i].value ELSE <<>>])

(* The client's reasoning is the model's, without the white space at its   *)
(* end, after every delta: nothing sent has to be taken back, and no inner *)
(* white space is lost on the way (_strip_trailing_reasoning).             *)
ReasoningStands ==
  request.include_reasoning =>
    client.reasoning = IF StripReasoning THEN StripEnd(TextOf("REASONING_CHUNK"))
                       ELSE TextOf("REASONING_CHUNK")

(* Without calls, what was sent and what is deferred are the model's text, *)
(* less the newlines after the reasoning block; at the end nothing is      *)
(* deferred, and parse() gives the same content (_events_to_delta).        *)
ContentStands ==
  parser.slots = <<>> =>
    LET text == TextOf("TEXT_CHUNK")
    IN  /\ client.content \o parser.deferred_content =
             IF parser.saw_reasoning_end THEN StripNewlines(text) ELSE text
        /\ finished => /\ parser.deferred_content = <<>>
                       /\ client.content = Parse(given).content

FromVisible(text) == From(text, SelectInSeq(text, LAMBDA c : ~Blank(c)))

(* From the first visible character on, what was sent and what is deferred *)
(* next to calls are the model's text, in its order and to the last space, *)
(* as long as no delta holds text in front of a call (_events_to_delta).   *)
InnerTextUntouched ==
  FromVisible(client.content \o parser.deferred_content) = FromVisible(TextOf("TEXT_CHUNK"))

Newlines(text) == Len(SelectSeq(text, LAMBDA c : c = "nl"))

(* "Leading newlines of the content are dropped once </think> was seen     *)
(* [...]. Indentation, inner blank lines and thinking-off output           *)
(* untouched" (patches/README.md:12): no newline that follows a visible    *)
(* character is dropped by the strip of leading newlines.                  *)
InnerNewlinesKept ==
  parser.saw_reasoning_end =>
    Newlines(FromVisible(client.content \o parser.deferred_content))
      >= Newlines(FromVisible(TextOf("TEXT_CHUNK")))

(* The client puts together the calls that parse() finds in the whole      *)
(* answer, with their ids and names, and with the arguments to the last    *)
(* character, although they are sent before their types are settled        *)
(* (_safe_arg_prefix, _compute_arg_delta, _flush_arg_converter).           *)
CallsAsParsed ==
  finished =>
    [k \in DOMAIN client.calls |->
       [id |-> client.calls[k].id, name |-> client.calls[k].name,
        arguments |-> client.calls[k].arguments]] = Parse(given).calls
=============================================================================
