------------------------------ MODULE StopGate ------------------------------
(***************************************************************************)
(* The detokenizer of one request (src/patches/files/detokenizer.py): it   *)
(* appends the text of each new token to output_text, looks for the        *)
(* request's stop strings in the text after the reasoning block, truncates *)
(* at the match, and hands the client the text that no later stop string   *)
(* can take back.                                                          *)
(*                                                                         *)
(* With speculative decoding one engine step delivers several tokens, so   *)
(* update() sees a chunk.  "single" is a second detokenizer that is given  *)
(* the same tokens one at a time: what check_stop_strings promises is that *)
(* the two cannot be told apart.                                           *)
(*                                                                         *)
(* A token is <<kind, text>>: the kind tells the reasoning delimiters from *)
(* the rest, the text is what decode_next yields for it at this place (the *)
(* empty text for a token that does not complete a character).             *)
(***************************************************************************)
EXTENDS Integers, SequencesExt

CONSTANTS
  StopLists, \* the lists of stop strings a request may come with
  MinCounts, \* its min_tokens
  Pieces,    \* the texts a token can have
  Delimiter, \* the text of a reasoning delimiter
  MaxTokens, \* bound: the tokens of an answer
  MaxChunk,  \* the tokens one step delivers at most: a sample and the drafts
  Reenters   \* the model may write a reasoning delimiter amid the answer

ASSUME BoundsAssumption == /\ MinCounts \subseteq Nat /\ MaxTokens \in Nat
                           /\ MaxChunk \in Nat \ {0} /\ Reenters \in BOOLEAN
\* The request's validation refuses an empty stop string.
ASSUME StopsAssumption ==
  \A stop \in StopLists : stop # <<>> /\ \A k \in DOMAIN stop : Len(stop[k]) > 0

\* A text is a sequence of characters.
ASSUME TextsAssumption ==
  /\ \A piece \in Pieces \union {Delimiter} : piece \in Seq(ToSet(piece))
  /\ \A stop \in StopLists : /\ stop \in Seq(ToSet(stop))
                             /\ \A k \in DOMAIN stop : stop[k] \in Seq(ToSet(stop[k]))

None == 0

VARIABLES
  request,  \* the sampling parameters, and whether the prompt leaves the model
            \* inside a reasoning block
  det,      \* the detokenizer: its fields
  stopped,  \* the stop string update() returned (its place in the list), or None
  single,   \* the detokenizer fed token by token, and what it stopped at
  given,    \* history: the tokens decoded
  offset,   \* _last_output_text_offset
  sent,     \* the text the client has
  finished  \* the request has finished

vars == <<request, det, stopped, single, given, offset, sent, finished>>

Stops == request.stop
Include == request.include_stop_str_in_output
MinTokens == request.min_tokens

---------------------------------------------------------------------------
(* Searching for stop strings.  Offsets count the characters before a place. *)

Slice(text, from) == SubSeq(text, from + 1, Len(text))

\* str.find(needle, start), a negative start counting from the end.
Occurrences(text, needle) ==
  {i \in 0..(Len(text) - Len(needle)) :
     SubSeq(text, i + 1, i + Len(needle)) = needle}

Find(text, needle, start) ==
  LET from == IF start < 0 THEN Len(text) + start ELSE start
  IN  {i \in Occurrences(text, needle) : i >= from}

\* MUTANT: the text of this call alone is searched.
NewTextOnly(text, new) ==
  LET Found(k) == Find(text, Stops[k], -new)
  IN  {<<Min(Found(k)) + Len(Stops[k]), k>> :
         k \in {j \in DOMAIN Stops : Found(j) # {}}}

\* The first place of each stop string outside the text already searched, as
\* <<end, place in Stops>>; the least pair is the best match.
Candidates(text, new) ==
  LET Found(k) == Find(text, Stops[k], 1 - new - Len(Stops[k]))
  IN  {<<Min(Found(k)) + Len(Stops[k]), k>> :
         k \in {j \in DOMAIN Stops : Found(j) # {}}}

Earlier(a, b) == a[1] < b[1] \/ (a[1] = b[1] /\ a[2] <= b[2])

\* MUTANT: the first stop string of the list, wherever it ends.
FirstListed(C) == CHOOSE c \in C : \A d \in C : c[2] <= d[2]

EndsFirst(C) == CHOOSE c \in C : \A d \in C : Earlier(c, d)

NoMatch == [stop |-> None, length |-> 0]

\* The stop string matched and the length output_text is truncated to.
check_stop_strings(text, new) ==
  IF new = 0 \/ Candidates(text, new) = {} THEN NoMatch
  ELSE LET best == EndsFirst(Candidates(text, new))
       IN  [stop   |-> best[2],
            length |-> IF Include THEN best[1] ELSE best[1] - Len(Stops[best[2]])]

---------------------------------------------------------------------------
(* One call of update().                                                   *)

\* MUTANT: reasoning is left out of the search only once it has ended.
GatesAtTheEnd(d, token) == token[1] = "end"

\* Stop strings may match only past this token.
Gates(d, token) == d.in_reasoning \/ token[1] \in {"start", "end"}

\* The loop over the new tokens.  "check" is the local stop_check_offset.
TakeToken(d, token) ==
  LET text  == d.output_text \o token[2]
      count == d.count + 1
  IN  [output_text  |-> text,
       count        |-> count,
       in_reasoning |-> token[1] # "end" /\ (d.in_reasoning \/ token[1] = "start"),
       floor        |-> IF Gates(d, token) THEN Len(text) ELSE d.floor,
       check        |-> IF Gates(d, token) \/ count <= MinTokens
                        THEN Len(text) ELSE d.check]

update(d, tokens, terminated) ==
  LET skip  == terminated /\ ~Include
      read  == FoldLeft(TakeToken, [d EXCEPT !.check = Len(d.output_text)],
                        IF skip THEN Front(tokens) ELSE tokens)
      count == read.count + IF skip THEN 1 ELSE 0
      match == IF count > MinTokens
               THEN check_stop_strings(Slice(read.output_text, read.floor),
                                       Len(read.output_text) - read.check)
               ELSE NoMatch
  IN  [det  |-> [read EXCEPT !.count = count, !.check = 0,
                             !.output_text = IF match.stop = None THEN @
                                ELSE SubSeq(@, 1, read.floor + match.length)],
       stop |-> match.stop]

\* The same tokens, one call each, up to the call that stops.
updateEach(s, tokens, terminated) ==
  LET call(acc, i) ==
        IF acc.stop # None THEN acc
        ELSE update(acc.det, <<tokens[i]>>, terminated /\ i = Len(tokens))
  IN  FoldLeftDomain(call, s, tokens)

---------------------------------------------------------------------------
(* What the client is sent.                                                *)

\* MUTANT: hold back what the shortest stop string needs.
ShortestBuffer ==
  IF Include \/ Stops = <<>> THEN 0
  ELSE Min({Len(Stops[k]) : k \in DOMAIN Stops}) - 1

stop_buffer_length ==
  IF Include \/ Stops = <<>> THEN 0
  ELSE Max({Len(Stops[k]) : k \in DOMAIN Stops}) - 1

get_next_output_text(text, done) ==
  LET length == Len(text) - IF done THEN 0 ELSE stop_buffer_length
  IN  IF ~request.delta
      THEN /\ sent' = SubSeq(text, 1, length)
           /\ UNCHANGED offset
      ELSE /\ offset' = IF offset < length THEN length ELSE offset
           /\ sent' = sent \o SubSeq(text, offset + 1, length)

---------------------------------------------------------------------------
Fresh(inside) == [output_text |-> <<>>, count |-> 0, in_reasoning |-> inside,
                  floor |-> 0, check |-> 0]

Init == /\ request \in [stop : StopLists, include_stop_str_in_output : BOOLEAN,
                        min_tokens : MinCounts, delta : BOOLEAN, thinking : BOOLEAN]
        /\ det = Fresh(request.thinking)
        /\ stopped = None
        /\ single = [det |-> Fresh(request.thinking), stop |-> None]
        /\ given = <<>>
        /\ offset = 0
        /\ sent = <<>>
        /\ finished = FALSE

\* The tokens the model writes.  Unless it re-enters reasoning, it opens a
\* block with its first token or not at all and closes it once.
Tokens == ({"text"} \X Pieces) \union ({"start", "end"} \X {Delimiter})

Open(tokens) ==
  LET closed == \E i \in DOMAIN tokens : tokens[i][1] = "end"
  IN  ~closed /\ (request.thinking \/ (tokens # <<>> /\ tokens[1][1] = "start"))

Follows(tokens, token) ==
  \/ Reenters
  \/ token[1] = "text"
  \/ token[1] = "start" /\ tokens = <<>> /\ ~request.thinking
  \/ token[1] = "end" /\ Open(tokens)

Chunks == {chunk \in UNION {[1..n -> Tokens] : n \in 1..MaxChunk} :
             /\ Len(given \o chunk) <= MaxTokens
             /\ \A i \in DOMAIN chunk :
                  Follows(given \o SubSeq(chunk, 1, i - 1), chunk[i])}

\* A step's output reaches the front end: the detokenizer takes the tokens and
\* the client is sent the text (OutputProcessor.process_outputs).
Receive ==
  /\ ~finished
  /\ \E chunk \in Chunks, ended \in {"no", "length", "token"} :
       LET out  == update(det, chunk, ended = "token")
           done == ended # "no" \/ out.stop # None
       IN  /\ ended = "token" => Last(chunk)[1] = "text"
           /\ det' = out.det
           /\ stopped' = out.stop
           /\ single' = updateEach(single, chunk, ended = "token")
           /\ given' = given \o IF ended = "token" /\ ~Include
                                THEN Front(chunk) ELSE chunk
           /\ finished' = done
           /\ get_next_output_text(out.det.output_text, done)
  /\ UNCHANGED request

Next == Receive

Spec == Init /\ [][Next]_vars

---------------------------------------------------------------------------
(* Properties.                                                             *)

TypeOK ==
  LET Texts == Seq(UNION {ToSet(p) : p \in Pieces \union {Delimiter}})
      Detokenizer == [output_text : Texts, count : 0..MaxTokens,
                      in_reasoning : BOOLEAN, floor : Nat, check : {0}]
  IN  /\ det \in Detokenizer
      /\ stopped \in {None} \union DOMAIN Stops
      /\ single \in [det : Detokenizer, stop : {None} \union DOMAIN Stops]
      /\ given \in Seq(Tokens)
      /\ offset \in 0..Len(det.output_text)
      /\ sent \in Texts
      /\ finished \in BOOLEAN

(* "the result matches appending one token at a time": however the tokens  *)
(* are cut into chunks by speculation, the request stops at the same stop  *)
(* string and is left with the same text (check_stop_strings).             *)
ChunkedAsSingle ==
  /\ stopped = single.stop
  /\ det.output_text = single.det.output_text

Text(tokens) == FoldLeft(LAMBDA text, token : text \o token[2], <<>>, tokens)

\* The tokens of the reasoning block, with its delimiters.
Reasoning ==
  IF Open(given) THEN given
  ELSE SubSeq(given, 1, CHOOSE i \in 0..Len(given) :
                          /\ i > 0 => given[i][1] = "end"
                          /\ \A j \in (i + 1)..Len(given) : given[j][1] # "end")

(* The answer, the text after the reasoning block, is cut at the first     *)
(* stop string that ends in it past the first MinTokens tokens, and        *)
(* otherwise whole; the reasoning text is never cut, nor does a stop       *)
(* string match in it or across its end (update, patches/README.md:11).    *)
AnswerEndsAtFirstStop ==
  LET whole  == Text(given)
      from   == Len(Text(Reasoning))
      free   == Len(Text(SubSeq(given, 1, IF Len(given) < MinTokens
                                          THEN Len(given) ELSE MinTokens)))
      ends   == {<<from + p[1] + Len(Stops[p[2]]), p[2]>> :
                   p \in {q \in (0..Len(whole)) \X DOMAIN Stops :
                      q[1] \in Occurrences(Slice(whole, from), Stops[q[2]])}}
      counts == {e \in ends : e[1] > free}
  IN  IF counts = {} THEN stopped = None /\ det.output_text = whole
      ELSE \E e \in counts :
             /\ \A f \in counts : e[1] < f[1] \/ (e[1] = f[1] /\ e[2] <= f[2])
             /\ stopped = e[2]
             /\ det.output_text =
                  SubSeq(whole, 1, e[1] - IF Include THEN 0 ELSE Len(Stops[e[2]]))

(* What a client has been sent stands: it is never longer than, nor        *)
(* different from, the text the request is left with, and at the end it is *)
(* all of it (get_next_output_text, stop_buffer_length).                   *)
SentTextStands ==
  /\ IsPrefix(sent, det.output_text)
  /\ finished => sent = det.output_text
=============================================================================
