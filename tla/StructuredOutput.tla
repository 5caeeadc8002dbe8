-------------------------- MODULE StructuredOutput --------------------------
(***************************************************************************)
(* One structured-output request: its grammar matcher (GuidanceGrammar in  *)
(* src/patches/files/backend_guidance.py), the manager that validates      *)
(* draft tokens, builds the bitmask of a step and commits sampled tokens   *)
(* (StructuredOutputManager in structured_output__init__.py), and the      *)
(* places the scheduler calls them from.                                   *)
(*                                                                         *)
(* The grammar constrains the answer, which starts after the reasoning     *)
(* block: the delimiter ThinkEnd may come in the middle of a step's        *)
(* drafts.  To fill the masks of a step the manager walks the matcher      *)
(* through the drafts and rolls it back.                                   *)
(*                                                                         *)
(* llguidance's matcher is external: it is the list of tokens it has       *)
(* consumed, its grammar an automaton.                                     *)
(***************************************************************************)
EXTENDS Integers, SequencesExt

CONSTANTS
  Tokens,     \* the tokens the grammar speaks of
  EOS,        \* the end-of-sequence token
  ThinkEnd,   \* the token that ends the reasoning block
  States,     \* the grammar: an automaton
  Start,
  Delta,      \* [state -> [token -> state]], by the tokens a state allows
  Accepting,  \* the states after which the answer may end
  NumSpec,    \* drafts per step
  MaxTokens   \* max_tokens

ASSUME GrammarAssumption ==
  /\ Start \in States /\ Accepting \subseteq States
  /\ \A q \in States : /\ DOMAIN Delta[q] \subseteq Tokens
                       /\ \A t \in DOMAIN Delta[q] : Delta[q][t] \in States
                       \* every state leads on or accepts
                       /\ DOMAIN Delta[q] # {} \/ q \in Accepting

Vocabulary == Tokens \union {EOS, ThinkEnd}
Padding == "padding"  \* -1, a rejected draft

ASSUME TokensAssumption ==
  /\ EOS # ThinkEnd /\ {EOS, ThinkEnd} \cap Tokens = {}
  /\ Padding \notin Vocabulary
ASSUME BoundsAssumption == NumSpec \in Nat /\ MaxTokens \in Nat \ {0}

VARIABLES
  gated,    \* the prompt leaves the model reasoning, and a parser knows it
  reasoning_ended,
  grammar,  \* the GuidanceGrammar
  output,   \* the output tokens of the request
  proposed, \* history: the drafts as the model proposed them
  drafts,   \* scheduled_spec_decode_tokens
  masks,    \* the bitmask of the step: the tokens each position may take
  failed,   \* grammar_bitmask() reported a draft it could not accept
  status,   \* "running", "stopped", "length" or "error"
  pc        \* what the engine does next: "draft", "mask" or "sample"

vars == <<gated, reasoning_ended, grammar, output, proposed, drafts, masks,
          failed, status, pc>>

---------------------------------------------------------------------------
(* llguidance: LLMatcher over the tokens consumed.                         *)

\* The state after some tokens, EOS leaving it where it is.
Run(tokens) == FoldLeft(LAMBDA q, t : IF t = EOS THEN q ELSE Delta[q][t],
                        Start, tokens)

Final(q) == q \in Accepting /\ DOMAIN Delta[q] = {}

is_stopped(consumed) ==
  EOS \in ToSet(consumed) \/ Final(Run(consumed))

\* fill_next_token_bitmask: the tokens that may come next.
NextTokens(consumed) ==
  IF is_stopped(consumed) THEN {EOS}
  ELSE LET q == Run(consumed)
       IN  DOMAIN Delta[q] \union IF q \in Accepting THEN {EOS} ELSE {}

\* Every token of the list may come where it does.
Allowed(consumed, tokens) ==
  \A i \in DOMAIN tokens :
    LET before == consumed \o SubSeq(tokens, 1, i - 1)
    IN  EOS \notin ToSet(before) /\ tokens[i] \in NextTokens(before)

---------------------------------------------------------------------------
(* GuidanceGrammar.                                                        *)

accept_tokens(g, tokens) ==
  LET eos     == EOS \in ToSet(tokens)
      stopped == is_stopped(g.consumed)
      marked  == [g EXCEPT !.terminated = @ \/ eos,
                           !.rollback_lag = IF eos /\ stopped /\ ~g.terminated
                                            THEN 1 ELSE @]
  IN  IF stopped THEN [ok |-> TRUE, grammar |-> marked]
      ELSE IF Allowed(g.consumed, tokens)
      THEN [ok |-> TRUE, grammar |-> [marked EXCEPT !.consumed = @ \o tokens]]
      ELSE [ok |-> FALSE, grammar |-> marked]

validate_tokens(g, tokens) ==
  IF is_stopped(g.consumed) THEN <<>>
  ELSE SubSeq(tokens, 1,
         Max({n \in 0..Len(tokens) : Allowed(g.consumed, SubSeq(tokens, 1, n))}))

\* MUTANT: a rollback counts an EOS that the matcher never consumed.
RollbackWithoutLag(g, n) ==
  [consumed |-> SubSeq(g.consumed, 1, Len(g.consumed) - n),
   terminated |-> FALSE, rollback_lag |-> 0]

rollback(g, n) ==
  [consumed |-> SubSeq(g.consumed, 1, Len(g.consumed) - (n - g.rollback_lag)),
   terminated |-> FALSE, rollback_lag |-> 0]

---------------------------------------------------------------------------
(* StructuredOutputManager.                                                *)

\* How many of the tokens come before the constraint: past the first
\* delimiter; Len + 1 if not even the token after them is constrained.
get_constraint_start(ended, tokens) ==
  IF ~gated \/ ended THEN 0
  ELSE IF ThinkEnd \in ToSet(tokens)
  THEN SelectInSeq(tokens, LAMBDA t : t = ThinkEnd)
  ELSE Len(tokens) + 1

strip_speculative_padding(tokens) ==
  LET first == SelectInSeq(tokens, LAMBDA t : t = Padding)
  IN  IF first = 0 THEN tokens ELSE SubSeq(tokens, 1, first - 1)

\* MUTANT: while the model reasons, its drafts are not looked at (what the
\* backport repairs).
TrustWhileReasoning(tokens) ==
  IF get_constraint_start(reasoning_ended, <<>>) > 0 THEN tokens
  ELSE validate_tokens(grammar, tokens)

\* MUTANT: drafts before the constraint are validated too.
ValidateAll(tokens) == validate_tokens(grammar, tokens)

\* The longest unconstrained or grammar-valid prefix of some drafts.
ValidDrafts(tokens) ==
  LET start == get_constraint_start(reasoning_ended, tokens)
  IN  IF start >= Len(tokens) THEN tokens
      ELSE SubSeq(tokens, 1, start)
           \o validate_tokens(grammar, SubSeq(tokens, start + 1, Len(tokens)))

\* The mask of one position.
FillMask(g, apply) ==
  IF apply /\ ~g.terminated THEN NextTokens(g.consumed) ELSE Vocabulary

\* grammar_bitmask: fill the mask of a draft's position, then take the draft.
FillPosition(acc, token) ==
  LET apply == ~acc.failed /\ ~acc.padded /\ Len(acc.masks) >= acc.start
      taken == accept_tokens(acc.grammar, <<token>>)
      fill  == [acc EXCEPT !.masks = Append(@, FillMask(acc.grammar, apply))]
  IN  IF token = Padding THEN [fill EXCEPT !.padded = TRUE]
      ELSE IF ~apply THEN fill
      ELSE IF ~acc.grammar.terminated /\ taken.ok
      THEN [fill EXCEPT !.grammar = taken.grammar, !.advanced = @ + 1]
      ELSE [fill EXCEPT !.failed = TRUE]

FillPositions ==
  FoldLeft(FillPosition,
           [start |-> get_constraint_start(reasoning_ended,
                                           strip_speculative_padding(drafts)),
            grammar |-> grammar, masks |-> <<>>, advanced |-> 0,
            padded |-> FALSE, failed |-> FALSE],
           drafts)

\* MUTANT: the position after the last draft has no mask of its own.
NoBonus(walk) == FALSE

BonusApplies(walk) ==
  ~walk.failed /\ ~walk.padded /\ walk.start <= Len(drafts)

---------------------------------------------------------------------------
(* The engine's calls, in its order.                                       *)

Init == /\ gated \in BOOLEAN
        /\ reasoning_ended = FALSE
        /\ grammar = [consumed |-> <<>>, terminated |-> FALSE, rollback_lag |-> 0]
        /\ output = <<>>
        /\ proposed = <<>>
        /\ drafts = <<>>
        /\ masks = <<>>
        /\ failed = FALSE
        /\ status = "running"
        /\ pc = "draft"

\* The model proposes drafts for the request's next step.  Between steps the
\* invalid ones are cut off (update_draft_token_ids); for a step already
\* scheduled they are replaced by padding (update_draft_token_ids_in_output).
Propose ==
  /\ pc = "draft" /\ status = "running"
  /\ \E tokens \in UNION {[1..n -> Vocabulary] : n \in 0..NumSpec} :
       LET valid == ValidDrafts(tokens)
       IN  /\ proposed' = tokens
           /\ \/ drafts' = valid
              \/ drafts' = [i \in DOMAIN tokens |->
                              IF i <= Len(valid) THEN valid[i] ELSE Padding]
  /\ pc' = "mask"
  /\ UNCHANGED <<gated, reasoning_ended, grammar, output, masks, failed, status>>

FillBitmask ==
  /\ pc = "mask"
  /\ LET walk == FillPositions
     IN  /\ masks' = Append(walk.masks, FillMask(walk.grammar, BonusApplies(walk)))
         /\ grammar' = IF walk.advanced > 0 THEN rollback(walk.grammar, walk.advanced)
                       ELSE walk.grammar
         /\ failed' = walk.failed
  /\ pc' = "sample"
  /\ UNCHANGED <<gated, reasoning_ended, output, proposed, drafts, status>>

\* MUTANT: max_tokens does not cut the tokens of a step.
CutAtEosOnly(tokens) ==
  LET eos == SelectInSeq(tokens, LAMBDA t : t = EOS)
  IN  SubSeq(tokens, 1, IF eos = 0 THEN Len(tokens) ELSE eos)

\* The sampled tokens, cut at EOS and at max_tokens (_update_request_with_output).
Cut(tokens) ==
  LET eos  == SelectInSeq(tokens, LAMBDA t : t = EOS)
      most == Min({Len(tokens), MaxTokens - Len(output)})
  IN  SubSeq(tokens, 1, IF eos = 0 THEN most ELSE Min({eos, most}))

\* StructuredOutputManager.accept_tokens: the matcher takes the new tokens.
Commit(new) ==
  LET start == get_constraint_start(reasoning_ended, new)
      taken == accept_tokens(grammar, SubSeq(new, start + 1, Len(new)))
  IN  IF start > Len(new)
      THEN [ok |-> TRUE, grammar |-> grammar, ended |-> reasoning_ended]
      ELSE [ok |-> taken.ok, grammar |-> taken.grammar, ended |-> TRUE]

\* The step's output: some first drafts are accepted and one token is sampled
\* after them, each within its mask.
UpdateFromOutput ==
  /\ pc = "sample"
  /\ \E accepted \in 0..Len(strip_speculative_padding(drafts)) :
       /\ \A i \in 1..accepted : drafts[i] \in masks[i]
       /\ \E token \in masks[accepted + 1] :
            LET new  == Cut(Append(SubSeq(drafts, 1, accepted), token))
                done == Commit(new)
            IN  /\ output' = output \o new
                /\ grammar' = done.grammar
                /\ reasoning_ended' = done.ended
                /\ status' = CASE ~done.ok -> "error"
                               [] done.ok /\ Last(new) = EOS -> "stopped"
                               [] done.ok /\ Last(new) # EOS /\ Len(output') = MaxTokens
                                    -> "length"
                               [] OTHER -> "running"
  /\ pc' = "draft"
  /\ proposed' = <<>> /\ drafts' = <<>> /\ masks' = <<>>
  /\ UNCHANGED <<gated, failed>>

\* The request is preempted: its drafts are dropped, and so is the output of a
\* step that was running.
Discard ==
  /\ pc \in {"mask", "sample"}
  /\ pc' = "draft"
  /\ proposed' = <<>> /\ drafts' = <<>> /\ masks' = <<>>
  /\ UNCHANGED <<gated, reasoning_ended, grammar, output, failed, status>>

Next == Propose \/ FillBitmask \/ UpdateFromOutput \/ Discard

Spec == Init /\ [][Next]_vars

---------------------------------------------------------------------------
(* Properties.                                                             *)

(* The state is well formed: in particular a step is sampled under one mask *)
(* per draft and one more, none of them empty (grammar_bitmask).           *)
TypeOK ==
  /\ {gated, reasoning_ended, failed} \subseteq BOOLEAN
  /\ grammar \in [consumed : Seq(Tokens \union {EOS}), terminated : BOOLEAN,
                  rollback_lag : {0, 1}]
  /\ output \in Seq(Vocabulary) /\ Len(output) <= MaxTokens
  /\ drafts \in Seq(Vocabulary \union {Padding})
  /\ status \in {"running", "stopped", "length", "error"}
  /\ pc \in {"draft", "mask", "sample"}
  /\ pc = "sample" => /\ Len(masks) = Len(drafts) + 1
                      /\ \A i \in DOMAIN masks : masks[i] # {}

\* The answer in some output: what follows the first delimiter.
Answer(tokens) ==
  IF ~gated THEN tokens
  ELSE IF ThinkEnd \notin ToSet(tokens) THEN <<>>
  ELSE SubSeq(tokens, SelectInSeq(tokens, LAMBDA t : t = ThinkEnd) + 1, Len(tokens))

(* Filling masks and dropping steps leave no trace: whenever the request   *)
(* runs, the matcher has consumed its answer and nothing else, and the     *)
(* constraint is on exactly when the reasoning is over                     *)
(* (grammar_bitmask's rollback, rollback_lag, the latch of accept_tokens). *)
MatcherTracksAnswer ==
  status = "running" =>
    /\ grammar = [consumed |-> Answer(output), terminated |-> FALSE,
                  rollback_lag |-> 0]
    /\ gated => (reasoning_ended <=> ThinkEnd \in ToSet(output))

(* The answer the client gets is a prefix of a word of the grammar, and a  *)
(* whole word when it ends with EOS, whatever drafts were proposed and     *)
(* wherever in a step the reasoning ended.                                 *)
AnswerIsGrammatical == Allowed(<<>>, Answer(output))

(* The two errors logged as "Unexpected" do not happen: the matcher never  *)
(* refuses a committed token (update_from_output) nor a scheduled draft    *)
(* (grammar_bitmask).                                                      *)
NeverRejected == status # "error" /\ ~failed

(* "the longest unconstrained or grammar-valid prefix": a draft is         *)
(* scheduled as proposed unless the grammar refuses it or one before it,   *)
(* or the answer is complete (validate_tokens).                            *)
DraftsAreLongestValid ==
  LET valid == strip_speculative_padding(drafts)
      Fits(n) == Allowed(<<>>, Answer(output \o SubSeq(proposed, 1, n)))
  IN  pc = "mask" =>
        /\ IsPrefix(valid, proposed)
        /\ Fits(Len(valid))
        /\ \/ Len(valid) = Len(proposed)
           \/ ~Fits(Len(valid) + 1)
           \/ is_stopped(Answer(output))
=============================================================================
