------------------------------ MODULE ReplayRing ------------------------------
(***************************************************************************)
(* ReplaySSM for speculative decoding,                                     *)
(* src/image/patches-v0280/0111-replayssm-spec-v0280.diff.                 *)
(*                                                                         *)
(* A recurrent layer cannot take back the drafts it has consumed.  Instead *)
(* of one state per draft, a state block holds one checkpoint and a ring   *)
(* of the inputs consumed since.  A decode step first commits the inputs   *)
(* the step before it turned out to have accepted, by moving the cursors   *)
(* of the block; then it replays them on the checkpoint, evaluates its own *)
(* window of inputs on that, and leaves the window in the ring.  When the  *)
(* ring fills up, the step folds what it replays into the checkpoint.      *)
(*                                                                         *)
(* The cursors belong to physical blocks, which change hands.  A step has  *)
(* a row per request, each on a block of its own, so rows are steps here.  *)
(* An input that is right (sampled, or a draft that is accepted) is known  *)
(* by its request and position; a wrong one is like no input at all.       *)
(***************************************************************************)
EXTENDS Integers

CONSTANTS
  Reqs,         \* requests
  Blocks,       \* physical state blocks, the null block apart
  BufferLen,    \* replayssm_buffer_len
  NumSpec,      \* num_speculative_tokens
  CacheBufLen,  \* slots of the ring
  PromptLen,    \* tokens of a prompt
  GrownPrompts, \* whether num_prompt_tokens of a resumed request counts all it recomputes
  MaxTokens,    \* bound on the tokens of a request
  MaxResumed,   \* bound on the tokens of a request that is preempted
  NoBlock

\* A verify window: the last token sampled, and the drafts.
max_spec_len == 1 + NumSpec

\* What the cursors may reach: the history and a window.
max_cache_len == BufferLen + max_spec_len

ASSUME BufferAssumption == NumSpec \in Nat \ {0} /\ BufferLen \in Nat /\ BufferLen >= max_spec_len
ASSUME RingAssumption == CacheBufLen \in Nat /\ CacheBufLen >= max_cache_len
ASSUME LengthsAssumption ==
  PromptLen \in Nat \ {0} /\ MaxTokens \in Nat /\ MaxResumed \in Nat /\ GrownPrompts \in BOOLEAN
ASSUME NoBlockAssumption == NoBlock \notin Blocks

VARIABLES
  block,      \* the state block of a request
  target,     \* tokens its prefill has to cover
  computed,   \* num_computed_tokens: inputs that are in its state for good
  accepted,   \* num_accepted_tokens: inputs of its last step that were right
  finished,   \* requests that are done
  cursors,    \* write_pos, cache_base and is_flush, by block
  checkpoint, \* the recurrent state in a block
  ring        \* the inputs in its ring (the d, k and g caches)

vars == <<block, target, computed, accepted, finished, cursors, checkpoint, ring>>

Slots == 0 .. CacheBufLen - 1

\* The state after the first `upto` inputs of a request; or of nothing.
StateOf(r, n) == [of |-> {r}, upto |-> n]
Garbage == [of |-> {}, upto |-> 0]

Input(r, n) == [of |-> {r}, at |-> n]
Nothing == [of |-> {}, at |-> 0]

\* reset_gdn_replayssm_spec_cursors
Reset == [write_pos |-> 0, cache_base |-> 0, is_flush |-> 2 * max_spec_len > max_cache_len]

Init ==
  /\ block = [r \in Reqs |-> NoBlock]
  /\ target = [r \in Reqs |-> PromptLen]
  /\ computed = [r \in Reqs |-> 0]
  /\ accepted = [r \in Reqs |-> 1]
  /\ finished = {}
  /\ cursors = [b \in Blocks |-> [write_pos |-> 0, cache_base |-> 0, is_flush |-> FALSE]]
  /\ checkpoint = [b \in Blocks |-> Garbage]
  /\ ring = [b \in Blocks |-> [s \in Slots |-> Nothing]]

-----------------------------------------------------------------------------
(* The cursors.                                                            *)

\* Mutant: the next flush is due when a window no longer fits.
CommitLateFlush(c, n) ==
  LET wp == IF c.is_flush THEN n ELSE c.write_pos + n
  IN  [write_pos |-> wp,
       cache_base |-> IF n > 0 /\ c.is_flush
                      THEN (c.cache_base + c.write_pos) % CacheBufLen ELSE c.cache_base,
       is_flush |-> wp + max_spec_len > max_cache_len]

\* Mutant: the base runs on past the end of the ring.
CommitUnwrapped(c, n) ==
  LET wp == IF c.is_flush THEN n ELSE c.write_pos + n
  IN  [write_pos |-> wp,
       cache_base |-> IF n > 0 /\ c.is_flush THEN c.cache_base + c.write_pos ELSE c.cache_base,
       is_flush |-> wp + 2 * max_spec_len > max_cache_len]

\* commit_gdn_replayssm_spec, with n inputs accepted.  What a flush replayed
\* is in the checkpoint, and the history begins behind it; the next flush is
\* one window early.
Commit(c, n) ==
  LET wp == IF c.is_flush THEN n ELSE c.write_pos + n
  IN  [write_pos |-> wp,
       cache_base |-> IF n > 0 /\ c.is_flush
                      THEN (c.cache_base + c.write_pos) % CacheBufLen ELSE c.cache_base,
       is_flush |-> wp + 2 * max_spec_len > max_cache_len]

\* The prompt length that the runner shows for a request.
ShownPrompt(r) == IF GrownPrompts THEN target[r] ELSE PromptLen

\* Mutant: the cursors of the block are taken as they are found.
StepCursorsInherited(r) == Commit(cursors[block[r]], accepted[r])

\* The cursors a decode step works with: those committed, unless this is the
\* first decode step of the request, which starts from a prefilled checkpoint.
StepCursors(r) ==
  IF computed[r] = ShownPrompt(r) THEN Reset ELSE Commit(cursors[block[r]], accepted[r])

-----------------------------------------------------------------------------
(* The kernel.                                                             *)

\* The slot of the i-th input behind the base.
Slot(c, i) == (c.cache_base + i) % CacheBufLen

\* The history of block b continues the checkpoint, input after input.
Continues(b, c) ==
  /\ checkpoint[b].of # {}
  /\ \A i \in 0 .. c.write_pos - 1 :
       ring[b][Slot(c, i)] = [of |-> checkpoint[b].of, at |-> checkpoint[b].upto + i]

\* The state that results when the history is replayed on the checkpoint.
Replayed(b, c) ==
  IF Continues(b, c)
  THEN [of |-> checkpoint[b].of, upto |-> checkpoint[b].upto + c.write_pos]
  ELSE Garbage

\* The ring when the step of r has stored its window of n inputs, the first
\* `right` of which turn out right.
Stored(r, c, n, right) ==
  [s \in Slots |->
     IF \E o \in 0 .. n - 1 : c.write_pos + o < CacheBufLen /\ s = Slot(c, c.write_pos + o)
     THEN LET o == CHOOSE o \in 0 .. n - 1 : s = Slot(c, c.write_pos + o)
          IN  IF o < right THEN Input(r, computed[r] + o) ELSE Nothing
     ELSE ring[block[r]][s]]

-----------------------------------------------------------------------------
(* Steps of the requests.                                                  *)

\* A request that waits, new or preempted, is given a block.
Admit(r, b) ==
  /\ block[r] = NoBlock /\ r \notin finished
  /\ \A s \in Reqs : block[s] # b
  /\ block' = [block EXCEPT ![r] = b]
  /\ UNCHANGED <<target, computed, accepted, finished, cursors, checkpoint, ring>>

\* A prefill row of n tokens: it continues the checkpoint, or starts anew, and
\* resets the cursors of the block.
Prefill(r, n) ==
  LET b == block[r]
  IN  /\ b # NoBlock /\ computed[r] + n <= target[r]
      /\ checkpoint' = [checkpoint EXCEPT ![b] =
           IF computed[r] = 0 \/ @ = StateOf(r, computed[r]) THEN StateOf(r, computed[r] + n)
           ELSE Garbage]
      /\ cursors' = [cursors EXCEPT ![b] = Reset]
      /\ computed' = [computed EXCEPT ![r] = @ + n]
      /\ accepted' = [accepted EXCEPT ![r] = 1]
      /\ UNCHANGED <<block, target, finished, ring>>

\* A decode row: a window of n inputs, the first `right` of which are right.
Decode(r, n, right) ==
  LET b == block[r]
      c == StepCursors(r)
  IN  /\ b # NoBlock /\ computed[r] >= target[r] /\ computed[r] + n <= MaxTokens
      /\ right <= n
      /\ cursors' = [cursors EXCEPT ![b] = c]
      /\ checkpoint' = IF c.is_flush THEN [checkpoint EXCEPT ![b] = Replayed(b, c)] ELSE checkpoint
      /\ ring' = [ring EXCEPT ![b] = Stored(r, c, n, right)]
      /\ computed' = [computed EXCEPT ![r] = @ + right]
      /\ accepted' = [accepted EXCEPT ![r] = right]
      /\ UNCHANGED <<block, target, finished>>

\* The request loses its block; what it had, and the token sampled last, will
\* be prefilled again.
Preempt(r) ==
  /\ block[r] # NoBlock /\ computed[r] < MaxResumed
  /\ block' = [block EXCEPT ![r] = NoBlock]
  /\ target' = [target EXCEPT ![r] = IF computed[r] >= @ THEN computed[r] + 1 ELSE @]
  /\ computed' = [computed EXCEPT ![r] = 0]
  /\ UNCHANGED <<accepted, finished, cursors, checkpoint, ring>>

\* The request ends, or is aborted.
Finish(r) ==
  /\ block[r] # NoBlock
  /\ block' = [block EXCEPT ![r] = NoBlock]
  /\ finished' = finished \cup {r}
  /\ UNCHANGED <<target, computed, accepted, cursors, checkpoint, ring>>

Next ==
  \E r \in Reqs :
    \/ \E b \in Blocks : Admit(r, b)
    \/ \E n \in 1 .. target[r] : Prefill(r, n)
    \/ \E n, right \in 1 .. max_spec_len : Decode(r, n, right)
    \/ Preempt(r)
    \/ Finish(r)

Spec == Init /\ [][Next]_vars

-----------------------------------------------------------------------------
(* Properties.                                                             *)

Decoding(r) == block[r] # NoBlock /\ computed[r] >= target[r]

\* Types.
TypeOK ==
  /\ block \in [Reqs -> Blocks \cup {NoBlock}]
  /\ target \in [Reqs -> Nat \ {0}] /\ computed \in [Reqs -> Nat]
  /\ accepted \in [Reqs -> 1 .. max_spec_len]
  /\ finished \subseteq Reqs
  /\ cursors \in [Blocks -> [write_pos : 0 .. BufferLen, cache_base : Slots, is_flush : BOOLEAN]]
  /\ checkpoint \in [Blocks -> [of : SUBSET Reqs, upto : Nat]]
  /\ ring \in [Blocks -> [Slots -> [of : SUBSET Reqs, at : Nat]]]

\* A decode step evaluates its window on the state after exactly the inputs its
\* request has kept: no rejected draft, no input twice or missing, nothing that
\* another owner of the block left, whatever was rejected, flushed, wrapped
\* around, preempted or reused before.
StateIsExact ==
  \A r \in Reqs : Decoding(r) =>
    Replayed(block[r], StepCursors(r)) = StateOf(r, computed[r])

\* "every verify step satisfies write_pos + spec_len <= max_cache_len (the spec
\* window never overflows)", the comment in the kernel that moves the cursors:
\* a full window always finds room behind the history, in the ring.
WindowFits ==
  \A r \in Reqs : Decoding(r) =>
    /\ StepCursors(r).write_pos + max_spec_len <= max_cache_len
    /\ StepCursors(r).write_pos + max_spec_len <= CacheBufLen
=============================================================================
