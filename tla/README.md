# Verification of the Qwen3.8-27B serving stack

The repository serves one quantized model (NVFP4, with multi-token prediction)
on one GPU: vLLM v0.28.0, seven patched Python files mounted over it
(`patches/files/`), an image with patched kernels, a Compose file with a
liveness probe, and the tools that chose the quantization. This directory holds
TLA+ specifications of its control logic, TLC configurations that check them on
small instances, and proofs that TLAPS checks.

All paths below are relative to the repository. `PROJECT.json` lists the
components, the runs, the mutants, the lines each definition stands for, the
hazards and the theorems.

## 1. The system

### Components, state, operations

| Component | State | Operations | What makes it correct |
|---|---|---|---|
| Scheduler, `scheduler.py` | the request records and their counters; `running`, `waiting`, `skipped_waiting`; finished and preempted ids still to be told; step sequence numbers; `deferred_frees` | `schedule`, `update_from_output`, `add_request`, `finish_requests`, `reset_prefix_cache`, `set_pause_state`, draft updates | a request is in one queue; counters equal what is in flight; tokens arrive in place; budget, blocks and runner slots are respected; every request ends |
| Deferred block freeing, `scheduler.py` | fences, step numbers, block tables, copy sources | free, drain, reset, load start and end | no block that somebody may still write is given to somebody else |
| KV-connector loads, `scheduler.py` | waiting-for-remote requests, failed loads | invalid blocks, recompute or fail, promotion | what follows an invalid block is recomputed by all who share it |
| Mamba alignment, `scheduler.py:366-445` | none | clip a prefill chunk | progress; every cacheable position is a chunk end |
| Structured output, `structured_output__init__.py`, `backend_guidance.py` | grammar matcher, `reasoning_ended` | validate drafts, fill masks, commit tokens | the answer is a word of the grammar; the matcher follows the answer |
| Detokenizer, `detokenizer.py` | text, stop floor, reasoning flag, text offset | `update`, `get_next_output_text` | the first stop string in the answer ends it, however tokens are delivered; sent text stands |
| Parser engine, `parser_engine.py` | parse state, deferred white space, tool slots | streaming and single-pass parsing | both give one result |
| Model files, `qwen3_5*.py` | weights | forward, load | tensor code |
| Probe, `compose/healthcheck.sh` | files keyed by the boot of PID 1 | one probe | a hung engine is killed, a working one is not |
| Replay of recurrent state, `image/patches-v0280/0111-*.diff` (opt-in) | cursors, checkpoint and ring of each state block | commit, reset, verify, flush | a step evaluates on exactly the inputs its request kept |
| Other image patches, `image/patches-v0280/` | none | GPU kernels, builds | tensor code |
| Quantization tools, `quantization/` | result files | scan, allocate, quantize, score, benchmark | optimal allocation, aligned windows, resumable runs |

### How they interact

The engine loop calls `schedule()`, launches the step, and calls
`update_from_output()` when the model runner answers. With asynchronous
scheduling (the default here) one more step is scheduled before the first
answer arrives, its tokens known only as placeholders. Client threads do not
enter the scheduler: aborts, new requests and resets are handled between the
calls of the loop. Grammar compilation and KV loads are the only things that
run beside it; the scheduler sees them as state that has changed when it looks.

Per sampled step of a structured request the engine asks the scheduler to
validate the drafts and to build the bitmask, both of which walk the request's
matcher; `update_from_output` commits the tokens to it. The tokens then go to
the front end, where the detokenizer of the request may end it at a stop string
(the front end aborts it in the scheduler) and the parser engine splits the
text into reasoning, content and tool calls.

### What is hard

* A step's output arrives after the request it belongs to was preempted,
  resumed, or aborted. Preemption resets the counters that the output adjusts.
* Blocks are freed while a launched step still writes them.
* Counters and queue membership are kept by hand over many paths
  (`num_waiting_for_streaming_input`, `num_stale_output_tokens`, the two
  waiting queues).
* Speculation: a step delivers several tokens, and whatever ends in the middle
  of them (reasoning, the answer, a grammar word, a stop string) must be handled
  as if they had come one by one.
* The engine sleeps when it believes it has no work.

`PROJECT.json` lists each hazard at its line with the properties that would
catch it, and those no property covers yet.

## 2. Modules

| Module | Models | Checked by |
|---|---|---|
| `BlockFence` | deferred freeing (`scheduler.py` 328-334, 1336-1377, 1243-1252, 2402-2453, 2496-2524, 2705-2810) | `MCBlockFence` |
| `BlockPool` | what users of blocks rely on; implemented by `BlockFence` | through `MCBlockFence` |
| `BlockFenceProofs` | the proofs about writes, loads and copies, about the order of the queue, of the refinement and of what it is worth | TLAPS |
| `RequestQueue` | the two queue classes of vLLM, from their use | through `Scheduler` |
| `Scheduler` | the scheduler's loop and handlers | `MCScheduler` |
| `FoldLemmas` | lemmas on sums, folds and parts of sequences | TLAPS |
| `SchedulerQueues` | the proofs about types, the phases of the loop, the queues, slots, the budget and prefill chunks | TLAPS |
| `SchedulerSteps` | the proofs about counters and their bounds, blocks, tokens in flight and the places of tokens | TLAPS |
| `StopGate` | the detokenizer of a request | `MCStopGate` |
| `StopGateProofs` | the proofs about it | TLAPS |
| `StructuredOutput` | drafts, masks and commits of a structured request | `MCStructuredOutput` |
| `StructuredOutputProofs` | the proofs about it | TLAPS |
| `ParserDelta` | the deltas of a streamed answer and its single-pass parse | `MCParserDelta` |
| `ParserDeltaProofs` | the proofs about its texts and calls | TLAPS |
| `HealthCheck` | the liveness probe and the container it may kill | `MCHealthCheck` |
| `ReplayRing` | cursors, checkpoint and ring of the recurrent state | `MCReplayRing` |
| `RingAndProbeProofs` | the proofs about these two | TLAPS |

### BlockFence

State: for each request where it is, the blocks on its table (`held`), the
blocks an asynchronous load is filling (`loadDst`) and `last_sched_seq`; the
step under construction (`batch`, `copySrc`); the two sequence numbers;
`deferred_frees`; the launched steps. A block is in the pool when it is on no
list, which is what a reference count of zero means. One action per way a
request gains blocks (`Admit`, `Grow`, `Resume`, `StartLoad`) or loses them
(`Preempt`, `Abort`, `AbortLoad`, `EndLoad`, `Process`, `ResetPrefixCache`), and
`Launch`. Steps without tokens take no number, as in the code: a copy source is
therefore fenced by the next number, whichever step gets it.

`BlockPool` is its abstract specification: a pool, the launched steps and the
blocks being loaded. It gives blocks out as it pleases and takes them back only
when nobody will touch them; sequence numbers, stamps and fences do not appear
in it. `BlockFence` implements it (`ImplementsPool`) under the mapping that
forgets its bookkeeping.

### Scheduler

State: the request records with the fields the code keeps, the number of
blocks each holds, the queues, the ids to be told to the workers, the pause
state, the grammar compilations, the steps in flight; `slots` and `sampled`
stand for the model runner (who has a row, how many tokens were sampled for
whom). `pc` and `loc` are the place and the locals of the handler under way:
`schedule()` is a loop over running requests (`SkipRunning`, `ScheduleRunning`,
`PreemptForRunning`), a loop over waiting ones (`SkipWaiting`, `Admit`,
`Requeue`, `StopWaiting`) and a `Commit` that includes
`_update_after_schedule`; `update_from_output()` visits the requests of the
oldest step one by one (`DropOutput`, `Deliver`) and ends in `EndOutput`, which
takes the stopped requests out of the queues. The handlers that come between
steps are actions of one step each.

What it abstracts, and why:

* `Depth > 1` stands for asynchronous scheduling; its scheduler subclass is
  external and modelled from the counters the base class keeps for it
  (placeholders grow by one and the drafts, and shrink by the tokens kept,
  unless the output is stale). Depth 3 adds a pipeline stage.
* At depth 1 only aborts come between a schedule and its output.
* Blocks are counted, not identified, and not shared; a prefix hit is nothing
  or all that the pool could have. Identity and sharing are in `BlockFence`.
* The configuration and the workload are the variable `config`, chosen once
  among `Configs`, so that one run checks several.
* `AlignedSplit` is `_mamba_block_aligned_split`, applied to running and waiting
  requests before their tokens are allocated. The junction with a shared prefix
  is any of two positions when the lookup finds no state, since prefixes are not
  compared. The prompt's partial-tail boundary is left out (off as shipped).
* Draft slots, LoRA, encoder inputs, connectors, data-parallel throttling,
  pipeline cadence, the long-prefill threshold and look-ahead over one module
  are left out: the shipped configuration has one MTP module, no LoRA, no
  connector and one rank.
* A session is sent chunks of one token, and sessions are modelled under
  synchronous scheduling only (`ConfigsAssumption`).
* A request id is used once.

### StopGate

A token is its kind (text, start or end of reasoning) and the text it decodes
to at its place, any of a small set with the empty text (an unfinished
character). `update` folds the loop over the new tokens and evaluates the stop
strings; `Receive` is one step's output reaching the front end, which updates
and sends text. `single` is the same detokenizer fed one token at a time.
Unless `Reenters`, the model opens a reasoning block at its beginning or not
at all and closes it once.

### StructuredOutput

The matcher of llguidance is the list of tokens it consumed, its grammar an
automaton; it is stopped when it consumed EOS or can go no further. `Propose`
is both ways drafts reach a step (cut short between steps, or padded in a step
already scheduled), `FillBitmask` walks the matcher through them and back,
`UpdateFromOutput` accepts some drafts and samples a token, each within its
mask, cuts at EOS and at `max_tokens`, and commits; `Discard` is a preemption
in between. Assumed of code outside the repository: a matcher that stopped
accepts EOS; validation does not go past EOS; the reasoning parser reports the
end of reasoning when the delimiter is among the new tokens, and the model does
not write a start delimiter after it; an unmasked position may take any token.
`reasoning_ended` is two-valued: the third value, "not looked at yet", becomes
one of the two on first use and depends on the prompt alone.

### ParserDelta

The lexer (`StreamingParserEngine`) is outside the repository: `Lex` yields
reasoning, text, and calls piece by piece, in any order a model may write them,
with one reasoning block at most, at the beginning; finishing ends an open
call. `batch` is what one delta brings; `ParseDelta` parses it. `TakeEvent` is
the loop over its events and `DeltaOf` what follows the loop: release of
deferred text, strip of leading newlines, deferral of white space. A call's raw
arguments are parameter keys and value characters; their JSON is a sequence of
symbols, so that a prefix that was sent can be compared with a later conversion
in which a string has become an integer. The converter is external: in partial
mode it gives an unfinished value as it stands and closes it, which is what
`_safe_arg_prefix` expects of it; it gives `{}` for an empty body. `Parse` is
the single-pass parse of the same events. Left out: formats that write a call's
name inside a JSON body, values with a depth, and white space that
`_strip_content_whitespace` removes from the content of an answer with calls.

### HealthCheck

State: what the engine is doing and what its metrics would show; the files in
`/tmp/hc` with the boot they are of (this one, another, none); the step a probe
is at. A probe is a few steps (`StartProbe`, then `MetricsUnreachable` or
`ReadMetrics`, then `Answered` or `Unanswered`), the engine boots, serves, hangs
or crashes between any two of them, and Docker may give the probe up
(`GiveUp`). The counter of generated tokens is compared with its last reading
only, so the model keeps whether it has moved; what the probe's own token adds
counts as movement, which delays the detection of a hang by one probe. Start
times of PID 1 are taken never to repeat. `answered` and `misses` are history,
kept by the model alone.

The model reaches two ways to kill an engine that works: a prefill that keeps
the counter frozen over three probes, and a one-token generate that queues
behind requests which arrived after the metrics were read. The header's rule 4
accepts the first, and the second is as rare as three such probes in a row; the
counter also adds up failures of different kinds, where rule 4 speaks of a
frozen counter. None of it contradicts a promise, so it is no finding.

### ReplayRing

The patch keeps one checkpoint of the recurrent state per block and a ring of
the inputs consumed since. It is opt-in and needs `mamba_cache_mode none`
(diff:93-96); the shipped Compose file uses `align`, so this module and the
aligned configurations of `Scheduler` belong to different deployments.

State: per request its block, its tokens and what its last step accepted; per
block `write_pos`, `cache_base`, `is_flush`, the checkpoint (after which inputs
of whom) and the ring. `Prefill` is a prefill row with its reset; `Decode` is
commit or reset of the cursors, then the kernel: flush of what it replays, and
the store of its window. The verify and the flush kernel take complementary
rows, so they are one action. Which drafts are right is known to the model from
the start: a wrong one is stored as nothing, and any replay of it is garbage.
Rows of one step are on different blocks and are steps of their own. Graph
padding (rows on the null block) is left out, and so are prefill rows of a
request that decoded before (a session's next chunk) and prompts of one token
padded with drafts: what the runner calls prefilling for those is decided
outside the repository.

`GrownPrompts` is an assumption on code outside the repository: that the prompt
length shown for a resumed request counts all it prefills again. It matters for
the comparison at diff:852. With `FALSE`, TLC finds `StateIsExact` violated after
one preemption: the prefill has reset the cursors, the first decode step is not
recognized, and the commit counts one input that was never stored.

## 3. What the runs show

| Run | Instance | Shows |
|---|---|---|
| `fence` | 2 requests, 3 blocks, 3 steps in flight, symmetric | the six invariants of `BlockFence`; that it implements `BlockPool` |
| `fence_reset` | 2 requests, 2 blocks | finding A |
| `scheduler` | eight configurations, see below | types, in-flight accounting, positions, queues, blocks, slots, budget; the engine never sleeps on work; a prefill stops at every state to be cached |
| `live` | 3 requests, one with a grammar, depth 2, block-aligned prefills, output of preempted requests dropped (the harder case: its tokens must be sampled again) | every request ends, under fairness |
| `session_slots` | one session, one request, one slot | finding B |
| `stop_gate` | 5 tokens in steps of up to 3, two lists of stop strings, all options | chunks as single tokens, first stop string, sent text stands |
| `stop_gate_reenter` | 3 tokens, a delimiter amid the answer | finding C |
| `structured_output` | 3 drafts, 5 tokens, a grammar with a loop and a final state | the matcher follows the answer, the answer fits the grammar, nothing is rejected |
| `parser_delta` | 7 pieces in deltas of up to 3, a tool with a schema and one without, accepted and unknown names, text and calls not mixed in a delta | reasoning, content and calls of the client are those of the whole answer |
| `parser_delta_mixed` | the same in deltas of up to 4, mixed | finding D |
| `health` | one container, any number of restarts | only a boot seen working is killed, after three failures in a row; a hung one is restarted |
| `replay_ring` | 2 requests, 1 block, buffer of 5, 2 drafts, ring of 8, 14 tokens | every step evaluates on exactly the inputs its request kept; a window always fits |

Every property of a passing run has a mutant in `PROJECT.json`: a definition
changed as a slip in the code would change it, under which TLC finds the
property violated. Deadlock checking is off throughout, because every instance
legitimately ends: all requests finished, or a bound reached.

### Bounds and why they are enough

* `fence`: three blocks let one be written, one be loaded and one be copied at
  once; two requests are what a race over a block needs; three steps in flight
  are more than the deployment has. `MaxSteps` and `MaxDeferred` bound numbers
  and queue; the proofs need neither.
* `scheduler`: `Asynchronous` and `Prioritised` have three requests with room
  for two, and four blocks of two tokens where all would need more, so that
  admission, preemption (of oneself, of another, of a request already in the
  step) and resumption happen; one draft is accepted or rejected; three output
  tokens let a request be stale, resume and go on. `Prioritised` has three steps
  in flight. `Streaming` has one running request, so that a session and a
  request with a grammar contend, and two updates, so that one is queued while
  one is processed. `Recurrent` aligns prefills with a drafter in the cache and
  prompts of up to two and a half blocks; `WideBlocks` has a budget below the
  block size, so that a chunk may be clipped to nothing. `Junction` has blocks of
  three and prompts that end beside a block boundary, so that a shared prefix may
  end inside a block. `AtLimit` lets requests run into the model's length with
  two drafts, with one step in flight and with two.
* `stop_gate`: stop strings of up to three characters begin in one step and end
  two later; one list overlaps, the other nests; `min_tokens` is 0 or 2.
* `structured_output`: three drafts hold the end of reasoning, a part of a word
  and EOS; five tokens are two full steps.
* `parser_delta`: seven pieces are a call with an integer and a string parameter,
  or two calls with text between them; arguments come in chunks of any length.
  The second tool's name extends the first's, so that a name sent too early
  would be a valid one.
* `health`: the state is finite as it is; counting stops at the limit of three.
* `replay_ring`: a buffer of five and windows of up to three make flushes come
  after one to three steps and never with the ring at the same place; fourteen
  tokens wrap the ring of eight around almost twice, with a flush on each side
  of a wrap. One block for two requests makes every admission a reuse.
  `MaxResumed` bounds the tokens of a request that is preempted.

### Fairness

Two runs assume fairness.

`live`: weak fairness of the engine loop (`Schedule \/ UpdateFromOutput`), which
is a busy loop as long as `has_requests()` or a step is in flight, and weak
fairness of grammar compilation, which runs in an executor and ends with a
grammar or an error. Aborts, resets and arrivals are not fair: clients may stop
calling.

`health`: weak fairness of `StartProbe` (Docker runs the probe once a minute)
and of `Exit` (PID 1 ends when it is sent SIGTERM: the probe relies on it), and
strong fairness of the steps that end a probe, since Docker's timeout of 60 s
exceeds the 10 s and the 45 s the probe waits for its answers: a probe may be
given up, but not every one at the same step. Nothing is fair about the engine.

## 4. Findings

A. `reset_prefix_cache` with preemption (`scheduler.py:2510`) says that
preempting the running requests brings every block's count to zero. When freeing
is deferred, the blocks of requests with a step in flight are not back, and
the handler raises.

B. A streaming session that stops with its next chunk already queued goes to
`waiting` and keeps its model-runner slot, but the admission loop
(`scheduler.py:756`) counts only running requests and sessions that wait for
input: one request too many can be admitted.

C. A reasoning delimiter amid the answer (`detokenizer.py:178`) moves the stop
floor past text of the same step that has not been searched: a stop string
completed there is missed, though delivered token by token it ends the request,
as `check_stop_strings` promises.

D. When one batch of events holds text, a tool call without an accepted name and
more text, `_events_to_delta` (`parser_engine.py:759`) puts the second text in
front of the first, and strips its newlines as leading ones, where
`patches/README.md:12` leaves inner blank lines untouched. `parse()` takes every
answer as one batch. `parser_delta` therefore keeps text and a later call out of
one delta; with them mixed, text deferred behind one call is also overtaken by
text that comes before the next. A related loss is in the model but in no
property, since nothing in the repository says what is right: text behind a call
in the last delta, and so all text behind an accepted call in `parse()`, is
deferred and never sent.

Three more observations are in no run, each for a stated reason.

* A request admitted with one token to compute is padded with drafts before the
  alignment cuts its tokens (`scheduler.py:934-950`, 971). Cut at a block
  boundary, it keeps more drafts than it has tokens, and their rejection
  (line 1845) takes `num_computed_tokens` back too far. The configuration
  `[Streaming EXCEPT !.aligned = TRUE, !.running = 2, !.structured = {},
  !.max_tokens = 2, !.ops = {}]` shows it as a violation of `ComputedMatches`. It
  takes a session, whose chunks can be one token long, with alignment and drafts
  under synchronous scheduling, which the service does not run.
* A prefill is asked to stop at the junction with a shared prefix only if the
  junction lies before the chunk's end (`scheduler.py:435-437`); the position it
  then stops at is the start of the junction's block. When the last chunk of a
  resumed request, cut by the budget, ends exactly on a junction inside a block,
  there is no such stop, and the chunk jumps over that start: the state for
  siblings with the same prefix is not cached. Nothing computed is wrong, so
  `PrefillStopsAtStates` states the exception. The attempt to prove the property
  without it found it; `Junction` in `MCScheduler` reaches it.
* The first decode step after a preemption in `ReplayRing`, if `GrownPrompts` does
  not hold (section 2). Whether it holds is not in the repository.

## 5. What is proved

`BlockFenceProofs` proves, for any sets of requests and blocks, any depth and
any bounds:

* `TypeCorrect`, the type invariant, in which a fence is at most one step ahead;
* `NoInFlightWrite`: no block a launched step may write is in the pool;
* `LoadsAreIsolated`: a load's destination is out of the reach of launched
  steps, of the pool and of other requests;
* `CopySourcesAreRetained`: a copy's source stays out of the pool until the step
  that runs the copy is processed.

The assumptions are those on the constants. The safety property is not
inductive: that a written block is out of the pool says nothing of what will
hold it after its request is freed. `Inv` adds the reason. `StepsOrdered`:
the launched steps are numbered in order, above `processed_step_seq`.
`WritesGuarded`: each block a step may write is guarded up to that step, either
by a request that holds it and was last run at that step or later, or by a queue
entry whose fence is not below the step (`HeldGuard`, `QueueGuard`).
`CopiesGuarded` is the same for copy sources. `LoadsApart`
keeps the destinations of loads from everything else; `BatchRuns` ties the step
under construction to running requests.

The proof has one lemma per action. Most actions leave the steps alone, and
for them `QuietStep` reduces preservation to three facts: entries are kept, the
guards of runners are kept, loads stay apart. The lemmas on the two queue
operations (`DeferKeeps`, `DrainKeeps`) say that deferring loses nothing and
that draining drops only entries whose fence has passed. `Launch` and
`Process` are proved in full: the first creates guards, the second retires a
step and all it guarded.

`Refinement` (same module): `BlockFence` implements `BlockPool`, for
any constants. What comes back to the pool is settled by the invariant after
the step; what remains is that nothing leaves the pool except by an allocation,
which is a fact about the queue operations. `PoolIsExclusive` (same module, of
`BlockPool` over variables of its own) is what the abstract pool promises.

On the order of the queue, under the same assumptions:

* `FencesAreNearlyOrdered`: an entry's fence leads a later entry's by at most
  one, which bounds what stopping at the first fenced entry can hold back;
* `IdleQueueIsHeldByCopy`: with no non-empty step in flight, the head of the
  queue, if there is one, is a copy retention.

The second is not inductive either. `QueueInv` adds that the head is a fence
still to come (`HeadFenced`: every drain ends there, and an entry is only
appended under such a fence) and that every step number given out and not yet
processed is in flight (`NumbersInFlight`). The latter needs `StepsOrdered` of
`Inv`: the oldest non-empty step is then exactly the next number to be
processed, so counting steps in `processed_step_seq` and reading their numbers
agree. `AppendOrders`, `DeferOrders` and `DrainOrders` are the lemmas on the
queue operations.

`RingAndProbeProofs` proves of the probe `HealthTypeCorrect`, `NoKillBeforeReady` and
`KillTakesThree`.
The invariant that makes them inductive, `FilesEarned`, says that files of this
boot claim no more than what happened since it started: a marker only if a
probe succeeded, a count no higher than the misses since. Nothing is known of
files of another boot, and a probe past its first step has none.

`RingAndProbeProofs` proves of the ring, for any size, buffer, number of drafts,
blocks and requests that the configuration admits (`BufferAssumption` is what it
validates, `RingAssumption` what the size of the ring is computed for):

* `TypeCorrect`: the history never exceeds the buffer, the base stays in the ring;
* `WindowAlwaysFits`: a full window fits behind the history;
* `StaysExact`: if `GrownPrompts`, every decode step evaluates on exactly the
  inputs its request kept.

The first two rest on `CursorsOK`: `is_flush` is set exactly when a window might not
fit after the next one, in every block, used or not. `CommitOK` shows that a
commit keeps it. For the third, `OwnSlots` says that the slots of history and
window are apart although the ring wraps around (the history and a window are
no longer than the ring, and numbers less than a ring apart have different
remainders); `StoredWindow` and `StoredHistory` what a step leaves in the ring;
`DecodeRow` that the next step replays exactly this, with the window's
accepted prefix appended, or, after a flush, starting at the new base
(`SlotOnTheWay`). The invariant adds what a prefill has left in the checkpoint
(`PrefillExact`), that owners are apart, and that a waiting request has nothing.

`SchedulerQueues` and `SchedulerSteps` prove, for any finite set of requests, any
ranks and any configurations that `ConfigsAssumption` admits (so any depth,
budget, block size, number of blocks, drafts, prompts, sessions):

* `QueuesPartition`: a request that was added and has not ended is in one queue,
  once, and in the one its status says;
* `InFlight`: the counters of tokens in flight and of stale output are those of
  the launched steps, the stale ones being the oldest of them;
* `SlotsBounded`: the model runner has a row for everyone it keeps;
* `LoopWakes`: when the loop sleeps, nobody could have been scheduled;
* `StepsWithinBudget`: a launched step spends what the budget says, on running
  requests, once each;
* `PrefillStops`: no prefill chunk jumps over a state to be cached (but for the
  exception of section 4);
* `BlocksCovered`: tables within the pool, and over what is computed. It assumes
  `SessionsUncut`: no configuration has a session whose chunks are cut at block
  boundaries while it drafts. That is the exact limit of the observation on
  `scheduler.py:971`, where the property is false. `BlocksInvariant` proves the
  part about running requests and the pool without it;
* `CountersMatch`: a decoding request has its last token and the placeholders of
  the tokens in flight left to compute, nothing else;
* `TokensStayInPlace`, an action property: every token a request is given was
  sampled by the model runner for exactly that position;
* `TypeCorrect`: the counters of a request (computed, in flight, stale, drafts)
  never run below zero nor its tokens above the model's length, and tables,
  budget and steps in flight stay within their limits.

The last three assume `PaddingUncut`: where recurrent states are aligned and the
service drafts, there are no sessions, and blocks have more than one token (or
the drafts of the last block are left out, as with `eagle`). Without it a chunk
of one token can be cut after it was padded with drafts, the hazard of line
971. It is a little stronger than `SessionsUncut`; every configuration the runs
check satisfies it, and so does the service (blocks of hundreds of tokens, no
sessions). `TypeCorrect` also assumes `SessionsFit`: the chunks of a session,
each with the answer that may follow it, are within the model's length.
`_update_request_as_session` (`scheduler.py:1429-1467`) appends a chunk without
looking at that length, and a session whose chunks outgrow it is out of bounds
from then on. The three hypotheses are at the end of `Scheduler`, and TLC
evaluates them for the configurations of `MCScheduler` (`TheoremsApply`).

None of these is inductive, since all of them speak of the scheduler between two
handlers, or of a finished step, while the handlers take many turns. `Base`
says what holds at every turn, and everything else is proved from it. `Typed`:
types, with counters as integers, since a bound on them is a theorem and not a
type. `Phases`: which locals are empty in which phase, and that a step under way
counts among the `Depth`. `StepsSound`, `BatchSound`: a request has one entry in
a step, and those of the step under construction are running and before the
cursor of the loop, which is why a victim of a preemption that is in the step
moves the cursor. `Queues`: the two waiting queues and the requests `schedule()`
has set aside hold together those that wait; the requests that stopped during
`update_from_output` are still where they were (`stopped`) until it removes
them, and this is the difference between list and status that makes the handler
delicate: a request that stopped while preempted is finished and still queued.

`Base` is proved action by action: `schedule()`, `update_from_output()`, the
handlers. The other invariants are about counters, and going through all
actions for each would repeat the same work. The actions are therefore
classified once by what they do to the statuses (`StatusStep`: nothing, preempt
a set, admit one, launch, finish a set, turn a session) and once by what they do
to counters and tables (`CounterStep`: nothing, grow one, lose some, launch,
take a step back, answer one, end some). Then

* `Slots` adds to `SlotsBounded` that `num_waiting_for_streaming_input` counts the
  paused sessions and that every row is held by a running request, a paused
  session, or one the runner is about to be told of;
* `BudgetKept` adds that the tokens asked for the request at the cursor fit the
  budget left while its victims are evicted one by one, the loop's way to retry;
* `ChunksKept` adds that these tokens too stop at a state to be cached, since
  they were clipped before the first eviction;
* `BlocksKept` follows the tables through the entries of the step under
  construction, `Computed` the requests without blocks: they have computed
  nothing, and no answer can make it less, because drafts never outnumber the
  tokens of their step;
* `InFlightKept` says of the stale counter that it is zero or all of the oldest
  `n` steps, the step being taken back included, for some `n`;
* `Tokens` is about every request and what is in flight for it, in one formula,
  because none of its counters is settled by itself. `Tracked` follows a request
  through the steps from the one being taken back to the one being built:
  `Lane` adds up the tokens (`t`) and the sampled tokens (`d`) these hold of it.
  Then there is one `k` such that the oldest `k` steps are its stale ones and the
  rest is what its computed tokens run ahead of those it has (`Ahead`).
  `InOrder` is about the runner: of the steps not dropped, only the first with an
  entry may tell it how many tokens the request has, and if none does, the
  runner's count is right. A preemption makes all steps stale, and the runner
  learns the count again on resumption; that the old steps come back first, and
  are dropped or delivered before it, is what `InOrder` is for. A delivery in the
  middle of a step whose drafts were rejected is where all of it is used
  (`OutputInPlace`): the position sampled for is the runner's count, the count is
  the request's;
* `Bounded` says that a request that is not a paused session has room for another
  token, that an entry of the step under construction, and the tokens wanted for
  the request at the cursor, end within the model's length, and (`Fed`) that the
  prompt of a session has grown by one turn for each chunk it has taken up. The
  entries matter because tokens count as computed when the step is launched, in
  one action for the whole batch. That the tokens in flight, the stale ones and the
  placeholders never run below zero is not among its parts: it follows from
  `Tokens`, where they are sums over steps in flight.

`Tracked` for a step (launched, taken back, dropped, answered) is proved on
sequences of steps alone, without the scheduler, and each `CounterStep` is then
one of these moves.

Sums over sets and sequences are folds of the community modules, defined by a
`CHOOSE` over a recursive function. `FoldLemmas` proves that this function
exists, that a sum does not depend on the order of its terms, and what one more
or one changed term does. The library's induction theorems take an operator
and cannot be used; the induction is on a least counterexample, from the
well-foundedness of the naturals, with the property as a set.

`StructuredOutputProofs` proves, for any automaton as the grammar (every state
of which leads on or accepts), any vocabulary, any number of drafts and any
`max_tokens`, all five invariants of `StructuredOutput`:

* `TypeCorrect`: one mask per draft and one more, none of them empty;
* `TracksAnswer`: between steps the matcher stands at the end of the answer;
* `Grammatical`: the answer is a prefix of a word of the grammar;
* `Accepted`: no scheduled draft and no committed token is refused;
* `LongestValid`: no draft is cut that the grammar allows.

The grammar is an assumption only in that; of the tokens it is assumed that EOS,
the delimiter and the padding (`-1`) are no tokens the grammar speaks of.
`Inv` has three parts. `Types`: types, and no error. `Committed` is the second
and the third property together: the answer is a prefix of a word, and while the
request runs it has no EOS, there is room for a token, the matcher stands at
the end of the answer and `reasoning_ended` tells whether the delimiter was
written. This is not inductive, since a step samples under masks computed by
an earlier action, from drafts validated by a still earlier one. `Prepared` carries
both over: the scheduled drafts are the valid part of the proposed ones with
padding behind, and the mask of position `i` is what the grammar allows after the
first `i - 1` of them (`MaskAt`).

The answer and the reasoning before it are treated alike. `Constrained(b, s)`
is the part of some tokens that the grammar constrains if the model reasons
before them (`b`), `Open(b, s)` says that the constraint is on after them, and
`ConstrainedConcat` shows how both go on over two lists; every use the code makes of
the delimiter (`get_constraint_start` on drafts, on stripped drafts, on
sampled tokens, and `Answer` on the whole output) is an instance. `AllowedConcat`
does the same for the grammar. What is left are the two walks. `WalkThrough`
follows `FillPosition` through the drafts: after `k` of them the matcher is
`Walked` over the constrained ones among the first `k`, and `advanced` is their
number. `WalkBack` is why `rollback` has a lag: if the last draft is an EOS and the
matcher had stopped before it, `advanced` counts a token that was not
consumed. `NewTokens` shows that what is sampled under the masks, accepted
drafts first, then cut at an EOS, is allowed after the answer, and `Accepts`
that the matcher takes it. `Run` and the walk are folds, so their steps come
from tables, as the sums do (`RunSteps`, `FillSteps`).

`StopGateProofs` proves, for any stop lists (none of the strings empty), any
texts of tokens, any `min_tokens`, chunk and answer lengths, deltas or cumulative
text, with the stop string kept or cut:

* `TypeCorrect`;
* `SentStands`: what the client was sent is a beginning of the text the request
  has, at every moment, and all of it in the end, reasoning blocks anywhere;
* `ChunksMatchSingle`: stop and text are those of token-by-token delivery;
* `EndsAtFirstStop`: a stop string ends the request exactly if one is completed
  behind the reasoning and past the first `min_tokens` tokens, and the text is cut
  at the one that ends first; otherwise all of the text stays.

The last two assume `~Reenters`, a model that does not write a reasoning delimiter
amid its answer. Where it does they are false, which is finding C.

Two folds are compared here, over the tokens of one step and over the steps, and
each could have been taken through an induction of its own. `Answer(u, stop,
text)` avoids that: it says what some tokens `u` leave, by the text of all of
them, where the reasoning ends (`Floor`) and from where stop strings count
(`Free`), without a detokenizer. `Answering` is the invariant that both
detokenizers have the answer of all tokens given. `CheckFinds` says what the search of
one step finds: the stop string that ends first among those that end past
what was checked before. That this is the first of the whole text needs that
none had counted before the step, which holds because the request would have
ended there, and that the floor does not move over text not yet searched, which
is where `~Reenters` comes in.

`Sending`, for the client, needs none of that: whatever stop string is found next
ends past the text already there, so at most its length less one lies in
it, and this is what `stop_buffer_length` holds back (`Held`).
`TextsAssumption` says that texts are sequences of their own characters.

`ParserDeltaProofs` proves, for any tools and requests, answers and deltas of any
size, with white space dropped or kept wherever the settings allow either:

* `TypeCorrect`: among others, the calls whose name was sent have an id each, of
  those given out, and the others have none;
* `ReasoningStays`: the client's reasoning is the model's up to its last visible
  character, after every delta;
* `ContentStays`: as long as there are no calls, what was sent and what waits are
  the model's text, less the newlines behind the reasoning, and in the end it
  is what `parse()` gives for the whole answer;
* `InnerTextStays`: with calls, the same holds from the first visible character
  on. It assumes `~Mixes`, no delta with text in front of a call; with such
  deltas text changes places, which is finding D.

Again two folds are compared, over the events of a delta and over the deltas.
`AlongReasoning` and `AlongContent` follow the first event by event: what the
events so far put together is their text, up to a call in the content of the
delta, behind it in what waits. `IsOut` says what the code behind the loop
makes of it. The invariant, `ParsedInv`, is about the second.
`Lexed` is what events can follow each other; an answer starts in its reasoning or
has none. `ReasoningSent` adds to the property that what waits is exactly what was
cut off, without which the next cut would lose white space
(`ReasoningGoesOn`). `ContentSent` adds that nothing was sent before something
visible came, which is why the leading newlines can be stripped of what is
there so far (`ContentGoesOn`), delta by delta; `InnerSent` that nothing visible
was, which is why white space can be dropped between calls (`InnerGoesOn`).

* `CallsStay`: at the end the client has put together the calls that `parse()`
  finds in the whole answer, in their order, with their ids and names, and with
  their arguments to the last character.

This one compares what was sent of a call, piece by piece, each piece cut from
another conversion of the arguments so far, with one conversion of all of them.
Four facts make it true, each of them followed event by event:

1. *Where the calls are.* `Moved` reads off the kinds of the events which call is
   open and whether its name or its arguments come next. So an event of a call is
   about the last slot, and slots before it are complete (`SlotsAt`).
2. *A safe prefix only grows.* The raw arguments are read by a fold, so more of
   them leave the parameters before the last one as they are. The safe prefix
   ends at the last parameter's key, or in its value when no type but string can
   come of it, and so it is a prefix of the safe prefix and of the JSON of
   every continuation. Were it cut anywhere else, what was sent could
   not be continued: that is the mutant `AnyKey`.
3. *What is told is what was missing.* `Told` says what the client learns of a call
   in one delta, `Shows` what it has of all of them: one entry for each slot
   whose name was sent, in their order, with what the slot has streamed. That
   begins the safe prefix (`InArgs`; not all of it, since some characters cause no
   conversion), and is all of the JSON once the call has ended (`Over`). A
   delta may hold several pieces of several calls; `_coalesce_tool_call_deltas` puts together those of a call, in a fold
   over the pieces.
4. *The slots do not depend on the deltas.* Text that waits, which does, never
   changes a slot (`SameCalls`), so after the same events the slots are those of
   one batch, from which `parse()` extracts the calls.

The invariant, `CallsInv`, says that there are positions and a run of the parser
over all the events as one batch with which these hold. `SymbolsAssumption` is used
for the second: the quote around a string is neither a key nor a letter, and the
closing brace is no key. An escaped quote inside a value would be a letter of its own.

Proof attempts changed a few things in the models. `strip_speculative_padding`
of `StructuredOutput` dropped every padding where the code cuts at the first
one (`structured_output__init__.py:34-39`): the same on the drafts that occur,
but only once that is proved (`Stripped`). `NumNewTokens` could be
negative, where the code takes the maximum with zero
(`scheduler.py:455-474`). `RunnerSlotsBounded` was stated of every turn; a forced
reset does not take rows back until the next step is launched, and while that
step is built the bound does not hold and is not needed. And `PrefillStopsAtStates`
was too strong. One thing they found stays outside the model: a session with two
drafts or more that stops at an EOS inside accepted drafts has computed more
tokens than it keeps, and if its next chunk is no longer than the difference,
the assertion that a waiting request has tokens to schedule (`scheduler.py:967`)
fails. The model never admits such a request; the service sends no sessions.

Only model-checked: liveness (`EveryRequestEnds`, `HungIsRestarted`), which is
beyond the prover. Every other property of a passing run is stated by a theorem.

## 6. Not modelled

* Model definitions, kernels, graph capture and image build: tensor and GPU
  code without state that outlives a call.
* Failed loads of KV connectors (`scheduler.py:2816-2988`): the service
  configures no connector, the replay patch refuses one, and the code takes a
  model with one KV group, which this hybrid one is not. What a load does to
  blocks is in `BlockFence`.
* Streaming sessions under asynchronous scheduling (`ConfigsAssumption` excludes
  them). Read from the code, a session that stops while preempted is put into a
  waiting queue and taken out of it again by one call (`scheduler.py:2019`).
* Calibration, prompt sets, audits and benchmarks, the allocation of formats,
  the sensitivity scan and the divergence scorer: batch programs run by hand,
  sequential, over files and floating-point scores. One of them has a hazard of
  the kind listed here, the torn last line of `score.py:169`.
* The rewriting of JSON schemas; statistics, events and logging. Results and
  diffs are data.

## 7. What could be added

1. Sessions under asynchronous scheduling in `Scheduler`.
2. An abstract engine that emits each request's tokens once and in order,
   implemented by `Scheduler`; a detokenizer that sees all text at once,
   implemented by `StopGate`.
3. The entry points of the parser that extract from reasoning-stripped content.
