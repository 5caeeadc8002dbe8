------------------------------ MODULE Scheduler ------------------------------
(***************************************************************************)
(* The scheduler of src/patches/files/scheduler.py, between the engine     *)
(* loop that calls it and the model runner that executes its steps.        *)
(*                                                                         *)
(* The engine thread runs one handler at a time.  schedule() is one action *)
(* per request that it considers, from BeginSchedule to Commit, and        *)
(* update_from_output() one action per request of the step, from           *)
(* BeginOutput to EndOutput; pc says where in them the thread is, and the  *)
(* other handlers run between them (pc = "idle").  Up to Depth steps are   *)
(* launched and not yet processed.                                         *)
(*                                                                         *)
(* A request is the counters the code keeps for it: tokens are counted,    *)
(* not stored, and a KV-cache block is a unit of a pool of NumBlocks.      *)
(***************************************************************************)
EXTENDS Integers, RequestQueue

CONSTANT Configs \* the configurations and workloads to consider

ASSUME ConfigsAssumption ==
  \A c \in Configs :
    /\ c.policy \in Policies
    /\ {c.depth, c.budget, c.running, c.block_size, c.max_tokens} \subseteq Nat \ {0}
    /\ {c.blocks, c.spec, c.max_len, c.max_chunks} \subseteq Nat
    /\ {c.aligned, c.eagle, c.kv_delivery} \subseteq BOOLEAN
    /\ c.prompt \in [Reqs -> 1 .. c.max_len - 1]
    \* Streaming input is modelled under synchronous scheduling only.
    /\ c.sessions # {} => c.depth = 1

VARIABLES
  config,      \* the configuration, chosen once
  pc,          \* handler the engine thread is in
  request,     \* the Request records
  held,        \* number of KV blocks on each request's block table
  waiting, skipped_waiting, running, \* the queues
  finished_req_ids, reset_preempted_req_ids, \* told to the workers with the next step
  num_waiting_for_streaming_input,
  grammar_compile_error_reqs,
  pause_state,
  grammar,     \* what has become of a request's grammar compilation
  chunks,      \* input chunks sent to each session
  inflight,    \* FIFO of steps launched and not yet processed
  slots,       \* requests that hold a slot of the model runner
  sampled,     \* tokens the model runner has for each request
  loc,         \* locals of schedule()
  todo,        \* entries of the step that update_from_output has not reached
  stopped      \* locals stopped_running_reqs and stopped_preempted_reqs

queues == <<waiting, skipped_waiting, running>>
notices == <<finished_req_ids, reset_preempted_req_ids>>
env == <<config, grammar, chunks>>
worker == <<inflight, slots, sampled>>
output == <<todo, stopped>>
vars == <<pc, request, held, queues, notices, num_waiting_for_streaming_input,
          grammar_compile_error_reqs, pause_state, env, worker, loc, output>>

-----------------------------------------------------------------------------
(* The configuration.                                                      *)

Depth == config.depth             \* max_concurrent_batches; asynchronous when over 1
Policy == config.policy           \* "fcfs" or "priority"
MaxRunning == config.running      \* max_num_running_reqs
TokenBudget == config.budget      \* max_num_scheduled_tokens (and max_num_batched_tokens)
NumBlocks == config.blocks        \* num_gpu_blocks
BlockSize == config.block_size    \* tokens per block
Aligned == config.aligned         \* need_mamba_block_aligned_split
UseEagle == config.eagle          \* the drafter shares the target's cache (MTP)
NumSpec == config.spec            \* num_spec_tokens (and num_lookahead_tokens)
MaxModelLen == config.max_len     \* max_model_len
KvDelivery == config.kv_delivery  \* requires_kv_delivery

\* The workload: the requests sent, their prompts and limit, those with a
\* grammar, the sessions with streaming input, the chunks each is sent after
\* the first, and the handlers that may run besides the engine loop.
Clients == config.clients
PromptLen == config.prompt
MaxTokens == config.max_tokens
Structured == config.structured
Sessions == config.sessions
MaxChunks == config.max_chunks
Ops == config.ops

-----------------------------------------------------------------------------
(* Requests.                                                               *)

Blocked == {"WAITING_FOR_STRUCTURED_OUTPUT_GRAMMAR", "WAITING_FOR_STREAMING_REQ"}
Statuses == Blocked \cup {"NEW", "WAITING", "PREEMPTED", "RUNNING", "FINISHED"}

NewRequest(r) ==
  [status |-> "NEW", num_tokens |-> PromptLen[r], num_prompt_tokens |-> PromptLen[r],
   num_computed_tokens |-> 0, num_output_placeholders |-> 0,
   num_in_flight_tokens |-> 0, num_stale_output_tokens |-> 0,
   drop_stale_output |-> FALSE, num_spec |-> 0, is_prefill_chunk |-> FALSE,
   shared_prefix_boundary |-> 0, streaming_queue |-> <<>>]

\* A finished request leaves `requests`; nothing of it is read again.
Gone(r) == [NewRequest(r) EXCEPT !.status = "FINISHED"]

Live(r) == request[r].status \notin {"NEW", "FINISHED"}
LiveReqs == {r \in Reqs : Live(r)}

AtLeast(n, m) == IF n < m THEN m ELSE n
AtMost(n, m) == IF n > m THEN m ELSE n

\* _preempt_request: the output still in flight becomes stale.
Preempted(q, drop) ==
  [q EXCEPT !.status = "PREEMPTED", !.num_computed_tokens = 0, !.num_spec = 0,
            !.drop_stale_output = drop \/ (q.drop_stale_output
                                           /\ q.num_stale_output_tokens > 0),
            !.num_stale_output_tokens = q.num_in_flight_tokens,
            !.num_output_placeholders = 0]

\* _update_request_as_session: the tokens that were computed stay, as prompt,
\* and the next chunk (one token here) is added to them.
UpdatedSession(q) ==
  LET kept == AtMost(q.num_tokens, q.num_computed_tokens)
  IN  [q EXCEPT !.status = "WAITING", !.num_tokens = kept + 1,
                !.num_prompt_tokens = AtLeast(kept, q.num_prompt_tokens) + 1]

-----------------------------------------------------------------------------
(* KV-cache blocks (the pool of the KV-cache manager).                     *)

FreeBlocks == NumBlocks - SumFunction(held)

BlocksFor(n) == (AtMost(n, MaxModelLen) + BlockSize - 1) \div BlockSize

\* Blocks on the table of r once n tokens and the lookahead are allocated.
TableSize(r, computed, n) == AtLeast(BlocksFor(computed + n + NumSpec), held[r])

\* Mutant: one block too many is given away.
FitsTooMuch(r, computed, n) == TableSize(r, computed, n) - held[r] <= FreeBlocks + 1

Fits(r, computed, n) == TableSize(r, computed, n) - held[r] <= FreeBlocks

\* The prefix-cache lookup finds a whole number of blocks and never the last
\* token: nothing, or as much as possible.
CacheHits(q) == {0, ((q.num_tokens - 1) \div BlockSize) * BlockSize}

\* Where the prompt was seen to share a prefix with others, when the lookup
\* finds no recurrent state that goes with it.
Junctions(q, hit) == IF Aligned /\ hit = 0 THEN {0, q.num_tokens - 1} ELSE {0}

-----------------------------------------------------------------------------
(* Prefill chunks that end where recurrent state can be cached ("align").  *)

FloorToBlock(n) == (n \div BlockSize) * BlockSize

PrefillEnd(q) == AtLeast(q.num_prompt_tokens, q.num_tokens - 1)

\* The last position whose state can be cached; a drafter that shares the
\* cache prunes the last matching block.
LastCachePosition(q) ==
  AtLeast(FloorToBlock(q.num_tokens) - (IF UseEagle THEN BlockSize ELSE 0), 0)

\* Mutant: a chunk that starts inside a block runs past its boundary.
MandatoryStopsMidBlock(q, start, end) ==
  {LastCachePosition(q)} \cup
  (IF start < q.shared_prefix_boundary /\ q.shared_prefix_boundary < end
   THEN {start + FloorToBlock(q.shared_prefix_boundary - start)} ELSE {})

\* Positions a chunk from start to end may not run past.
MandatoryStops(q, start, end) ==
  {LastCachePosition(q)} \cup
  (IF start % BlockSize # 0 THEN {FloorToBlock(start) + BlockSize} ELSE {}) \cup
  (IF start < q.shared_prefix_boundary /\ q.shared_prefix_boundary < end
   THEN {start + FloorToBlock(q.shared_prefix_boundary - start)} ELSE {})

\* Mutant: a chunk stops at a position it starts from.
AlignedSplitNotStrict(q, start, end) ==
  IF start >= PrefillEnd(q) THEN end - start
  ELSE LET stop == IF /\ end < PrefillEnd(q)
                      /\ FloorToBlock(end) > start \/ BlockSize <= TokenBudget
                   THEN FloorToBlock(end) ELSE end
       IN  Max({0, Min({stop} \cup {s \in MandatoryStops(q, start, stop) : s >= start}) - start})

\* _mamba_block_aligned_split: the tokens from start to end, cut where the state
\* must be cached; nothing when they do not reach a block boundary, unless a
\* block is wider than any chunk.
AlignedSplit(q, start, end) ==
  IF start >= PrefillEnd(q) THEN end - start
  ELSE LET stop == IF /\ end < PrefillEnd(q)
                      /\ FloorToBlock(end) > start \/ BlockSize <= TokenBudget
                   THEN FloorToBlock(end) ELSE end
       IN  Max({0, Min({stop} \cup {s \in MandatoryStops(q, start, stop) : s > start}) - start})

Split(q, start, n) ==
  IF Aligned THEN Min({AlignedSplit(q, start, end) : end \in {start + n}}) ELSE n

-----------------------------------------------------------------------------
Idle == [idx |-> 1, token_budget |-> 0, want |-> 0, batch |-> <<>>,
         preempted |-> FALSE, prefill_scheduled |-> FALSE, step_skipped |-> <<>>]

NobodyStopped == [running |-> {}, preempted |-> {}]

Init ==
  /\ config \in Configs
  /\ pc = "idle"
  /\ request = [r \in Reqs |-> NewRequest(r)]
  /\ held = [r \in Reqs |-> 0]
  /\ waiting = <<>> /\ skipped_waiting = <<>> /\ running = <<>>
  /\ finished_req_ids = {} /\ reset_preempted_req_ids = {}
  /\ num_waiting_for_streaming_input = 0
  /\ grammar_compile_error_reqs = {}
  /\ pause_state = "UNPAUSED"
  /\ grammar = [r \in Reqs |-> IF r \in Structured THEN "compiling" ELSE "none"]
  /\ chunks = [r \in Reqs |-> 0]
  /\ inflight = <<>> /\ slots = {} /\ sampled = [r \in Reqs |-> 0]
  /\ loc = Idle
  /\ todo = <<>> /\ stopped = NobodyStopped

-----------------------------------------------------------------------------
(* schedule(): the running requests.                                       *)

NumUnfinished ==
  CASE pause_state = "PAUSED_ALL" -> 0
    [] pause_state = "PAUSED_NEW" -> Len(running)
    [] OTHER -> Len(waiting) + Len(skipped_waiting)
                - num_waiting_for_streaming_input + Len(running)

has_requests == NumUnfinished > 0 \/ finished_req_ids # {}

\* The engine loop calls schedule() when there is work and room for a step.
BeginSchedule ==
  /\ pc = "idle" /\ has_requests /\ Len(inflight) < Depth
  /\ pc' = "running"
  /\ loc' = [Idle EXCEPT !.token_budget = IF pause_state = "PAUSED_ALL" THEN 0
                                          ELSE TokenBudget]
  /\ UNCHANGED <<request, held, queues, notices, num_waiting_for_streaming_input,
                 grammar_compile_error_reqs, pause_state, env, worker, output>>

RunningTurn == pc = "running" /\ loc.idx <= Len(running) /\ loc.token_budget > 0

\* The last step in flight is sure to reach max_tokens.
LengthIsSure(q) ==
  /\ q.num_output_placeholders > 0
  /\ q.num_computed_tokens + 2 - q.num_output_placeholders
       >= q.num_prompt_tokens + MaxTokens

\* Tokens to schedule for a running request; fixed when its turn comes.  None
\* for one that has reached the model's length, where the minimum may be below
\* zero (_reserve_prefill_lookahead returns at least zero).
NumNewTokens(q) ==
  IF loc.want > 0 THEN loc.want
  ELSE AtLeast(Split(q, q.num_computed_tokens,
                 Min({q.num_tokens + q.num_spec + q.num_output_placeholders
                        - q.num_computed_tokens,
                      loc.token_budget, MaxModelLen - q.num_computed_tokens - 1})), 0)

SkipRunning ==
  /\ RunningTurn
  /\ LET q == request[running[loc.idx]]
     IN  LengthIsSure(q) \/ NumNewTokens(q) = 0
  /\ loc' = [loc EXCEPT !.idx = @ + 1]
  /\ UNCHANGED <<pc, request, held, queues, notices, num_waiting_for_streaming_input,
                 grammar_compile_error_reqs, pause_state, env, worker, output>>

\* Draft tokens that fit in the n tokens scheduled for a running request.
NumDrafts(q, n) ==
  AtMost(q.num_spec, AtLeast(n + q.num_computed_tokens - q.num_tokens
                               - q.num_output_placeholders, 0))

ScheduleRunning ==
  /\ RunningTurn
  /\ LET r == running[loc.idx]
         q == request[r]
         n == NumNewTokens(q)
     IN  /\ ~LengthIsSure(q) /\ n # 0
         /\ Fits(r, q.num_computed_tokens, n)
         /\ held' = [held EXCEPT ![r] = TableSize(r, q.num_computed_tokens, n)]
         /\ loc' = [loc EXCEPT !.idx = @ + 1, !.want = 0, !.token_budget = @ - n,
                               !.prefill_scheduled = @ \/ q.is_prefill_chunk,
                               !.batch = Append(@, [req |-> r, n |-> n, new |-> FALSE,
                                   drafts |-> NumDrafts(q, n), padded |-> FALSE])]
         /\ request' = [request EXCEPT ![r].num_spec = 0]
  /\ UNCHANGED <<pc, queues, notices, num_waiting_for_streaming_input,
                 grammar_compile_error_reqs, pause_state, env, worker, output>>

\* Mutant: the victim's tokens are not returned to the step.
WithoutVictimLeaky(v) ==
  LET i == SelectInSeq(running, LAMBDA s : s = v)
  IN  [loc EXCEPT !.idx = IF i < @ THEN @ - 1 ELSE @,
                  !.preempted = TRUE]

\* The loop's locals once v has left `running` and the batch.
WithoutVictim(v) ==
  LET i == SelectInSeq(running, LAMBDA s : s = v)
      restored == {j \in DOMAIN loc.batch : loc.batch[j].req = v}
  IN  [loc EXCEPT !.idx = IF i < @ THEN @ - 1 ELSE @,
                  !.token_budget = @ + SumFunction([j \in restored |-> loc.batch[j].n]),
                  !.batch = remove_requests(@, {@[j] : j \in restored}),
                  !.preempted = TRUE]

\* The blocks of a running request do not fit: the last request of `running`,
\* or the one of lowest priority, is preempted.  When that is the request
\* itself, nothing more is scheduled in this step.
PreemptForRunning ==
  /\ RunningTurn
  /\ LET r == running[loc.idx]
         q == request[r]
         n == NumNewTokens(q)
         v == IF Policy = "priority" THEN Greatest(ToSet(running)) ELSE Last(running)
     IN  /\ ~LengthIsSure(q) /\ n # 0
         /\ ~Fits(r, q.num_computed_tokens, n)
         /\ running' = remove_requests(running, {v})
         /\ waiting' = prepend_request(waiting, v)
         /\ request' = [request EXCEPT ![v] = Preempted(@, KvDelivery)]
         /\ held' = [held EXCEPT ![v] = 0]
         /\ reset_preempted_req_ids' = reset_preempted_req_ids \cup {v}
         /\ loc' = [WithoutVictim(v) EXCEPT !.want = IF v = r THEN 0 ELSE n]
         /\ pc' = IF v = r THEN "commit" ELSE pc
  /\ UNCHANGED <<skipped_waiting, finished_req_ids, num_waiting_for_streaming_input,
                 grammar_compile_error_reqs, pause_state, env, worker, output>>

\* The waiting requests get their turn unless a running one was preempted.
EndRunning ==
  /\ pc = "running" /\ ~RunningTurn
  /\ pc' = IF ~loc.preempted /\ pause_state = "UNPAUSED" THEN "waiting" ELSE "commit"
  /\ UNCHANGED <<request, held, queues, notices, num_waiting_for_streaming_input,
                 grammar_compile_error_reqs, pause_state, env, worker, loc, output>>

-----------------------------------------------------------------------------
(* schedule(): the waiting requests.                                       *)

\* _select_waiting_queue_for_scheduling
FromSkipped ==
  IF Policy = "fcfs" THEN ~IsEmpty(skipped_waiting)
  ELSE \/ IsEmpty(waiting)
       \/ /\ ~IsEmpty(skipped_waiting)
          /\ Rank[peek_request(Policy, skipped_waiting)] < Rank[peek_request(Policy, waiting)]

Candidate == peek_request(Policy, IF FromSkipped THEN skipped_waiting ELSE waiting)

PopCandidate ==
  /\ skipped_waiting' = IF FromSkipped THEN pop_request(Policy, skipped_waiting) ELSE skipped_waiting
  /\ waiting' = IF FromSkipped THEN waiting ELSE pop_request(Policy, waiting)

\* Mutant: one request too many is admitted.
WaitingTurnOffByOne ==
  /\ pc = "waiting"
  /\ ~IsEmpty(waiting) \/ ~IsEmpty(skipped_waiting)
  /\ loc.token_budget > 0
  /\ Len(running) + num_waiting_for_streaming_input <= MaxRunning

WaitingTurn ==
  /\ pc = "waiting"
  /\ ~IsEmpty(waiting) \/ ~IsEmpty(skipped_waiting)
  /\ loc.token_budget > 0
  /\ Len(running) + num_waiting_for_streaming_input < MaxRunning

\* _try_promote_blocked_waiting_request: a compiled grammar unblocks.
Promoted(r) ==
  IF request[r].status = "WAITING_FOR_STRUCTURED_OUTPUT_GRAMMAR" /\ grammar[r] = "ready"
  THEN [request[r] EXCEPT !.status = "WAITING"] ELSE request[r]

\* Mutant: stale output in flight does not hold a request back.
MayResumeEarly(q) == q.status \notin Blocked

\* A waiting request may be admitted: it is not blocked, and none of its
\* output that will still be delivered is in flight.
MayResume(q) ==
  /\ q.status \notin Blocked
  /\ ~(q.num_stale_output_tokens > 0 /\ ~q.drop_stale_output)

\* The candidate stays blocked; it is set aside for this step.
SkipWaiting ==
  /\ WaitingTurn
  /\ LET r == Candidate
     IN  /\ ~MayResume(Promoted(r))
         /\ PopCandidate
         /\ loc' = [loc EXCEPT !.step_skipped = prepend_request(@, r)]
         /\ request' = [request EXCEPT ![r] = Promoted(r)]
         /\ grammar_compile_error_reqs' =
              grammar_compile_error_reqs \cup
                (IF /\ request[r].status = "WAITING_FOR_STRUCTURED_OUTPUT_GRAMMAR"
                    /\ grammar[r] = "failed" THEN {r} ELSE {})
  /\ UNCHANGED <<pc, held, running, notices, num_waiting_for_streaming_input,
                 pause_state, env, worker, output>>

\* A new decode request among running decodes is padded to the draft length.
Padded(rest) ==
  /\ NumSpec > 0 /\ rest = 1
  /\ \E j \in DOMAIN loc.batch : ~loc.batch[j].new
  /\ ~loc.prefill_scheduled

\* The prefix-cache lookup of the candidate q: the tokens computed before it is
\* admitted, and what it learns of shared prefixes.  None is made for a request
\* that has computed tokens.
Lookups(q) ==
  IF q.num_computed_tokens > 0 THEN {[q |-> q, computed |-> q.num_computed_tokens]}
  ELSE UNION {{[q |-> [q EXCEPT !.shared_prefix_boundary = junction], computed |-> hit] :
                 junction \in Junctions(q, hit)} : hit \in CacheHits(q)}

AdmitTokens(q, computed) ==
  LET rest == q.num_tokens - computed
  IN  Split(q, computed, IF Padded(rest) THEN 1 + NumSpec ELSE AtMost(rest, loc.token_budget))

\* The candidate r, as q, can be admitted: the step has room for it, and the
\* pool for its tokens and for the whole sequence (scheduler_reserve_full_isl).
CanAdmit(r, q, computed) ==
  LET n == AdmitTokens(q, computed)
  IN  /\ Padded(q.num_tokens - computed) =>
           1 + NumSpec <= loc.token_budget /\ computed + 1 + NumSpec <= MaxModelLen
      /\ n > 0
      /\ Fits(r, computed, n)
      /\ AtLeast(BlocksFor(q.num_tokens), held[r]) - held[r] <= FreeBlocks

Admit(found) ==
  /\ WaitingTurn
  /\ LET r == Candidate
         q == found.q
         computed == found.computed
         n == AdmitTokens(q, computed)
         pad == Padded(q.num_tokens - computed)
     IN  /\ MayResume(q) /\ CanAdmit(r, q, computed)
         /\ PopCandidate
         /\ running' = Append(running, r)
         /\ held' = [held EXCEPT ![r] = TableSize(r, computed, n)]
         /\ request' = [request EXCEPT ![r] = [q EXCEPT !.status = "RUNNING",
                                                        !.num_computed_tokens = computed]]
         /\ loc' = [loc EXCEPT !.token_budget = @ - n,
                               !.batch = Append(@, [req |-> r, n |-> n, new |-> TRUE,
                                  drafts |-> IF pad THEN NumSpec ELSE 0, padded |-> pad])]
  /\ UNCHANGED <<pc, notices, num_waiting_for_streaming_input,
                 grammar_compile_error_reqs, pause_state, env, worker, output>>

\* The skipped requests go back, ahead of the older skipped ones.
Requeue ==
  /\ skipped_waiting' = prepend_requests(skipped_waiting, loc.step_skipped)
  /\ loc' = [loc EXCEPT !.step_skipped = <<>>]
  /\ pc' = "commit"
  /\ UNCHANGED <<held, waiting, running, notices, num_waiting_for_streaming_input,
                 grammar_compile_error_reqs, pause_state, env, worker, output>>

\* The candidate does not fit: no request behind it is considered.
StopWaiting(found) ==
  /\ WaitingTurn
  /\ MayResume(found.q) /\ ~CanAdmit(Candidate, found.q, found.computed)
  /\ request' = [request EXCEPT ![Candidate] = found.q]
  /\ Requeue

EndWaiting ==
  /\ pc = "waiting" /\ ~WaitingTurn
  /\ Requeue
  /\ UNCHANGED request

-----------------------------------------------------------------------------
(* The end of schedule(): the step is launched.                            *)

\* Mutant: the drafts of a scheduled request get no placeholders.
AdvancedWithoutDrafts(q, n, drafts) ==
  LET computed == q.num_computed_tokens + n
      chunk == computed < q.num_tokens + q.num_output_placeholders
      async == Depth > 1 /\ ~chunk
  IN  [q EXCEPT !.num_computed_tokens = computed,
                !.num_in_flight_tokens = @ + n,
                !.is_prefill_chunk = chunk,
                !.num_output_placeholders = IF async THEN @ + 1 ELSE @,
                !.num_spec = IF async THEN NumSpec ELSE @]

\* _update_after_schedule for a request given n tokens, `drafts` of them
\* drafts.  Under asynchronous scheduling the tokens to be sampled get
\* placeholders, and the next drafts are placeholders too.
Advanced(q, n, drafts) ==
  LET computed == q.num_computed_tokens + n
      chunk == computed < q.num_tokens + q.num_output_placeholders
      async == Depth > 1 /\ ~chunk
  IN  [q EXCEPT !.num_computed_tokens = computed,
                !.num_in_flight_tokens = @ + n,
                !.is_prefill_chunk = chunk,
                !.num_output_placeholders = IF async THEN @ + 1 + drafts ELSE @,
                !.num_spec = IF async THEN NumSpec ELSE @]

Entry(r) == CHOOSE e \in ToSet(loc.batch) : e.req = r

Commit ==
  /\ pc = "commit"
  /\ LET batch == {e.req : e \in ToSet(loc.batch)}
         next == [r \in Reqs |-> IF r \in batch
                    THEN Advanced(request[r], Entry(r).n, Entry(r).drafts) ELSE request[r]]
     IN  /\ request' = next
         /\ inflight' = Append(inflight,
              [j \in DOMAIN loc.batch |->
                 LET e == loc.batch[j]
                 IN  [req |-> e.req, n |-> e.n, drafts |-> e.drafts, padded |-> e.padded,
                      samples |-> ~next[e.req].is_prefill_chunk,
                      prefix |-> IF e.new THEN request[e.req].num_tokens ELSE 0]])
         /\ slots' = ((slots \ finished_req_ids) \ reset_preempted_req_ids) \cup batch
         /\ finished_req_ids' = {}
  /\ sampled' = [r \in Reqs |-> IF r \in finished_req_ids THEN 0 ELSE sampled[r]]
  /\ reset_preempted_req_ids' = {}
  /\ loc' = Idle
  /\ pc' = "idle"
  /\ UNCHANGED <<held, queues, num_waiting_for_streaming_input,
                 grammar_compile_error_reqs, pause_state, env, output>>

-----------------------------------------------------------------------------
(* update_from_output() on the oldest step in flight.                      *)

BeginOutput ==
  /\ pc = "idle" /\ inflight # <<>>
  /\ todo' = Head(inflight)
  /\ inflight' = Tail(inflight)
  /\ pc' = "output"
  /\ UNCHANGED <<request, held, queues, notices, num_waiting_for_streaming_input,
                 grammar_compile_error_reqs, pause_state, env, slots, sampled, loc, stopped>>

OutputTurn == pc = "output" /\ todo # <<>>

IsStale(q) == q.num_stale_output_tokens > 0

\* Mutant: stale tokens are drained one by one, not by the step.
ReturnedOneByOne(q, n) ==
  [q EXCEPT !.num_in_flight_tokens = @ - n,
            !.num_stale_output_tokens = IF IsStale(q) THEN @ - 1 ELSE @]

\* The step's tokens are no longer in flight; stale ones are drained.
Returned(q, n) ==
  [q EXCEPT !.num_in_flight_tokens = @ - n,
            !.num_stale_output_tokens = IF IsStale(q) THEN @ - n ELSE @]

\* Output that nobody waits for: the request is gone, or the output is stale
\* and was to be dropped.
DropOutput ==
  /\ OutputTurn
  /\ LET e == Head(todo)
         q == request[e.req]
     IN  /\ ~Live(e.req) \/ (IsStale(q) /\ q.drop_stale_output)
         /\ request' = IF Live(e.req) THEN [request EXCEPT ![e.req] = Returned(q, e.n)]
                       ELSE request
  /\ todo' = Tail(todo)
  /\ UNCHANGED <<pc, held, queues, notices, num_waiting_for_streaming_input,
                 grammar_compile_error_reqs, pause_state, env, worker, loc, stopped>>

\* Mutant: the rejected drafts still count as computed.
RolledBackPlaceholders(q, rejected, stale) ==
  IF stale THEN q
  ELSE [q EXCEPT !.num_output_placeholders = IF @ > 0 THEN @ - rejected ELSE @]

\* Rejected drafts are rolled back, unless a preemption has reset the counters.
RolledBack(q, rejected, stale) ==
  IF stale THEN q
  ELSE [q EXCEPT !.num_computed_tokens = IF @ > 0 THEN @ - rejected ELSE @,
                 !.num_output_placeholders = IF @ > 0 THEN @ - rejected ELSE @]

\* Tokens the request may still get before check_stop stops it for length.
Allowance(q) == AtMost(MaxModelLen - q.num_tokens,
                       q.num_prompt_tokens + MaxTokens - q.num_tokens)

\* The request after `kept` new tokens; asynchronous scheduling also takes
\* back their placeholders, unless they are stale.
WithOutput(q, kept, stale) ==
  [q EXCEPT !.num_tokens = @ + kept,
            !.num_output_placeholders = IF Depth > 1 /\ ~stale THEN @ - kept ELSE @]

\* What the model runner's count of r is before it samples for entry e.
SampledBefore(e) == IF e.prefix > 0 THEN e.prefix ELSE sampled[e.req]

\* _handle_stopped_request and, for a request that is finished, _free_request;
\* q is the request after its output, `error` the verdict of the grammar.
Stop(r, q, error) ==
  LET session == r \in Sessions /\ ~error
      update == IF q.streaming_queue = <<>> THEN "none" ELSE Head(q.streaming_queue)
      popped == [q EXCEPT !.streaming_queue = IF @ = <<>> THEN @ ELSE Tail(@)]
  IN  \/ /\ ~session \/ update = "end"
         /\ request' = [request EXCEPT ![r] = Gone(r)]
         /\ held' = [held EXCEPT ![r] = 0]
         /\ finished_req_ids' = finished_req_ids \cup {r}
         /\ UNCHANGED <<waiting, skipped_waiting, num_waiting_for_streaming_input>>
      \/ /\ session /\ update = "chunk"
         /\ request' = [request EXCEPT ![r] = UpdatedSession(popped)]
         /\ waiting' = add_request(waiting, r)
         /\ UNCHANGED <<held, finished_req_ids, skipped_waiting,
                        num_waiting_for_streaming_input>>
      \/ /\ session /\ update = "none"
         /\ request' = [request EXCEPT ![r] = [q EXCEPT !.status = "WAITING_FOR_STREAMING_REQ"]]
         /\ skipped_waiting' = add_request(skipped_waiting, r)
         /\ num_waiting_for_streaming_input' = num_waiting_for_streaming_input + 1
         /\ UNCHANGED <<held, finished_req_ids, waiting>>

\* The output of one request of the step: the target model accepted `accepted`
\* of the drafts, the token numbered eos (0: none) ends the text, and the
\* grammar rejects it when `error`.  Without asynchronous scheduling the next
\* drafts arrive before the next step (update_draft_token_ids).
Deliver(accepted, eos, error, drafts) ==
  /\ OutputTurn
  /\ LET e == Head(todo)
         r == e.req
         stale == IsStale(request[r])
         tokens == IF e.samples THEN accepted + 1 ELSE 0
         q1 == Returned(request[r], e.n)
         q2 == IF e.drafts > 0 /\ tokens > 0
               THEN RolledBack(q1, e.drafts - accepted, stale) ELSE q1
         kept == AtMost(AtMost(tokens, AtLeast(Allowance(q2), 1)),
                        IF eos > 0 THEN eos ELSE tokens)
         q3 == [WithOutput(q2, kept, stale) EXCEPT
                  !.num_spec = IF Depth = 1 THEN (IF e.samples THEN drafts ELSE 0) ELSE @]
         stops == error \/ (tokens > 0 /\ (kept = eos \/ kept >= Allowance(q2)))
     IN  /\ Live(r) /\ ~(stale /\ request[r].drop_stale_output)
         /\ accepted \in 0 .. (IF e.samples /\ ~e.padded THEN e.drafts ELSE 0)
         /\ eos \in 0 .. tokens
         /\ error => r \in Structured /\ tokens > 0
         /\ Depth > 1 => drafts = 0
         /\ sampled' = [sampled EXCEPT ![r] = SampledBefore(e) + tokens]
         /\ \/ /\ stops
               /\ Stop(r, q3, error)
               /\ stopped' = IF request[r].status = "RUNNING"
                             THEN [stopped EXCEPT !.running = @ \cup {r}]
                             ELSE [stopped EXCEPT !.preempted = @ \cup {r}]
            \/ /\ ~stops
               /\ request' = [request EXCEPT ![r] = q3]
               /\ UNCHANGED <<held, finished_req_ids, waiting, skipped_waiting,
                              num_waiting_for_streaming_input, stopped>>
  /\ todo' = Tail(todo)
  /\ UNCHANGED <<pc, running, reset_preempted_req_ids, grammar_compile_error_reqs,
                 pause_state, env, inflight, slots, loc>>

\* Mutant: a request that stops while preempted stays in the waiting queue.
LeaveRunningOnly(q, S) == q

\* The queue without the requests of S.
Leave(q, S) == remove_requests(q, S)

\* Mutant: a finished session stays in the count of the paused ones.
FinishRequestsKeepingCount(S, run, w, k, f) ==
  /\ running' = remove_requests(run, S)
  /\ waiting' = remove_requests(w, S)
  /\ skipped_waiting' = remove_requests(k, S)
  /\ request' = [r \in Reqs |-> IF r \in S THEN Gone(r) ELSE request[r]]
  /\ held' = [r \in Reqs |-> IF r \in S THEN 0 ELSE held[r]]
  /\ finished_req_ids' = f \cup S
  /\ UNCHANGED num_waiting_for_streaming_input

\* finish_requests(S): S leaves its queues, and is freed.  `w` and `k` are the
\* waiting queues it leaves, `f` the finished ids so far.
FinishRequests(S, run, w, k, f) ==
  /\ running' = remove_requests(run, S)
  /\ waiting' = remove_requests(w, S)
  /\ skipped_waiting' = remove_requests(k, S)
  /\ request' = [r \in Reqs |-> IF r \in S THEN Gone(r) ELSE request[r]]
  /\ held' = [r \in Reqs |-> IF r \in S THEN 0 ELSE held[r]]
  /\ finished_req_ids' = f \cup S
  /\ num_waiting_for_streaming_input' = num_waiting_for_streaming_input
       - Cardinality({r \in S : request[r].status = "WAITING_FOR_STREAMING_REQ"})

\* The stopped requests leave the queues; those whose grammar failed to
\* compile finish with an error.
EndOutput ==
  /\ pc = "output" /\ todo = <<>>
  /\ FinishRequests(grammar_compile_error_reqs \cap LiveReqs,
                    remove_requests(running, stopped.running),
                    Leave(waiting, stopped.preempted),
                    Leave(skipped_waiting, stopped.preempted),
                    finished_req_ids)
  /\ grammar_compile_error_reqs' = {}
  /\ stopped' = NobodyStopped
  /\ pc' = "idle"
  /\ UNCHANGED <<reset_preempted_req_ids, pause_state, env, worker, loc, todo>>

-----------------------------------------------------------------------------
(* The handlers that run between two calls of the engine loop.  Without    *)
(* several batches the loop waits for its step, and only aborts run then.  *)

BetweenSteps == pc = "idle" /\ (Depth > 1 \/ inflight = <<>>)

AddRequest(r) ==
  /\ BetweenSteps /\ r \in Clients /\ request[r].status = "NEW"
  /\ IF r \in Structured
     THEN /\ request' = [request EXCEPT ![r].status = "WAITING_FOR_STRUCTURED_OUTPUT_GRAMMAR"]
          /\ skipped_waiting' = add_request(skipped_waiting, r)
          /\ UNCHANGED waiting
     ELSE /\ request' = [request EXCEPT ![r].status = "WAITING"]
          /\ waiting' = add_request(waiting, r)
          /\ UNCHANGED skipped_waiting
  /\ UNCHANGED <<pc, held, running, notices, num_waiting_for_streaming_input,
                 grammar_compile_error_reqs, pause_state, env, worker, loc, output>>

\* finish_requests from outside: the client is gone.
Abort(r) ==
  /\ pc = "idle" /\ "abort" \in Ops /\ Live(r)
  /\ FinishRequests({r}, running, waiting, skipped_waiting, finished_req_ids)
  /\ UNCHANGED <<pc, reset_preempted_req_ids, grammar_compile_error_reqs, pause_state,
                 env, worker, loc, output>>

\* add_request for a session: its next chunk, or the end of its input.
AddUpdate(r, update) ==
  /\ BetweenSteps /\ r \in Sessions /\ Live(r) /\ chunks[r] <= MaxChunks
  /\ update = "chunk" => chunks[r] < MaxChunks
  /\ chunks' = [chunks EXCEPT ![r] = IF update = "end" THEN MaxChunks + 1 ELSE @ + 1]
  /\ \/ /\ request[r].status # "WAITING_FOR_STREAMING_REQ"
        /\ request' = [request EXCEPT ![r].streaming_queue = Append(@, update)]
        /\ UNCHANGED <<held, queues, finished_req_ids, num_waiting_for_streaming_input>>
     \/ /\ request[r].status = "WAITING_FOR_STREAMING_REQ" /\ update = "chunk"
        /\ request' = [request EXCEPT ![r] = UpdatedSession(@)]
        /\ num_waiting_for_streaming_input' = num_waiting_for_streaming_input - 1
        /\ UNCHANGED <<held, queues, finished_req_ids>>
     \/ /\ request[r].status = "WAITING_FOR_STREAMING_REQ" /\ update = "end"
        /\ FinishRequests({r}, running, waiting, skipped_waiting, finished_req_ids)
  /\ UNCHANGED <<pc, reset_preempted_req_ids, grammar_compile_error_reqs, pause_state,
                 config, grammar, worker, loc, output>>

\* reset_prefix_cache(reset_running_requests=True): every running request is
\* preempted, from the last to the first, and its output in flight is to be
\* dropped, since it may resume in the very next step.
ResetPrefixCache ==
  /\ BetweenSteps /\ "reset" \in Ops /\ running # <<>>
  /\ request' = [r \in Reqs |-> IF r \in ToSet(running) THEN Preempted(request[r], TRUE)
                                ELSE request[r]]
  /\ held' = [r \in Reqs |-> IF r \in ToSet(running) THEN 0 ELSE held[r]]
  /\ waiting' = running \o waiting
  /\ running' = <<>>
  /\ reset_preempted_req_ids' = reset_preempted_req_ids \cup ToSet(running)
  /\ UNCHANGED <<pc, skipped_waiting, finished_req_ids, num_waiting_for_streaming_input,
                 grammar_compile_error_reqs, pause_state, env, worker, loc, output>>

set_pause_state(p) ==
  /\ BetweenSteps /\ "pause" \in Ops /\ pause_state # p
  /\ pause_state' = p
  /\ UNCHANGED <<pc, request, held, queues, notices, num_waiting_for_streaming_input,
                 grammar_compile_error_reqs, env, worker, loc, output>>

\* The compilation of a grammar ends, at any time, on another thread.
GrammarDone(r, result) ==
  /\ request[r].status = "WAITING_FOR_STRUCTURED_OUTPUT_GRAMMAR"
  /\ grammar[r] = "compiling"
  /\ grammar' = [grammar EXCEPT ![r] = result]
  /\ UNCHANGED <<pc, request, held, queues, notices, num_waiting_for_streaming_input,
                 grammar_compile_error_reqs, pause_state, config, chunks, worker, loc, output>>

-----------------------------------------------------------------------------
Schedule == \/ BeginSchedule
            \/ SkipRunning
            \/ ScheduleRunning
            \/ PreemptForRunning
            \/ EndRunning
            \/ SkipWaiting
            \/ WaitingTurn /\ \E found \in Lookups(Promoted(Candidate)) : Admit(found)
            \/ WaitingTurn /\ \E found \in Lookups(Promoted(Candidate)) : StopWaiting(found)
            \/ EndWaiting
            \/ Commit

UpdateFromOutput ==
  \/ BeginOutput
  \/ DropOutput
  \/ \E accepted \in 0 .. NumSpec, eos \in 0 .. NumSpec + 1, error \in BOOLEAN,
        drafts \in {0, NumSpec} : Deliver(accepted, eos, error, drafts)
  \/ EndOutput

GrammarStep == \E r \in Reqs, result \in {"ready", "failed"} : GrammarDone(r, result)

Handlers ==
  \/ \E r \in Reqs : AddRequest(r)
  \/ \E r \in Reqs : Abort(r)
  \/ \E r \in Reqs, update \in {"chunk", "end"} : AddUpdate(r, update)
  \/ ResetPrefixCache
  \/ \E p \in {"UNPAUSED", "PAUSED_NEW", "PAUSED_ALL"} : set_pause_state(p)

Next == Schedule \/ UpdateFromOutput \/ GrammarStep \/ Handlers

Spec == Init /\ [][Next]_vars

-----------------------------------------------------------------------------
(* Properties.                                                             *)

Records ==
  [status : Statuses, num_tokens : 1 .. MaxModelLen, num_prompt_tokens : 1 .. MaxModelLen,
   num_computed_tokens : 0 .. MaxModelLen, num_output_placeholders : 0 .. MaxModelLen,
   num_in_flight_tokens : Nat, num_stale_output_tokens : Nat,
   drop_stale_output : BOOLEAN, num_spec : 0 .. NumSpec, is_prefill_chunk : BOOLEAN,
   shared_prefix_boundary : 0 .. MaxModelLen, streaming_queue : Seq({"chunk", "end"})]

\* Types.  No counter of a request runs below zero, however rejections,
\* preemptions and late output interleave, nor above the model's length.
TypeOK ==
  /\ pc \in {"idle", "running", "waiting", "commit", "output"}
  /\ request \in [Reqs -> Records]
  /\ held \in [Reqs -> 0 .. NumBlocks]
  /\ {waiting, skipped_waiting, running} \subseteq Seq(Reqs)
  /\ finished_req_ids \subseteq Reqs /\ reset_preempted_req_ids \subseteq Reqs
  /\ num_waiting_for_streaming_input \in Nat
  /\ grammar_compile_error_reqs \subseteq Reqs
  /\ pause_state \in {"UNPAUSED", "PAUSED_NEW", "PAUSED_ALL"}
  /\ slots \subseteq Reqs /\ sampled \in [Reqs -> Nat]
  /\ Len(inflight) <= Depth
  /\ loc.token_budget \in 0 .. TokenBudget

\* Tokens of r in the i-th step in flight.
StepTokens(i, r) ==
  SumFunction([j \in {k \in DOMAIN inflight[i] : inflight[i][k].req = r} |-> inflight[i][j].n])

TokensInSteps(n, r) == SumFunction([i \in 1 .. n |-> StepTokens(i, r)])

\* The counters update_from_output steers by are what is in flight: a live
\* request's num_in_flight_tokens is its share of the launched steps, and its
\* stale share is that of the oldest of them, to the step.
InFlightAccounting ==
  pc = "idle" => \A r \in LiveReqs :
    /\ request[r].num_in_flight_tokens = TokensInSteps(Len(inflight), r)
    /\ \E n \in 0 .. Len(inflight) :
         request[r].num_stale_output_tokens = TokensInSteps(n, r)

\* Every token a request is given was sampled by the model runner for exactly
\* that position: preemption, late output and resumption neither repeat a
\* position nor leave one out.
TokensInPlace ==
  [][\A r \in Reqs :
       pc = "output" /\ request'[r].num_tokens > request[r].num_tokens
       => Head(todo).req = r /\ SampledBefore(Head(todo)) = request[r].num_tokens]_vars

\* A decoding request has exactly its last token, and the placeholders of the
\* tokens in flight, left to compute: rejected drafts and trimmed output leave
\* no gap and no overlap in the KV cache.
ComputedMatches ==
  pc = "idle" /\ (Depth > 1 \/ inflight = <<>>) => \A r \in Reqs :
    LET q == request[r]
    IN  q.status = "RUNNING" /\ ~q.is_prefill_chunk =>
          q.num_computed_tokens = q.num_tokens - 1 + q.num_output_placeholders

\* A live request is in one queue, once: `running` when it is running, and
\* skipped_waiting when it is blocked; a finished one is in none.
QueuePartition ==
  pc = "idle" =>
    /\ \A r \in Reqs :
         Cardinality({i \in DOMAIN (running \o waiting \o skipped_waiting) :
                        (running \o waiting \o skipped_waiting)[i] = r})
           = IF Live(r) THEN 1 ELSE 0
    /\ ToSet(running) = {r \in Reqs : request[r].status = "RUNNING"}
    /\ {r \in Reqs : request[r].status \in Blocked} \subseteq ToSet(skipped_waiting)

\* The block tables fit the pool together, those of the running requests
\* reach over their computed tokens, and a request that lost its blocks
\* counts nothing as computed.
BlocksCover ==
  /\ FreeBlocks >= 0
  /\ pc = "idle" => \A r \in Reqs :
       /\ request[r].status = "RUNNING" => held[r] >= BlocksFor(request[r].num_computed_tokens)
       /\ held[r] = 0 => request[r].num_computed_tokens = 0

\* A step about to be launched spends no more than the budget, counts the
\* tokens of each of its requests once, and has only running requests: what
\* schedule() asserts, whoever was preempted while it was built.
StepWithinBudget ==
  pc = "commit" =>
    /\ loc.token_budget >= 0
    /\ loc.token_budget + SumFunction([j \in DOMAIN loc.batch |-> loc.batch[j].n])
         = IF pause_state = "PAUSED_ALL" THEN 0 ELSE TokenBudget
    /\ Len(running) <= MaxRunning
    /\ \A j \in DOMAIN loc.batch :
         loc.batch[j].n > 0 /\ request[loc.batch[j].req].status = "RUNNING"
    /\ \A i, j \in DOMAIN loc.batch : loc.batch[i].req = loc.batch[j].req => i = j

\* With the recurrent states cached at block boundaries, a prefill stops at
\* every position from which the request, or one that shares its prefix, is to
\* be resumed later: no step jumps over the last cacheable position, nor over
\* the junction's block, nor over the end of a block it starts inside, and none
\* leaves a state inside a block that a chunk could have filled.  The chunk that
\* ends a prefill exactly on a junction inside a block does jump over the start
\* of that block: the code asks for the junction to lie before the chunk's end.
PrefillStopsAtStates ==
  pc = "commit" /\ Aligned => \A j \in DOMAIN loc.batch :
    LET q == request[loc.batch[j].req]
        start == q.num_computed_tokens
        end == start + loc.batch[j].n
        junction == FloorToBlock(q.shared_prefix_boundary)
    IN  start < PrefillEnd(q) =>
          /\ start < LastCachePosition(q) => end <= LastCachePosition(q)
          /\ start % BlockSize = 0 /\ start < junction =>
               end <= junction \/ (PrefillEnd(q) <= end /\ end <= q.shared_prefix_boundary)
          /\ start % BlockSize # 0 => end <= FloorToBlock(start) + BlockSize
          /\ end < PrefillEnd(q) /\ BlockSize <= TokenBudget => end % BlockSize = 0

\* The engine loop only sleeps when every live request waits for its client.
WakesForWork ==
  pc = "idle" /\ pause_state = "UNPAUSED" /\ ~has_requests =>
    \A r \in LiveReqs : request[r].status = "WAITING_FOR_STREAMING_REQ"

\* The model runner never holds more requests than max_num_running_reqs, but
\* for those it is about to be told are finished, and for the sessions whose
\* next chunk waits its turn (SessionSlotsCounted): whenever no step is being
\* built, and so when it is given one.
RunnerSlotsBounded ==
  pc \in {"idle", "output"} =>
    Cardinality((slots \ finished_req_ids)
                  \ {r \in Sessions : request[r].status = "WAITING"}) <= MaxRunning

\* The admission loop's comment: "Paused streaming sessions are not in `running`
\* but still hold a model-runner request slot", so it counts them.
SessionSlotsCounted == Cardinality(slots) <= MaxRunning

\* The engine loop keeps calling the scheduler while it has requests or steps
\* in flight, and every compilation of a grammar ends.
FairSpec == Spec /\ WF_vars(Schedule \/ UpdateFromOutput) /\ WF_vars(GrammarStep)

\* Every request that is added gets to its end, and the model runner is told.
EveryRequestEnds ==
  \A r \in Reqs : Live(r) ~> (request[r].status = "FINISHED" /\ r \notin slots)

-----------------------------------------------------------------------------
(* What some of the theorems ask of the configurations.                    *)

\* A session's chunks are not cut at block boundaries below their drafts.
SessionsUncut == \A c \in Configs : c.sessions # {} => ~c.aligned \/ c.spec = 0

\* Nor is the prefill of any request cut after its padding was counted, which
\* would leave a gap in its cache.
PaddingUncut ==
  \A c \in Configs : c.aligned /\ c.spec > 0 => c.sessions = {} /\ (c.block_size > 1 \/ c.eagle)

\* The chunks of a session, each with the tokens that may follow it, are within
\* the model's length.
SessionsFit ==
  \A c \in Configs : \A r \in Reqs \cap c.sessions :
    c.prompt[r] + c.max_chunks * (c.max_tokens + 1) < c.max_len
=============================================================================
