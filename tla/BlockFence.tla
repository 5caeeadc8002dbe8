----------------------------- MODULE BlockFence -----------------------------
(***************************************************************************)
(* Deferred freeing of KV-cache blocks in src/patches/files/scheduler.py.  *)
(*                                                                         *)
(* With several batches in flight and a consumer KV connector              *)
(* (defer_block_free), a GPU step that was already launched may still      *)
(* write the blocks of a request that is being freed, while the connector  *)
(* fills reallocated blocks out of band.  The scheduler therefore numbers  *)
(* the non-empty steps (sched_step_seq, processed_step_seq), stamps each   *)
(* request with the last step that ran it (last_sched_seq), and parks the  *)
(* blocks of a freed request behind a fence (deferred_frees).              *)
(*                                                                         *)
(* A block is on the lists of the requests that hold it (prefix caching    *)
(* shares blocks), of the deferred entries and of the copy-on-write        *)
(* retentions; its reference count is the number of those lists, and it    *)
(* is in the pool when that number is zero.                                *)
(***************************************************************************)
EXTENDS Naturals, Sequences, FiniteSets

CONSTANTS
  Reqs,       \* request ids
  Blocks,     \* KV-cache blocks
  Depth,      \* max_concurrent_batches: steps launched and not yet processed
  MaxSteps,   \* bound on sched_step_seq
  MaxDeferred \* bound on the entries of deferred_frees when a step is built

ASSUME DepthAssumption == Depth \in Nat /\ Depth > 1
ASSUME MaxStepsAssumption == MaxSteps \in Nat

VARIABLES
  state,              \* where the scheduler has each request
  held,               \* blocks on the request's block table
  loadDst,            \* blocks an asynchronous KV load is filling
  last_sched_seq,     \* number of the last step that ran the request
  batch,              \* requests given tokens in the step being built
  copySrc,            \* blocks retained for the pending copy-on-write copies
  sched_step_seq,     \* non-empty steps scheduled
  processed_step_seq, \* non-empty steps processed
  deferred_frees,     \* FIFO of [fence, blocks]
  inflight            \* FIFO of steps launched and not yet processed

vars == <<state, held, loadDst, last_sched_seq, batch, copySrc,
          sched_step_seq, processed_step_seq, deferred_frees, inflight>>

seqs == <<sched_step_seq, processed_step_seq>>

States == {"WAITING", "RUNNING", "WAITING_FOR_REMOTE_KVS", "FINISHED_LOADING"}

Loading(r) == state[r] \in {"WAITING_FOR_REMOTE_KVS", "FINISHED_LOADING"}

OnDeferred(b) == \E j \in DOMAIN deferred_frees : b \in deferred_frees[j].blocks

\* The block pool: blocks whose reference count is zero.
FreePool == {b \in Blocks : /\ \A r \in Reqs : b \notin held[r]
                            /\ ~OnDeferred(b)
                            /\ b \notin copySrc}

\* Mutant: blocks are cached while their load is still running.
CacheableTooEarly == Blocks

\* Blocks a prefix-cache lookup may hit: any block but one that an
\* asynchronous load is still filling (delay_cache_blocks).
Cacheable == {b \in Blocks : \A r \in Reqs : b \notin loadDst[r]}

Init ==
  /\ state = [r \in Reqs |-> "WAITING"]
  /\ held = [r \in Reqs |-> {}]
  /\ loadDst = [r \in Reqs |-> {}]
  /\ last_sched_seq = [r \in Reqs |-> 0]
  /\ batch = {}
  /\ copySrc = {}
  /\ sched_step_seq = 0
  /\ processed_step_seq = 0
  /\ deferred_frees = <<>>
  /\ inflight = <<>>

-----------------------------------------------------------------------------
(* Freeing.                                                                *)

\* Mutant: the in-flight test is off by one.
DeferOffByOne(queue, R, processed) ==
  LET unsafe == {r \in R : last_sched_seq[r] > processed + 1}
      blocks == UNION {held[r] : r \in unsafe}
  IN  IF blocks = {} THEN queue
      ELSE Append(queue, [fence |-> sched_step_seq, blocks |-> blocks])

\* Mutant: the entry is put at the wrong end of the queue.
DeferAtFront(queue, R, processed) ==
  LET unsafe == {r \in R : last_sched_seq[r] > processed}
      blocks == UNION {held[r] : r \in unsafe}
  IN  IF blocks = {} THEN queue
      ELSE <<[fence |-> sched_step_seq, blocks |-> blocks]>> \o queue

\* _free_request_blocks for the requests R, when `processed` steps have been
\* processed: the blocks of a request whose last step is still in flight go
\* behind the fence sched_step_seq, the others are back in the pool (they
\* leave `held`).  Requests freed in one handler share the fence, so their
\* entries are one here.
DeferRequestBlocks(queue, R, processed) ==
  LET unsafe == {r \in R : last_sched_seq[r] > processed}
      blocks == UNION {held[r] : r \in unsafe}
  IN  IF blocks = {} THEN queue
      ELSE Append(queue, [fence |-> sched_step_seq, blocks |-> blocks])

\* Mutant: at most one entry is popped per processed step.
DrainedOnce(queue, processed) ==
  IF queue # <<>> /\ Head(queue).fence <= processed THEN Tail(queue) ELSE queue

\* Mutant: one expired entry takes the whole queue with it.
DrainedWhole(queue, processed) ==
  IF queue # <<>> /\ Head(queue).fence <= processed THEN <<>> ELSE queue

\* _drain_deferred_frees pops the entries up to the first one still fenced.
Drained(queue, processed) ==
  LET pending == {j \in DOMAIN queue : queue[j].fence > processed}
  IN  IF pending = {} THEN <<>>
      ELSE SubSeq(queue, CHOOSE j \in pending : \A k \in pending : j <= k, Len(queue))

-----------------------------------------------------------------------------
(* schedule(), one action per call it makes, up to the launch of the step. *)

\* Mutant: the copies are fenced by the step before the one that runs them.
CopyFenceTooEarly == sched_step_seq

\* Mutant: the fence is computed after sched_step_seq was advanced.
CopyFenceTooLate == sched_step_seq + 2

\* The number of the first non-empty step at or after the one being built.
CopyFence == sched_step_seq + 1

CanSchedule == /\ Len(inflight) < Depth
               /\ sched_step_seq < MaxSteps
               /\ Len(deferred_frees) <= MaxDeferred

\* A waiting request enters the batch: it adopts cached blocks and takes
\* fresh ones from the pool; an adopted partial tail is copied on write, and
\* its source stays retained until the copy has run.
Admit(r, adopted, fresh, src) ==
  /\ CanSchedule
  /\ state[r] = "WAITING" /\ held[r] = {}
  /\ adopted \subseteq Cacheable /\ fresh \subseteq FreePool
  /\ adopted \cap fresh = {} /\ fresh # {}
  /\ src \subseteq Cacheable \ fresh /\ Cardinality(src) <= 1
  /\ state' = [state EXCEPT ![r] = "RUNNING"]
  /\ held' = [held EXCEPT ![r] = adopted \cup fresh]
  /\ batch' = batch \cup {r}
  /\ copySrc' = copySrc \cup src
  /\ UNCHANGED <<loadDst, last_sched_seq, seqs, deferred_frees, inflight>>

\* A running request enters the batch, with the fresh blocks it needs.
Grow(r, fresh) ==
  /\ CanSchedule
  /\ state[r] = "RUNNING" /\ r \notin batch
  /\ fresh \subseteq FreePool
  /\ held' = [held EXCEPT ![r] = held[r] \cup fresh]
  /\ batch' = batch \cup {r}
  /\ UNCHANGED <<state, loadDst, last_sched_seq, copySrc, seqs, deferred_frees,
                 inflight>>

\* A request whose load has finished enters the batch with the blocks it
\* holds and the fresh ones it needs.
Resume(r, fresh) ==
  /\ CanSchedule
  /\ state[r] = "WAITING" /\ held[r] # {}
  /\ fresh \subseteq FreePool
  /\ state' = [state EXCEPT ![r] = "RUNNING"]
  /\ held' = [held EXCEPT ![r] = held[r] \cup fresh]
  /\ batch' = batch \cup {r}
  /\ UNCHANGED <<loadDst, last_sched_seq, copySrc, seqs, deferred_frees, inflight>>

\* A waiting request starts an asynchronous load into fresh blocks: no tokens
\* are scheduled for it, and its blocks are not cached yet.
StartLoad(r, adopted, fresh) ==
  /\ CanSchedule
  /\ state[r] = "WAITING" /\ held[r] = {}
  /\ adopted \subseteq Cacheable /\ fresh \subseteq FreePool
  /\ adopted \cap fresh = {} /\ fresh # {}
  /\ state' = [state EXCEPT ![r] = "WAITING_FOR_REMOTE_KVS"]
  /\ held' = [held EXCEPT ![r] = adopted \cup fresh]
  /\ loadDst' = [loadDst EXCEPT ![r] = fresh]
  /\ UNCHANGED <<last_sched_seq, batch, copySrc, seqs, deferred_frees, inflight>>

\* _preempt_request: the victim leaves the batch being built.
Preempt(r) ==
  /\ CanSchedule
  /\ state[r] = "RUNNING"
  /\ deferred_frees' = DeferRequestBlocks(deferred_frees, {r}, processed_step_seq)
  /\ state' = [state EXCEPT ![r] = "WAITING"]
  /\ held' = [held EXCEPT ![r] = {}]
  /\ batch' = batch \ {r}
  /\ UNCHANGED <<loadDst, last_sched_seq, copySrc, seqs, inflight>>

\* The end of schedule(): the copy retentions are fenced by the first
\* non-empty step at or after this one, a non-empty step gets its number and
\* stamps its requests, and the step is launched.
Launch ==
  /\ CanSchedule
  /\ deferred_frees' = IF copySrc = {} THEN deferred_frees
       ELSE Append(deferred_frees, [fence |-> CopyFence, blocks |-> copySrc])
  /\ inflight' = Append(inflight,
       [number |-> sched_step_seq + 1, reqs |-> batch,
        writes |-> UNION {held[r] : r \in batch}, copies |-> copySrc])
  /\ sched_step_seq' = IF batch = {} THEN sched_step_seq ELSE sched_step_seq + 1
  /\ last_sched_seq' = [r \in Reqs |-> IF r \in batch THEN sched_step_seq'
                                       ELSE last_sched_seq[r]]
  /\ batch' = {}
  /\ copySrc' = {}
  /\ UNCHANGED <<state, held, loadDst, processed_step_seq>>

-----------------------------------------------------------------------------
(* update_from_output() and the operations between two steps.              *)

\* The oldest step is processed; the requests of `stopped` stop in it.
Process(stopped) ==
  /\ inflight # <<>> /\ batch = {} /\ copySrc = {}
  /\ \A r \in stopped : state[r] = "RUNNING" /\ r \in Head(inflight).reqs
  /\ LET empty == Head(inflight).reqs = {}
         processed == IF empty THEN processed_step_seq ELSE processed_step_seq + 1
         drained == IF empty THEN deferred_frees ELSE Drained(deferred_frees, processed)
     IN  /\ processed_step_seq' = processed
         /\ deferred_frees' = DeferRequestBlocks(drained, stopped, processed)
  /\ inflight' = Tail(inflight)
  /\ state' = [r \in Reqs |-> IF r \in stopped THEN "WAITING" ELSE state[r]]
  /\ held' = [r \in Reqs |-> IF r \in stopped THEN {} ELSE held[r]]
  /\ UNCHANGED <<loadDst, last_sched_seq, batch, copySrc, sched_step_seq>>

\* reset_prefix_cache(reset_running_requests=True), between two steps: every
\* running request is preempted, and the cached hashes are dropped (any block
\* counts as cacheable here, so that leaves the variables alone).
ResetPrefixCache ==
  /\ batch = {} /\ copySrc = {}
  /\ LET running == {r \in Reqs : state[r] = "RUNNING"}
     IN  /\ running # {}
         /\ deferred_frees' = DeferRequestBlocks(deferred_frees, running, processed_step_seq)
         /\ state' = [r \in Reqs |-> IF r \in running THEN "WAITING" ELSE state[r]]
         /\ held' = [r \in Reqs |-> IF r \in running THEN {} ELSE held[r]]
  /\ UNCHANGED <<loadDst, last_sched_seq, batch, copySrc, seqs, inflight>>

\* finish_requests on a request that is not loading.  A finished id stands
\* for the next request that uses it.
Abort(r) ==
  /\ batch = {} /\ copySrc = {}
  /\ ~Loading(r) /\ held[r] # {}
  /\ deferred_frees' = DeferRequestBlocks(deferred_frees, {r}, processed_step_seq)
  /\ state' = [state EXCEPT ![r] = "WAITING"]
  /\ held' = [held EXCEPT ![r] = {}]
  /\ UNCHANGED <<loadDst, last_sched_seq, batch, copySrc, seqs, inflight>>

\* finish_requests on a loading request: the free waits for the load.
AbortLoad(r) ==
  /\ batch = {} /\ copySrc = {}
  /\ state[r] = "WAITING_FOR_REMOTE_KVS"
  /\ state' = [state EXCEPT ![r] = "FINISHED_LOADING"]
  /\ UNCHANGED <<held, loadDst, last_sched_seq, batch, copySrc, seqs,
                 deferred_frees, inflight>>

\* _update_from_kv_xfer_finished / _update_waiting_for_remote_kv: the load of
\* r is over.  A finished request is freed behind the fence; a request whose
\* load failed from the first token is freed at once; the others keep their
\* blocks.
EndLoad(r, failed) ==
  /\ batch = {} /\ copySrc = {}
  /\ Loading(r)
  /\ loadDst' = [loadDst EXCEPT ![r] = {}]
  /\ state' = [state EXCEPT ![r] = "WAITING"]
  /\ held' = IF state[r] = "FINISHED_LOADING" \/ failed
             THEN [held EXCEPT ![r] = {}] ELSE held
  /\ deferred_frees' = IF state[r] = "FINISHED_LOADING"
       THEN DeferRequestBlocks(deferred_frees, {r}, processed_step_seq)
       ELSE deferred_frees
  /\ UNCHANGED <<last_sched_seq, batch, copySrc, seqs, inflight>>

Next ==
  \/ \E fresh \in SUBSET FreePool, adopted, src \in SUBSET Cacheable, r \in Reqs :
       Admit(r, adopted, fresh, src)
  \/ \E fresh \in SUBSET FreePool, r \in Reqs : Grow(r, fresh)
  \/ \E fresh \in SUBSET FreePool, r \in Reqs : Resume(r, fresh)
  \/ \E fresh \in SUBSET FreePool, adopted \in SUBSET Cacheable, r \in Reqs :
       StartLoad(r, adopted, fresh)
  \/ \E r \in Reqs : Preempt(r)
  \/ ResetPrefixCache
  \/ Launch
  \/ \E stopped \in SUBSET Reqs : Process(stopped)
  \/ \E r \in Reqs : Abort(r)
  \/ \E r \in Reqs : AbortLoad(r)
  \/ \E r \in Reqs, failed \in BOOLEAN : EndLoad(r, failed)

Spec == Init /\ [][Next]_vars

-----------------------------------------------------------------------------
(* Properties.                                                             *)

\* Types; the numbers of steps and fences are those of steps scheduled so far,
\* or of the one to come.
TypeOK ==
  /\ state \in [Reqs -> States]
  /\ held \in [Reqs -> SUBSET Blocks]
  /\ loadDst \in [Reqs -> SUBSET Blocks]
  /\ batch \subseteq Reqs
  /\ copySrc \subseteq Blocks
  /\ sched_step_seq \in Nat
  /\ processed_step_seq \in 0 .. sched_step_seq
  /\ last_sched_seq \in [Reqs -> 0 .. sched_step_seq]
  /\ deferred_frees \in Seq([fence : 0 .. sched_step_seq + 1, blocks : SUBSET Blocks])
  /\ inflight \in Seq([number : 1 .. sched_step_seq + 1, reqs : SUBSET Reqs,
                       writes : SUBSET Blocks, copies : SUBSET Blocks])

\* A block that a launched step may still write is not in the pool: whoever
\* is given it next would race the write.  (_free_request_blocks and
\* _drain_deferred_frees, for every way a request can lose its blocks.)
NoInFlightWriteToPool ==
  \A i \in DOMAIN inflight : inflight[i].writes \cap FreePool = {}

\* The out-of-band writes of an asynchronous KV load never meet those of a
\* launched step, nor a block that somebody else holds or may be given.
LoadsIsolated ==
  \A r \in Reqs :
    /\ \A i \in DOMAIN inflight : loadDst[r] \cap inflight[i].writes = {}
    /\ loadDst[r] \cap FreePool = {}
    /\ \A s \in Reqs \ {r} : loadDst[r] \cap held[s] = {}

\* The source of a copy-on-write copy stays out of the pool until the step
\* that runs the copy is processed, even when that step schedules no tokens.
CopySourcesRetained ==
  \A i \in DOMAIN inflight : inflight[i].copies \cap FreePool = {}

\* The order _drain_deferred_frees relies on: a fence leads a later one by at
\* most one step.
FencesNearlyOrdered ==
  \A i, j \in DOMAIN deferred_frees :
    i < j => deferred_frees[i].fence <= deferred_frees[j].fence + 1

\* When no non-empty step is in flight, only a copy retention (fenced by the
\* step to come) can keep blocks out of the pool: the blocks of freed
\* requests are not stranded while the engine idles.
IdleQueueHeldByCopy ==
  /\ deferred_frees # <<>>
  /\ \A i \in DOMAIN inflight : inflight[i].reqs = {}
  => Head(deferred_frees).fence = sched_step_seq + 1

\* The blocks a load is filling.
Loads == UNION {loadDst[r] : r \in Reqs}

Pool == INSTANCE BlockPool WITH pool <- FreePool, steps <- inflight, loading <- Loads

\* Deferred freeing implements a pool that never takes back a block somebody
\* may still touch: every handler of the scheduler is one exchange with it.
ImplementsPool == Pool!Spec

\* reset_prefix_cache: with every running request preempted and no load under
\* way, every block is back in the pool.
ResetEmptiesTheCache ==
  [][ResetPrefixCache /\ (\A r \in Reqs : ~Loading(r) /\ (state[r] = "WAITING" => held[r] = {}))
     => FreePool' = Blocks]_vars
=============================================================================
