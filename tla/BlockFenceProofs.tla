-------------------------- MODULE BlockFenceProofs --------------------------
(***************************************************************************)
(* Machine-checked proofs about BlockFence, for any sets of requests and   *)
(* blocks, any pipeline depth and any bound on the number of steps.        *)
(*                                                                         *)
(* The invariant: a block that an in-flight step writes is guarded, either *)
(* by a running request that holds it and was last scheduled no earlier    *)
(* than that step, or by a deferred entry whose fence is no earlier.  A    *)
(* guard can only be lost once its step has been processed.  From it the   *)
(* order of the deferred queue (Ordered, HeadFenced, NumbersInFlight) and  *)
(* the refinement of BlockPool follow, each in a part of its own; the last *)
(* part is about BlockPool itself.                                         *)
(***************************************************************************)
EXTENDS BlockFence, SequenceTheorems, WellFoundedInduction, TLAPS

Entry == [fence : 0 .. sched_step_seq + 1, blocks : SUBSET Blocks]
Step == [number : 1 .. sched_step_seq + 1, reqs : SUBSET Reqs,
         writes : SUBSET Blocks, copies : SUBSET Blocks]

HeldGuard(b, n) ==
  \E r \in Reqs : state[r] = "RUNNING" /\ b \in held[r] /\ last_sched_seq[r] >= n

QueueGuard(b, n) ==
  \E j \in DOMAIN deferred_frees :
    b \in deferred_frees[j].blocks /\ deferred_frees[j].fence >= n

StepsOrdered ==
  /\ \A i \in DOMAIN inflight :
       /\ inflight[i].number > processed_step_seq
       /\ inflight[i].reqs # {} => inflight[i].number <= sched_step_seq
  /\ \A i, j \in DOMAIN inflight :
       i < j /\ inflight[i].reqs # {} => inflight[i].number < inflight[j].number

WritesGuarded ==
  \A i \in DOMAIN inflight : \A b \in inflight[i].writes :
    HeldGuard(b, inflight[i].number) \/ QueueGuard(b, inflight[i].number)

CopiesGuarded ==
  \A i \in DOMAIN inflight : \A b \in inflight[i].copies :
    QueueGuard(b, inflight[i].number)

LoadsApart ==
  \A r \in Reqs :
    /\ loadDst[r] # {} => Loading(r)
    /\ loadDst[r] \subseteq held[r]
    /\ \A s \in Reqs \ {r} : loadDst[r] \cap held[s] = {}
    /\ \A i \in DOMAIN inflight : loadDst[r] \cap inflight[i].writes = {}

BatchRuns == \A r \in batch : state[r] = "RUNNING"

Inv == /\ TypeOK
       /\ StepsOrdered
       /\ WritesGuarded
       /\ CopiesGuarded
       /\ LoadsApart
       /\ BatchRuns

-----------------------------------------------------------------------------
\* What _free_request_blocks puts in the queue: everything that was there, and
\* the blocks of every request whose last step is still in flight.
LEMMA DeferKeeps ==
  ASSUME TypeOK, NEW queue \in Seq(Entry), NEW R \in SUBSET Reqs, NEW processed \in Nat
  PROVE  LET q == DeferRequestBlocks(queue, R, processed)
         IN  /\ q \in Seq(Entry)
             /\ \A j \in DOMAIN queue : \E m \in DOMAIN q : q[m] = queue[j]
             /\ \A r \in R : \A b \in held[r] : last_sched_seq[r] > processed
                  => \E m \in DOMAIN q : b \in q[m].blocks /\ q[m].fence = sched_step_seq
<1> DEFINE unsafe == {r \in R : last_sched_seq[r] > processed}
           blocks == UNION {held[r] : r \in unsafe}
           entry == [fence |-> sched_step_seq, blocks |-> blocks]
           q == DeferRequestBlocks(queue, R, processed)
<1>1. q = IF blocks = {} THEN queue ELSE Append(queue, entry)
  BY DEF DeferRequestBlocks
<1>2. blocks \subseteq Blocks
  BY DEF TypeOK
<1>3. entry \in Entry
  BY <1>2 DEF TypeOK, Entry
<1>4. ASSUME NEW r \in R, NEW b \in held[r], last_sched_seq[r] > processed
      PROVE  b \in blocks
  BY <1>4
<1> HIDE DEF blocks
<1>5. CASE blocks = {}
  BY <1>1, <1>4, <1>5
<1>6. CASE blocks # {}
  <2>1. q = Append(queue, entry)
    BY <1>1, <1>6
  <2>2. /\ q \in Seq(Entry)
        /\ Len(q) = Len(queue) + 1
        /\ \A j \in 1 .. Len(queue) : q[j] = queue[j]
        /\ q[Len(q)] = entry
    BY <2>1, <1>3, AppendProperties
  <2> HIDE DEF q, entry
  <2>3. entry.blocks = blocks /\ entry.fence = sched_step_seq
    BY DEF entry
  <2>4. DOMAIN queue = 1 .. Len(queue) /\ DOMAIN q = 1 .. Len(q) /\ Len(queue) \in Nat
    BY <2>2, LenProperties
  <2>5. Len(q) \in DOMAIN q /\ DOMAIN queue \subseteq DOMAIN q
    BY <2>2, <2>4
  <2>6. \A j \in DOMAIN queue : \E m \in DOMAIN q : q[m] = queue[j]
    BY <2>2, <2>4, <2>5
  <2>7. \A r \in R : \A b \in held[r] : last_sched_seq[r] > processed
          => \E m \in DOMAIN q : b \in q[m].blocks /\ q[m].fence = sched_step_seq
    BY <1>4, <2>2, <2>3, <2>5
  <2> QED
    BY <2>2, <2>6, <2>7 DEF q
<1> QED
  BY <1>5, <1>6

\* A non-empty set of naturals has a least element.
LEMMA LeastNatural ==
  ASSUME NEW S \in SUBSET Nat, S # {}
  PROVE  \E x \in S : \A y \in S : x <= y
<1> DEFINE R == OpToRel(<, Nat)
<1>1. IsWellFoundedOn(R, Nat)
  BY NatLessThanWellFounded
<1>2. \A x, y \in Nat : <<y, x>> \in R <=> y < x
  BY DEF OpToRel
<1> HIDE DEF R
<1>3. PICK x \in S : \A y \in S : ~ (<<y, x>> \in R)
  BY <1>1, WFMin
<1>4. \A y \in S : ~ (y < x)
  BY <1>2, <1>3
<1> QED
  BY <1>3, <1>4

\* What _drain_deferred_frees leaves: every entry that is still fenced.
LEMMA DrainKeeps ==
  ASSUME NEW queue \in Seq(Entry), NEW processed \in Nat, sched_step_seq \in Nat
  PROVE  LET d == Drained(queue, processed)
         IN  /\ d \in Seq(Entry)
             /\ \A j \in DOMAIN queue : queue[j].fence > processed
                  => \E m \in DOMAIN d : d[m] = queue[j]
<1> DEFINE pending == {j \in DOMAIN queue : queue[j].fence > processed}
           least == CHOOSE j \in pending : \A k \in pending : j <= k
           d == Drained(queue, processed)
<1>1. d = IF pending = {} THEN <<>> ELSE SubSeq(queue, least, Len(queue))
  BY DEF Drained
<1>2. DOMAIN queue = 1 .. Len(queue) /\ Len(queue) \in Nat
  BY LenProperties
<1>3. CASE pending = {}
  BY <1>1, <1>3
<1>4. CASE pending # {}
  <2>1. least \in pending /\ \A k \in pending : least <= k
    <3>1. pending \in SUBSET Nat
      BY <1>2
    <3>2. \E j \in pending : \A k \in pending : j <= k
      BY <3>1, <1>4, LeastNatural
    <3> HIDE DEF pending
    <3> QED
      BY <3>2
  <2>2. d = SubSeq(queue, least, Len(queue))
    BY <1>1, <1>4
  <2>3. least \in 1 .. Len(queue)
    BY <2>1, <1>2
  <2> HIDE DEF least
  <2>4. /\ d \in Seq(Entry)
        /\ Len(d) = Len(queue) - least + 1
        /\ \A i \in 1 .. Len(queue) - least + 1 : d[i] = queue[least + i - 1]
    BY <2>2, <2>3, <1>2, SubSeqProperties
  <2>5. ASSUME NEW j \in DOMAIN queue, queue[j].fence > processed
        PROVE  \E m \in DOMAIN d : d[m] = queue[j]
    <3>1. least <= j /\ j \in 1 .. Len(queue) /\ j \in Nat /\ least \in Nat
      BY <2>1, <2>3, <2>5, <1>2
    <3>2. j - least + 1 \in 1 .. Len(d)
      BY <3>1, <2>3, <2>4, <1>2
    <3>3. d[j - least + 1] = queue[j]
      <4>1. j - least + 1 \in 1 .. Len(queue) - least + 1
        BY <3>2, <2>4
      <4>2. least + (j - least + 1) - 1 = j
        BY <3>1
      <4> QED
        BY <4>1, <4>2, <2>4
    <3>4. DOMAIN d = 1 .. Len(d)
      BY <2>4, LenProperties
    <3> QED
      BY <3>2, <3>3, <3>4
  <2> QED
    BY <2>4, <2>5
<1> QED
  BY <1>3, <1>4

-----------------------------------------------------------------------------
\* A guarded block is out of the pool.
LEMMA GuardedIsHeld ==
  ASSUME NEW b, NEW n, HeldGuard(b, n) \/ QueueGuard(b, n)
  PROVE  b \notin FreePool
BY DEF HeldGuard, QueueGuard, FreePool, OnDeferred

LEMMA EntryTypes ==
  ASSUME TypeOK
  PROVE  /\ \A j \in DOMAIN deferred_frees : deferred_frees[j] \in Entry
         /\ \A i \in DOMAIN inflight : inflight[i] \in Step
<1>1. deferred_frees \in Seq(Entry) /\ inflight \in Seq(Step)
  BY DEF TypeOK, Entry, Step
<1> QED
  BY <1>1, LenProperties, ElementOfSeq

\* What every action does to the guards, up to the p-th step: it keeps the
\* entries fenced after p, ...
EntriesKept(p) ==
  \A j \in DOMAIN deferred_frees : deferred_frees[j].fence > p =>
    \E m \in DOMAIN deferred_frees' : deferred_frees'[m] = deferred_frees[j]

\* ... it keeps a running request running with its blocks, or leaves those
\* blocks in the queue when the request was scheduled after p, ...
RunnerKept(r) ==
  /\ state'[r] = "RUNNING"
  /\ held[r] \subseteq held'[r]
  /\ last_sched_seq'[r] \in Nat
  /\ last_sched_seq'[r] >= last_sched_seq[r]

BlocksFenced(r, p) ==
  \A b \in held[r] : last_sched_seq[r] > p =>
    \E m \in DOMAIN deferred_frees' :
      b \in deferred_frees'[m].blocks /\ deferred_frees'[m].fence = sched_step_seq

RunnersKept(p) ==
  \A r \in Reqs : state[r] = "RUNNING" => RunnerKept(r) \/ BlocksFenced(r, p)

\* ... and the steps in flight were in flight before, numbered after p.
StepsKept(p) ==
  \A i \in DOMAIN inflight' : \E k \in DOMAIN inflight :
    inflight'[i] = inflight[k] /\ inflight[k].number > p

\* Then the guards for the steps after p survive.
LEMMA GuardsKept ==
  ASSUME TypeOK, NEW p \in Nat, EntriesKept(p), RunnersKept(p),
         NEW b \in Blocks, NEW n \in Nat, n > p
  PROVE  /\ QueueGuard(b, n) => QueueGuard(b, n)'
         /\ HeldGuard(b, n) => HeldGuard(b, n)' \/ QueueGuard(b, n)'
<1>1. ASSUME QueueGuard(b, n) PROVE QueueGuard(b, n)'
  <2>1. PICK j \in DOMAIN deferred_frees :
          b \in deferred_frees[j].blocks /\ deferred_frees[j].fence >= n
    BY <1>1 DEF QueueGuard
  <2>2. deferred_frees[j].fence \in Nat
    BY EntryTypes DEF Entry, TypeOK
  <2>3. deferred_frees[j].fence > p
    BY <2>1, <2>2
  <2>4. PICK m \in DOMAIN deferred_frees' : deferred_frees'[m] = deferred_frees[j]
    BY <2>3 DEF EntriesKept
  <2> QED
    BY <2>1, <2>4 DEF QueueGuard
<1>2. ASSUME HeldGuard(b, n) PROVE HeldGuard(b, n)' \/ QueueGuard(b, n)'
  <2>1. PICK r \in Reqs : state[r] = "RUNNING" /\ b \in held[r] /\ last_sched_seq[r] >= n
    BY <1>2 DEF HeldGuard
  <2>2. last_sched_seq[r] \in Nat /\ last_sched_seq[r] <= sched_step_seq /\ sched_step_seq \in Nat
    BY DEF TypeOK
  <2>3. last_sched_seq[r] > p /\ sched_step_seq >= n
    BY <2>1, <2>2
  <2>4. CASE RunnerKept(r)
    BY <2>1, <2>2, <2>4 DEF HeldGuard, RunnerKept
  <2>5. CASE BlocksFenced(r, p)
    BY <2>1, <2>3, <2>5 DEF BlocksFenced, QueueGuard
  <2> QED
    BY <2>1, <2>4, <2>5 DEF RunnersKept
<1> QED
  BY <1>1, <1>2

LEMMA GuardsCarry ==
  ASSUME Inv, NEW p \in Nat, EntriesKept(p), RunnersKept(p), StepsKept(p)
  PROVE  WritesGuarded' /\ CopiesGuarded'
<1>1. TypeOK /\ WritesGuarded /\ CopiesGuarded
  BY DEF Inv
<1>2. ASSUME NEW i \in DOMAIN inflight', NEW n, n = inflight'[i].number
      PROVE  /\ \A b \in inflight'[i].writes : HeldGuard(b, n)' \/ QueueGuard(b, n)'
             /\ \A b \in inflight'[i].copies : QueueGuard(b, n)'
  <2>1. PICK k \in DOMAIN inflight : inflight'[i] = inflight[k] /\ inflight[k].number > p
    BY DEF StepsKept
  <2>2. inflight[k] \in Step /\ n = inflight[k].number
    BY <1>1, <1>2, <2>1, EntryTypes
  <2>3. /\ n \in Nat /\ n > p
        /\ inflight[k].writes \subseteq Blocks /\ inflight[k].copies \subseteq Blocks
    BY <1>1, <2>1, <2>2 DEF TypeOK, Step
  <2>4. /\ \A b \in inflight[k].writes : HeldGuard(b, n) \/ QueueGuard(b, n)
        /\ \A b \in inflight[k].copies : QueueGuard(b, n)
    BY <1>1, <2>2 DEF WritesGuarded, CopiesGuarded
  <2>5. \A b \in Blocks : /\ QueueGuard(b, n) => QueueGuard(b, n)'
                          /\ HeldGuard(b, n) => HeldGuard(b, n)' \/ QueueGuard(b, n)'
    BY <1>1, <2>3, GuardsKept
  <2> QED
    BY <2>1, <2>3, <2>4, <2>5
<1> QED
  BY <1>2 DEF WritesGuarded, CopiesGuarded, HeldGuard, QueueGuard

-----------------------------------------------------------------------------
(* The actions that leave the steps in flight alone.                       *)

\* Freeing the requests R, from a queue that has every entry fenced after p.
LEMMA FreeFences ==
  ASSUME TypeOK, NEW queue \in Seq(Entry), NEW R \in SUBSET Reqs, NEW p \in Nat,
         \A j \in DOMAIN deferred_frees : deferred_frees[j].fence > p =>
           \E m \in DOMAIN queue : queue[m] = deferred_frees[j],
         deferred_frees' = DeferRequestBlocks(queue, R, p)
  PROVE  /\ deferred_frees' \in Seq(Entry)
         /\ EntriesKept(p)
         /\ \A r \in R : BlocksFenced(r, p)
<1> DEFINE q == DeferRequestBlocks(queue, R, p)
<1>1. /\ q \in Seq(Entry)
      /\ \A j \in DOMAIN queue : \E m \in DOMAIN q : q[m] = queue[j]
      /\ \A r \in R : \A b \in held[r] : last_sched_seq[r] > p
           => \E m \in DOMAIN q : b \in q[m].blocks /\ q[m].fence = sched_step_seq
  BY DeferKeeps
<1> HIDE DEF q
<1>2. deferred_frees' = q
  BY DEF q
<1> QED
  BY <1>1, <1>2 DEF EntriesKept, BlocksFenced

\* The same, from the queue as it is.
LEMMA FreeNow ==
  ASSUME TypeOK, NEW R \in SUBSET Reqs,
         deferred_frees' = DeferRequestBlocks(deferred_frees, R, processed_step_seq)
  PROVE  /\ deferred_frees' \in Seq(Entry)
         /\ EntriesKept(processed_step_seq)
         /\ \A r \in R : BlocksFenced(r, processed_step_seq)
<1>1. deferred_frees \in Seq(Entry) /\ processed_step_seq \in Nat
  BY DEF TypeOK, Entry
<1> QED
  BY <1>1, FreeFences

LEMMA SameSteps ==
  ASSUME Inv, UNCHANGED <<inflight, seqs>>
  PROVE  StepsKept(processed_step_seq) /\ StepsOrdered' /\ processed_step_seq \in Nat
BY DEF Inv, StepsOrdered, StepsKept, TypeOK, seqs

\* An action that launches and processes nothing, and takes no block from a
\* load, preserves the invariant.
LEMMA QuietStep ==
  ASSUME Inv, TypeOK', UNCHANGED <<inflight, seqs>>,
         EntriesKept(processed_step_seq), RunnersKept(processed_step_seq),
         LoadsApart', BatchRuns'
  PROVE  Inv'
<1>1. StepsKept(processed_step_seq) /\ StepsOrdered' /\ processed_step_seq \in Nat
  BY SameSteps
<1> QED
  BY <1>1, GuardsCarry DEF Inv

\* No block that a launched step writes is in the pool.
LEMMA InvNoInFlightWriteToPool ==
  ASSUME Inv PROVE NoInFlightWriteToPool
BY GuardedIsHeld DEF Inv, WritesGuarded, NoInFlightWriteToPool

\* The fresh blocks of an allocation are in nobody's load and in no write.
LEMMA FreshIsApart ==
  ASSUME Inv, NEW fresh \in SUBSET FreePool
  PROVE  /\ \A r \in Reqs : fresh \cap held[r] = {} /\ fresh \cap loadDst[r] = {}
         /\ \A i \in DOMAIN inflight : fresh \cap inflight[i].writes = {}
<1>1. \A r \in Reqs : fresh \cap held[r] = {}
  BY DEF FreePool
<1>2. \A r \in Reqs : fresh \cap loadDst[r] = {}
  BY <1>1 DEF Inv, LoadsApart
<1> QED
  BY <1>1, <1>2, InvNoInFlightWriteToPool DEF NoInFlightWriteToPool

LEMMA AdmitKeepsInv ==
  ASSUME Inv, NEW r \in Reqs, NEW adopted \in SUBSET Blocks, NEW fresh \in SUBSET Blocks,
         NEW src \in SUBSET Blocks, Admit(r, adopted, fresh, src)
  PROVE  Inv'
<1>1. TypeOK' /\ UNCHANGED <<inflight, seqs>>
  BY DEF Inv, TypeOK, Admit, States, seqs
<1>2. EntriesKept(processed_step_seq)
  BY DEF Admit, EntriesKept
<1>3. RunnersKept(processed_step_seq)
  BY DEF Admit, RunnersKept, RunnerKept, Inv, TypeOK
<1>4. LoadsApart'
  <2>1. \A s \in Reqs : adopted \cap loadDst[s] = {} /\ fresh \cap loadDst[s] = {}
    BY FreshIsApart DEF Admit, Cacheable
  <2> QED
    BY <2>1 DEF Admit, LoadsApart, Loading, Inv, TypeOK
<1>5. BatchRuns'
  BY DEF Admit, BatchRuns, Inv, TypeOK
<1> QED
  BY <1>1, <1>2, <1>3, <1>4, <1>5, QuietStep

LEMMA GrowKeepsInv ==
  ASSUME Inv, NEW r \in Reqs, NEW fresh \in SUBSET Blocks,
         Grow(r, fresh) \/ Resume(r, fresh)
  PROVE  Inv'
<1>1. TypeOK' /\ UNCHANGED <<inflight, seqs>>
  BY DEF Inv, TypeOK, Grow, Resume, States, seqs
<1>2. EntriesKept(processed_step_seq)
  BY DEF Grow, Resume, EntriesKept
<1>3. RunnersKept(processed_step_seq)
  <2>1. \A s \in Reqs : held[s] \subseteq held'[s]
    BY DEF Grow, Resume, Inv, TypeOK
  <2>2. \A s \in Reqs : state[s] = "RUNNING" => state'[s] = "RUNNING"
    BY DEF Grow, Resume, Inv, TypeOK
  <2>3. \A s \in Reqs : last_sched_seq'[s] = last_sched_seq[s] /\ last_sched_seq[s] \in Nat
    BY DEF Grow, Resume, Inv, TypeOK
  <2> QED
    BY <2>1, <2>2, <2>3 DEF RunnersKept, RunnerKept
<1>4. LoadsApart'
  <2>1. \A s \in Reqs : fresh \cap loadDst[s] = {}
    BY FreshIsApart DEF Grow, Resume
  <2> QED
    BY <2>1 DEF Grow, Resume, LoadsApart, Loading, Inv, TypeOK
<1>5. BatchRuns'
  BY DEF Grow, Resume, BatchRuns, Inv, TypeOK
<1> QED
  BY <1>1, <1>2, <1>3, <1>4, <1>5, QuietStep

LEMMA StartLoadKeepsInv ==
  ASSUME Inv, NEW r \in Reqs, NEW adopted \in SUBSET Blocks, NEW fresh \in SUBSET Blocks,
         StartLoad(r, adopted, fresh)
  PROVE  Inv'
<1>1. TypeOK' /\ UNCHANGED <<inflight, seqs>>
  BY DEF Inv, TypeOK, StartLoad, States, seqs
<1>2. EntriesKept(processed_step_seq)
  BY DEF StartLoad, EntriesKept
<1>3. RunnersKept(processed_step_seq)
  BY DEF StartLoad, RunnersKept, RunnerKept, Inv, TypeOK
<1>4. LoadsApart'
  <2>1. /\ \A s \in Reqs : /\ adopted \cap loadDst[s] = {}
                           /\ fresh \cap loadDst[s] = {} /\ fresh \cap held[s] = {}
        /\ \A i \in DOMAIN inflight : fresh \cap inflight[i].writes = {}
    BY FreshIsApart DEF StartLoad, Cacheable
  <2> QED
    BY <2>1 DEF StartLoad, LoadsApart, Loading, Inv, TypeOK
<1>5. BatchRuns'
  BY DEF StartLoad, BatchRuns, Inv, TypeOK
<1> QED
  BY <1>1, <1>2, <1>3, <1>4, <1>5, QuietStep

\* _preempt_request and finish_requests free one request.
LEMMA FreeOneKeepsInv ==
  ASSUME Inv, NEW r \in Reqs, Preempt(r) \/ Abort(r)
  PROVE  Inv'
<1>1. deferred_frees' = DeferRequestBlocks(deferred_frees, {r}, processed_step_seq)
  BY DEF Preempt, Abort
<1>2. /\ deferred_frees' \in Seq(Entry)
      /\ EntriesKept(processed_step_seq)
      /\ BlocksFenced(r, processed_step_seq)
  BY <1>1, FreeNow DEF Inv
<1>3. TypeOK' /\ UNCHANGED <<inflight, seqs>>
  BY <1>2 DEF Inv, TypeOK, Preempt, Abort, States, seqs, Entry
<1>4. RunnersKept(processed_step_seq)
  <2>1. ASSUME NEW s \in Reqs, s # r, state[s] = "RUNNING" PROVE RunnerKept(s)
    BY <2>1 DEF Preempt, Abort, RunnerKept, Inv, TypeOK
  <2> QED
    BY <1>2, <2>1 DEF RunnersKept
<1>5. LoadsApart'
  <2>1. loadDst[r] = {} /\ LoadsApart
    BY DEF Preempt, Abort, LoadsApart, Loading, Inv
  <2>2. held'[r] = {} /\ loadDst' = loadDst /\ inflight' = inflight
    BY DEF Preempt, Abort, Inv, TypeOK
  <2>3. \A s \in Reqs \ {r} : held'[s] = held[s] /\ state'[s] = state[s]
    BY DEF Preempt, Abort, Inv, TypeOK
  <2> QED
    BY <2>1, <2>2, <2>3 DEF LoadsApart, Loading
<1>6. BatchRuns'
  BY DEF Preempt, Abort, BatchRuns, Inv, TypeOK
<1> QED
  BY <1>2, <1>3, <1>4, <1>5, <1>6, QuietStep

LEMMA ResetKeepsInv ==
  ASSUME Inv, ResetPrefixCache
  PROVE  Inv'
<1> DEFINE running == {r \in Reqs : state[r] = "RUNNING"}
<1>1. /\ deferred_frees' = DeferRequestBlocks(deferred_frees, running, processed_step_seq)
      /\ state' = [r \in Reqs |-> IF r \in running THEN "WAITING" ELSE state[r]]
      /\ held' = [r \in Reqs |-> IF r \in running THEN {} ELSE held[r]]
      /\ batch = {}
      /\ UNCHANGED <<loadDst, last_sched_seq, batch, copySrc, seqs, inflight>>
  BY DEF ResetPrefixCache
<1>2. \A r \in Reqs : r \in running <=> state[r] = "RUNNING"
  OBVIOUS
<1>3. running \in SUBSET Reqs
  OBVIOUS
<1> HIDE DEF running
<1>4. /\ deferred_frees' \in Seq(Entry)
      /\ EntriesKept(processed_step_seq)
      /\ \A r \in running : BlocksFenced(r, processed_step_seq)
  BY <1>1, <1>3, FreeNow DEF Inv
<1>5. TypeOK' /\ UNCHANGED <<inflight, seqs>>
  BY <1>1, <1>4 DEF Inv, TypeOK, States, seqs, Entry
<1>6. RunnersKept(processed_step_seq)
  BY <1>2, <1>4 DEF RunnersKept
<1>7. LoadsApart'
  BY <1>1, <1>2 DEF LoadsApart, Loading, Inv, TypeOK
<1>8. BatchRuns'
  BY <1>1 DEF BatchRuns
<1> QED
  BY <1>4, <1>5, <1>6, <1>7, <1>8, QuietStep

LEMMA AbortLoadKeepsInv ==
  ASSUME Inv, NEW r \in Reqs, AbortLoad(r)
  PROVE  Inv'
<1>1. TypeOK' /\ UNCHANGED <<inflight, seqs>>
  BY DEF Inv, TypeOK, AbortLoad, States, seqs
<1>2. EntriesKept(processed_step_seq)
  BY DEF AbortLoad, EntriesKept
<1>3. RunnersKept(processed_step_seq)
  BY DEF AbortLoad, RunnersKept, RunnerKept, Inv, TypeOK
<1>4. LoadsApart'
  BY DEF AbortLoad, LoadsApart, Loading, Inv, TypeOK
<1>5. BatchRuns'
  BY DEF AbortLoad, BatchRuns
<1> QED
  BY <1>1, <1>2, <1>3, <1>4, <1>5, QuietStep

LEMMA EndLoadKeepsInv ==
  ASSUME Inv, NEW r \in Reqs, NEW failed \in BOOLEAN, EndLoad(r, failed)
  PROVE  Inv'
<1>1. \/ deferred_frees' = DeferRequestBlocks(deferred_frees, {r}, processed_step_seq)
      \/ deferred_frees' = deferred_frees
  BY DEF EndLoad
<1>2. deferred_frees' \in Seq(Entry) /\ EntriesKept(processed_step_seq)
  <2>1. CASE deferred_frees' = deferred_frees
    BY <2>1 DEF EntriesKept, Inv, TypeOK, Entry
  <2> QED
    BY <1>1, <2>1, FreeNow DEF Inv
<1>3. TypeOK' /\ UNCHANGED <<inflight, seqs>>
  BY <1>2 DEF Inv, TypeOK, EndLoad, States, seqs, Entry
<1>4. RunnersKept(processed_step_seq)
  <2>1. ASSUME NEW s \in Reqs, state[s] = "RUNNING" PROVE RunnerKept(s)
    <3>1. s # r
      BY <2>1 DEF EndLoad, Loading
    <3>2. state'[s] = state[s] /\ held'[s] = held[s]
      BY <3>1 DEF EndLoad, Inv, TypeOK
    <3>3. last_sched_seq'[s] = last_sched_seq[s] /\ last_sched_seq[s] \in Nat
      BY DEF EndLoad, Inv, TypeOK
    <3> QED
      BY <2>1, <3>2, <3>3 DEF RunnerKept
  <2> QED
    BY <2>1 DEF RunnersKept
<1>5. LoadsApart'
  <2>1. /\ loadDst'[r] = {} /\ held'[r] \subseteq held[r]
        /\ inflight' = inflight
    BY DEF EndLoad, Inv, TypeOK
  <2>2. \A s \in Reqs \ {r} : /\ loadDst'[s] = loadDst[s] /\ held'[s] = held[s]
                              /\ state'[s] = state[s]
    BY DEF EndLoad, Inv, TypeOK
  <2>3. LoadsApart
    BY DEF Inv
  <2> QED
    BY <2>1, <2>2, <2>3 DEF LoadsApart, Loading
<1>6. BatchRuns'
  BY DEF EndLoad, BatchRuns
<1> QED
  BY <1>2, <1>3, <1>4, <1>5, <1>6, QuietStep

-----------------------------------------------------------------------------
(* Launching and processing a step.                                        *)

LEMMA LaunchKeepsInv ==
  ASSUME Inv, Launch
  PROVE  Inv'
<1> DEFINE fence == [fence |-> sched_step_seq + 1, blocks |-> copySrc]
           step == [number |-> sched_step_seq + 1, reqs |-> batch,
                    writes |-> UNION {held[r] : r \in batch}, copies |-> copySrc]
           last == Len(inflight) + 1
<1>1. TypeOK /\ sched_step_seq \in Nat /\ processed_step_seq \in Nat
  BY DEF Inv, TypeOK
<1>2. /\ deferred_frees' = IF copySrc = {} THEN deferred_frees
                           ELSE Append(deferred_frees, fence)
      /\ inflight' = Append(inflight, step)
      /\ sched_step_seq' = IF batch = {} THEN sched_step_seq ELSE sched_step_seq + 1
      /\ last_sched_seq' = [r \in Reqs |-> IF r \in batch THEN sched_step_seq'
                                           ELSE last_sched_seq[r]]
      /\ batch' = {} /\ copySrc' = {}
      /\ UNCHANGED <<state, held, loadDst, processed_step_seq>>
  BY DEF Launch, CopyFence
<1>3. /\ step.number = sched_step_seq + 1 /\ step.reqs = batch /\ step.copies = copySrc
      /\ step.writes = UNION {held[r] : r \in batch}
      /\ fence.fence = sched_step_seq + 1 /\ fence.blocks = copySrc
  OBVIOUS
<1>4. step \in Step /\ fence \in Entry
  BY <1>1 DEF TypeOK, Step, Entry
<1> HIDE DEF fence, step
<1>5. Entry \subseteq Entry' /\ Step \subseteq Step'
  BY <1>1, <1>2 DEF Entry, Step
<1>6. inflight \in Seq(Step) /\ deferred_frees \in Seq(Entry)
  BY <1>1 DEF TypeOK, Entry, Step
<1>7. /\ inflight' \in Seq(Step) /\ Len(inflight') = last
      /\ \A i \in 1 .. Len(inflight) : inflight'[i] = inflight[i]
      /\ inflight'[last] = step
      /\ Len(inflight) \in Nat
      /\ DOMAIN inflight = 1 .. Len(inflight) /\ DOMAIN inflight' = 1 .. last
  BY <1>2, <1>4, <1>6, AppendProperties, LenProperties
<1>8. /\ deferred_frees' \in Seq(Entry)
      /\ \A j \in DOMAIN deferred_frees :
           j \in DOMAIN deferred_frees' /\ deferred_frees'[j] = deferred_frees[j]
      /\ copySrc # {} => \E m \in DOMAIN deferred_frees' : deferred_frees'[m] = fence
  <2>1. CASE copySrc = {}
    BY <1>2, <1>6, <2>1
  <2>2. CASE copySrc # {}
    BY <1>2, <1>4, <1>6, <2>2, AppendProperties, LenProperties
  <2> QED
    BY <2>1, <2>2
<1>9. inflight' \in Seq(Step') /\ deferred_frees' \in Seq(Entry')
  BY <1>5, <1>7, <1>8, SeqMonotonic
<1>10. TypeOK'
  BY <1>1, <1>2, <1>9, SMTT(30) DEF TypeOK, States, Entry, Step
<1>11. StepsOrdered'
  <2>1. StepsOrdered
    BY DEF Inv
  <2>2. \A i \in DOMAIN inflight : inflight[i].number \in Nat
    BY <1>1, EntryTypes DEF Step
  <2>3. ASSUME NEW i \in DOMAIN inflight'
        PROVE  /\ inflight'[i].number > processed_step_seq'
               /\ inflight'[i].reqs # {} => inflight'[i].number <= sched_step_seq'
    <3>1. CASE i = last
      BY <1>1, <1>2, <1>3, <1>7, <3>1 DEF TypeOK
    <3>2. CASE i \in DOMAIN inflight
      BY <1>1, <1>2, <1>7, <2>1, <2>2, <3>2 DEF StepsOrdered
    <3> QED
      BY <1>7, <3>1, <3>2
  <2>4. ASSUME NEW i \in DOMAIN inflight', NEW j \in DOMAIN inflight',
               i < j, inflight'[i].reqs # {}
        PROVE  inflight'[i].number < inflight'[j].number
    <3>1. i \in DOMAIN inflight
      BY <1>7, <2>4
    <3>2. CASE j = last
      BY <1>1, <1>3, <1>7, <2>1, <2>2, <2>4, <3>1, <3>2 DEF StepsOrdered
    <3>3. CASE j \in DOMAIN inflight
      BY <1>7, <2>1, <2>4, <3>1, <3>3 DEF StepsOrdered
    <3> QED
      BY <1>7, <3>2, <3>3
  <2> QED
    BY <2>3, <2>4 DEF StepsOrdered
<1>12. WritesGuarded' /\ CopiesGuarded'
  <2>1. EntriesKept(processed_step_seq)
    BY <1>8 DEF EntriesKept
  <2>2. RunnersKept(processed_step_seq)
    BY <1>1, <1>2 DEF RunnersKept, RunnerKept, TypeOK
  <2>3. ASSUME NEW i \in DOMAIN inflight', NEW n, n = inflight'[i].number
        PROVE  /\ \A b \in inflight'[i].writes : HeldGuard(b, n)' \/ QueueGuard(b, n)'
               /\ \A b \in inflight'[i].copies : QueueGuard(b, n)'
    <3>1. CASE i = last
      <4>1. n = sched_step_seq + 1 /\ inflight'[i] = step
        BY <1>3, <1>7, <2>3, <3>1
      <4>2. ASSUME NEW b \in step.writes PROVE HeldGuard(b, n)'
        <5>1. PICK r \in batch : b \in held[r]
          BY <1>3, <4>2
        <5>2. r \in Reqs /\ state[r] = "RUNNING"
          BY DEF Inv, TypeOK, BatchRuns
        <5>3. last_sched_seq'[r] = n
          BY <1>2, <4>1, <5>2
        <5>4. n \in Nat
          BY <1>1, <4>1
        <5> QED
          BY <1>2, <5>1, <5>2, <5>3, <5>4 DEF HeldGuard
      <4>3. ASSUME NEW b \in step.copies PROVE QueueGuard(b, n)'
        <5>1. b \in copySrc
          BY <1>3, <4>3
        <5>2. n \in Nat
          BY <1>1, <4>1
        <5> QED
          BY <1>3, <1>8, <4>1, <5>1, <5>2 DEF QueueGuard
      <4> QED
        BY <4>1, <4>2, <4>3
    <3>2. CASE i \in DOMAIN inflight
      <4>1. inflight'[i] = inflight[i] /\ inflight[i] \in Step
        BY <1>1, <1>7, <3>2, EntryTypes
      <4>2. n \in Nat /\ n > processed_step_seq
        BY <1>1, <2>3, <3>2, <4>1 DEF Inv, StepsOrdered, Step
      <4>3. inflight[i].writes \subseteq Blocks /\ inflight[i].copies \subseteq Blocks
        BY <4>1 DEF Step
      <4>4. /\ \A b \in inflight[i].writes : HeldGuard(b, n) \/ QueueGuard(b, n)
            /\ \A b \in inflight[i].copies : QueueGuard(b, n)
        BY <2>3, <3>2, <4>1 DEF Inv, WritesGuarded, CopiesGuarded
      <4>5. \A b \in Blocks : /\ QueueGuard(b, n) => QueueGuard(b, n)'
                              /\ HeldGuard(b, n) => HeldGuard(b, n)' \/ QueueGuard(b, n)'
        BY <1>1, <2>1, <2>2, <4>2, GuardsKept
      <4> QED
        BY <4>1, <4>3, <4>4, <4>5
    <3> QED
      BY <1>7, <3>1, <3>2
  <2> QED
    BY <2>3 DEF WritesGuarded, CopiesGuarded, HeldGuard, QueueGuard
<1>13. LoadsApart'
  <2>1. \A r \in Reqs : loadDst[r] \cap step.writes = {}
    <3>1. ASSUME NEW r \in Reqs, NEW s \in batch PROVE loadDst[r] \cap held[s] = {}
      <4>1. s \in Reqs /\ state[s] = "RUNNING"
        BY DEF Inv, TypeOK, BatchRuns
      <4>2. CASE s = r
        BY <4>1, <4>2 DEF Inv, LoadsApart, Loading
      <4>3. CASE s # r
        BY <4>1, <4>3 DEF Inv, LoadsApart
      <4> QED
        BY <4>2, <4>3
    <3> QED
      BY <1>3, <3>1
  <2> QED
    BY <1>2, <1>7, <2>1 DEF Inv, LoadsApart, Loading
<1>14. BatchRuns'
  BY <1>2 DEF BatchRuns
<1> QED
  BY <1>10, <1>11, <1>12, <1>13, <1>14 DEF Inv

LEMMA ProcessKeepsInv ==
  ASSUME Inv, NEW stopped \in SUBSET Reqs, Process(stopped)
  PROVE  Inv'
<1> DEFINE empty == Head(inflight).reqs = {}
           p == IF empty THEN processed_step_seq ELSE processed_step_seq + 1
           drained == IF empty THEN deferred_frees ELSE Drained(deferred_frees, p)
<1>1. /\ TypeOK /\ StepsOrdered /\ LoadsApart
      /\ sched_step_seq \in Nat /\ processed_step_seq \in Nat
  BY DEF Inv, TypeOK
<1>2. /\ processed_step_seq' = p
      /\ deferred_frees' = DeferRequestBlocks(drained, stopped, p)
      /\ inflight' = Tail(inflight) /\ inflight # <<>>
      /\ state' = [r \in Reqs |-> IF r \in stopped THEN "WAITING" ELSE state[r]]
      /\ held' = [r \in Reqs |-> IF r \in stopped THEN {} ELSE held[r]]
      /\ batch = {}
      /\ UNCHANGED <<loadDst, last_sched_seq, batch, copySrc, sched_step_seq>>
      /\ \A r \in stopped : state[r] = "RUNNING"
  BY DEF Process
<1>3. inflight \in Seq(Step) /\ deferred_frees \in Seq(Entry)
  BY <1>1 DEF TypeOK, Step, Entry
<1>4. /\ Len(inflight) \in Nat /\ Len(inflight) > 0
      /\ DOMAIN inflight = 1 .. Len(inflight)
      /\ Head(inflight) = inflight[1] /\ 1 \in DOMAIN inflight
  BY <1>2, <1>3, LenProperties, EmptySeq
<1>5. /\ inflight' \in Seq(Step)
      /\ DOMAIN inflight' = 1 .. Len(inflight) - 1
      /\ \A i \in DOMAIN inflight' : inflight'[i] = inflight[i + 1]
  BY <1>2, <1>3, <1>4, HeadTailProperties, LenProperties
<1>6. inflight[1] \in Step /\ (~empty => inflight[1].number <= sched_step_seq)
  BY <1>1, <1>4, EntryTypes DEF StepsOrdered
<1>7. p \in Nat /\ p <= sched_step_seq /\ processed_step_seq <= p
  <2>1. processed_step_seq <= sched_step_seq
    BY <1>1 DEF TypeOK
  <2>2. CASE empty
    BY <1>1, <2>1, <2>2
  <2>3. CASE ~empty
    <3>1. /\ inflight[1].number \in Nat
          /\ inflight[1].number > processed_step_seq
          /\ inflight[1].number <= sched_step_seq
      BY <1>1, <1>4, <1>6, <2>3 DEF StepsOrdered, Step
    <3> HIDE DEF empty
    <3>2. p = processed_step_seq + 1
      BY <2>3
    <3> QED
      BY <1>1, <3>1, <3>2
  <2> QED
    BY <2>2, <2>3
<1>8. \A k \in DOMAIN inflight : k > 1 => inflight[k].number > p
  <2>1. ASSUME NEW k \in DOMAIN inflight, k > 1 PROVE inflight[k].number > p
    <3>1. inflight[k] \in Step /\ inflight[k].number > processed_step_seq
      BY <1>1, EntryTypes DEF StepsOrdered
    <3>2. CASE empty
      BY <3>1, <3>2
    <3>3. CASE ~empty
      <4>1. inflight[1].number > processed_step_seq /\ inflight[1].number < inflight[k].number
        BY <1>1, <1>4, <2>1, <3>3 DEF StepsOrdered
      <4> QED
        BY <1>1, <1>6, <3>1, <3>3, <4>1 DEF Step
    <3> QED
      BY <3>2, <3>3
  <2> QED
    BY <2>1
<1>9. /\ drained \in Seq(Entry)
      /\ \A j \in DOMAIN deferred_frees : deferred_frees[j].fence > p =>
           \E m \in DOMAIN drained : drained[m] = deferred_frees[j]
  <2>1. CASE empty
    BY <1>3, <2>1
  <2>2. CASE ~empty
    BY <1>1, <1>3, <1>7, <2>2, DrainKeeps
  <2> QED
    BY <2>1, <2>2
<1> HIDE DEF p, drained, empty
<1>10. /\ deferred_frees' \in Seq(Entry)
       /\ EntriesKept(p)
       /\ \A r \in stopped : BlocksFenced(r, p)
  BY <1>1, <1>2, <1>7, <1>9, FreeFences
<1>11. TypeOK'
  BY <1>1, <1>2, <1>5, <1>7, <1>10 DEF TypeOK, States, Entry, Step
<1>12. StepsOrdered'
  <2>1. \A i \in DOMAIN inflight' : i + 1 \in DOMAIN inflight /\ i + 1 > 1
    BY <1>4, <1>5
  <2>2. \A i, j \in DOMAIN inflight' : i < j => i + 1 < j + 1
    BY <1>5
  <2> QED
    BY <1>1, <1>2, <1>5, <1>8, <2>1, <2>2 DEF StepsOrdered
<1>13. WritesGuarded' /\ CopiesGuarded'
  <2>1. RunnersKept(p)
    <3>1. ASSUME NEW s \in Reqs, s \notin stopped, state[s] = "RUNNING" PROVE RunnerKept(s)
      BY <1>1, <1>2, <3>1 DEF RunnerKept, TypeOK
    <3> QED
      BY <1>10, <3>1 DEF RunnersKept
  <2>2. StepsKept(p)
    <3>1. \A i \in DOMAIN inflight' : i + 1 \in DOMAIN inflight /\ i + 1 > 1
      BY <1>4, <1>5
    <3> QED
      BY <1>5, <1>8, <3>1 DEF StepsKept
  <2> QED
    BY <1>7, <1>10, <2>1, <2>2, GuardsCarry
<1>14. LoadsApart'
  <2>1. \A i \in DOMAIN inflight' : i + 1 \in DOMAIN inflight
    BY <1>4, <1>5
  <2>2. \A s \in Reqs : held'[s] \subseteq held[s]
    BY <1>2
  <2>3. ASSUME NEW s \in Reqs, loadDst[s] # {} PROVE state'[s] = state[s] /\ held'[s] = held[s]
    BY <1>1, <1>2, <2>3 DEF LoadsApart, Loading
  <2> QED
    BY <1>1, <1>2, <1>5, <2>1, <2>2, <2>3 DEF LoadsApart, Loading
<1>15. BatchRuns'
  BY <1>2 DEF BatchRuns
<1> QED
  BY <1>11, <1>12, <1>13, <1>14, <1>15 DEF Inv

-----------------------------------------------------------------------------
(* The theorems.                                                           *)

LEMMA InitInv == Init => Inv
<1> SUFFICES ASSUME Init PROVE Inv
  OBVIOUS
<1>1. deferred_frees \in Seq(Entry) /\ inflight \in Seq(Step)
  BY EmptySeq DEF Init
<1>2. DOMAIN inflight = {} /\ DOMAIN deferred_frees = {}
  BY DEF Init
<1>3. TypeOK
  BY <1>1 DEF Init, TypeOK, States, Entry, Step
<1> QED
  BY <1>2, <1>3 DEF Init, Inv, StepsOrdered, WritesGuarded, CopiesGuarded, LoadsApart, BatchRuns

LEMMA StutterInv == Inv /\ UNCHANGED vars => Inv'
BY DEF Inv, vars, seqs, TypeOK, StepsOrdered, WritesGuarded, CopiesGuarded, LoadsApart,
       BatchRuns, HeldGuard, QueueGuard, Loading

LEMMA NextInv == Inv /\ [Next]_vars => Inv'
<1> SUFFICES ASSUME Inv, Next PROVE Inv'
  BY StutterInv
<1> FreePool \subseteq Blocks /\ Cacheable \subseteq Blocks
  BY DEF FreePool, Cacheable
<1>1. CASE \E fresh \in SUBSET FreePool, adopted, src \in SUBSET Cacheable, r \in Reqs :
             Admit(r, adopted, fresh, src)
  BY <1>1, AdmitKeepsInv
<1>2. CASE \E fresh \in SUBSET FreePool, r \in Reqs : Grow(r, fresh)
  BY <1>2, GrowKeepsInv
<1>3. CASE \E fresh \in SUBSET FreePool, r \in Reqs : Resume(r, fresh)
  BY <1>3, GrowKeepsInv
<1>4. CASE \E fresh \in SUBSET FreePool, adopted \in SUBSET Cacheable, r \in Reqs :
             StartLoad(r, adopted, fresh)
  BY <1>4, StartLoadKeepsInv
<1>5. CASE \E r \in Reqs : Preempt(r)
  BY <1>5, FreeOneKeepsInv
<1>6. CASE ResetPrefixCache
  BY <1>6, ResetKeepsInv
<1>7. CASE Launch
  BY <1>7, LaunchKeepsInv
<1>8. CASE \E stopped \in SUBSET Reqs : Process(stopped)
  BY <1>8, ProcessKeepsInv
<1>9. CASE \E r \in Reqs : Abort(r)
  BY <1>9, FreeOneKeepsInv
<1>10. CASE \E r \in Reqs : AbortLoad(r)
  BY <1>10, AbortLoadKeepsInv
<1>11. CASE \E r \in Reqs, failed \in BOOLEAN : EndLoad(r, failed)
  BY <1>11, EndLoadKeepsInv
<1> QED
  BY <1>1, <1>2, <1>3, <1>4, <1>5, <1>6, <1>7, <1>8, <1>9, <1>10, <1>11 DEF Next

\* The inductive invariant holds in every reachable state.
THEOREM Invariance == Spec => []Inv
<1> QED
  BY InitInv, NextInv, PTL DEF Spec

\* Every variable keeps its type; in particular no more steps are counted as
\* processed than were scheduled.
THEOREM TypeCorrect == Spec => []TypeOK
<1>1. Inv => TypeOK
  BY DEF Inv
<1> QED
  BY <1>1, Invariance, PTL

\* Whatever the requests, the blocks and the depth of the pipeline, no block
\* that a launched step may still write is in the pool: no way of freeing a
\* request (preemption, stop, abort, cache reset, failed load) gets around
\* the fence of _free_request_blocks.
THEOREM NoInFlightWrite == Spec => []NoInFlightWriteToPool
<1> QED
  BY InvNoInFlightWriteToPool, Invariance, PTL

\* An asynchronous load and a launched step never write the same block, and
\* the blocks of a load are out of the pool and in no other request's table.
THEOREM LoadsAreIsolated == Spec => []LoadsIsolated
<1>1. Inv => LoadsIsolated
  BY DEF Inv, LoadsApart, LoadsIsolated, FreePool
<1> QED
  BY <1>1, Invariance, PTL

\* The source of a pending copy-on-write copy is out of the pool until the
\* step that runs the copy has been processed.
THEOREM CopySourcesAreRetained == Spec => []CopySourcesRetained
<1>1. Inv => CopySourcesRetained
  BY GuardedIsHeld DEF Inv, CopiesGuarded, CopySourcesRetained
<1> QED
  BY <1>1, Invariance, PTL

-----------------------------------------------------------------------------
(***************************************************************************)
(* Machine-checked proofs about the queue of deferred frees of BlockFence: *)
(* it is drained from its head only, which is right because its fences are *)
(* nearly in order, and complete because its head is always a fence still  *)
(* to come.                                                                *)
(***************************************************************************)

Ordered(q) == \A i, j \in DOMAIN q : i < j => q[i].fence <= q[j].fence + 1

HeadFenced(q, processed) == q # <<>> => Head(q).fence > processed

\* Every number given to a step and not yet processed is in flight.
NumbersInFlight ==
  \A n \in (processed_step_seq + 1) .. sched_step_seq :
    \E i \in DOMAIN inflight : inflight[i].reqs # {} /\ inflight[i].number = n

QueueInv == /\ Ordered(deferred_frees)
            /\ HeadFenced(deferred_frees, processed_step_seq)
            /\ NumbersInFlight

-----------------------------------------------------------------------------
\* An entry appended under a fence that is no lower than the current step
\* number, and still to come, keeps the queue in order.
LEMMA AppendOrders ==
  ASSUME NEW queue \in Seq(Entry), NEW p \in Nat, sched_step_seq \in Nat,
         Ordered(queue), HeadFenced(queue, p), NEW e \in Entry,
         e.fence >= sched_step_seq, e.fence > p
  PROVE  Ordered(Append(queue, e)) /\ HeadFenced(Append(queue, e), p)
<1> DEFINE q == Append(queue, e)
           n == Len(queue)
<1>1. n \in Nat /\ DOMAIN queue = 1 .. n
  BY LenProperties
<1>2. \A x \in Entry : x.fence \in Nat /\ x.fence <= sched_step_seq + 1
  BY DEF Entry
<1>3. \A i \in 1 .. n : queue[i].fence \in Nat /\ queue[i].fence <= sched_step_seq + 1
  BY <1>1, <1>2, ElementOfSeq
<1>4. /\ q \in Seq(Entry) /\ DOMAIN q = 1 .. n + 1
      /\ q[n + 1] = e /\ \A i \in 1 .. n : q[i] = queue[i]
  <2>1. /\ q \in Seq(Entry) /\ Len(q) = n + 1
        /\ q[n + 1] = e /\ \A i \in 1 .. n : q[i] = queue[i]
    BY <1>1, AppendProperties
  <2> HIDE DEF q
  <2> QED
    BY <2>1, LenProperties
<1> HIDE DEF q
<1>5. Ordered(q)
  <2> SUFFICES ASSUME NEW i \in 1 .. n + 1, NEW j \in 1 .. n + 1, i < j
               PROVE  q[i].fence <= q[j].fence + 1
    BY <1>4 DEF Ordered
  <2>1. i \in 1 .. n /\ i \in DOMAIN queue
    BY <1>1
  <2>2. CASE j = n + 1
    <3>1. q[i].fence = queue[i].fence /\ q[j].fence = e.fence /\ e.fence \in Nat
      BY <1>4, <1>2, <2>1, <2>2
    <3> QED
      BY <1>3, <2>1, <3>1
  <2>3. CASE j \in 1 .. n
    <3>1. j \in DOMAIN queue /\ q[i] = queue[i] /\ q[j] = queue[j]
      BY <1>1, <1>4, <2>1, <2>3
    <3> QED
      BY <2>1, <3>1 DEF Ordered
  <2> QED
    BY <1>1, <2>2, <2>3
<1>6. HeadFenced(q, p)
  <2>1. CASE queue = <<>>
    BY <2>1, <1>1, <1>4 DEF HeadFenced
  <2>2. CASE queue # <<>>
    <3>1. 1 \in 1 .. n /\ Head(queue) = queue[1]
      BY <2>2, <1>1, EmptySeq
    <3>2. Head(q) = q[1]
      BY <1>4
    <3> QED
      BY <3>1, <3>2, <1>4, <2>2 DEF HeadFenced
  <2> QED
    BY <2>1, <2>2
<1> QED
  BY <1>5, <1>6 DEF q

\* Freeing requests keeps the queue in order: what a request in flight leaves
\* is fenced by the latest step, which is still to be processed.
LEMMA DeferOrders ==
  ASSUME TypeOK, NEW queue \in Seq(Entry), NEW R \in SUBSET Reqs, NEW p \in Nat,
         Ordered(queue), HeadFenced(queue, p)
  PROVE  LET q == DeferRequestBlocks(queue, R, p)
         IN  Ordered(q) /\ HeadFenced(q, p)
<1> DEFINE unsafe == {r \in R : last_sched_seq[r] > p}
           blocks == UNION {held[r] : r \in unsafe}
           e == [fence |-> sched_step_seq, blocks |-> blocks]
<1>1. DeferRequestBlocks(queue, R, p) = IF blocks = {} THEN queue ELSE Append(queue, e)
  BY DEF DeferRequestBlocks
<1>2. CASE blocks = {}
  BY <1>1, <1>2
<1>3. CASE blocks # {}
  <2>1. PICK r \in unsafe : TRUE
    BY <1>3
  <2>2. last_sched_seq[r] \in 0 .. sched_step_seq /\ last_sched_seq[r] > p /\ sched_step_seq \in Nat
    BY <2>1 DEF TypeOK
  <2>3. e \in Entry /\ e.fence = sched_step_seq /\ e.fence > p
    <3>1. blocks \subseteq Blocks
      BY DEF TypeOK
    <3> HIDE DEF blocks
    <3> QED
      BY <2>2, <3>1 DEF Entry
  <2> HIDE DEF e
  <2>4. Ordered(Append(queue, e)) /\ HeadFenced(Append(queue, e), p)
    BY <2>2, <2>3, AppendOrders
  <2> QED
    BY <1>1, <1>3, <2>4
<1> QED
  BY <1>2, <1>3

\* Draining leaves a queue in order, whose head is a fence still to come.
LEMMA DrainOrders ==
  ASSUME NEW queue \in Seq(Entry), NEW p \in Nat, sched_step_seq \in Nat, Ordered(queue)
  PROVE  LET q == Drained(queue, p)
         IN  Ordered(q) /\ HeadFenced(q, p)
<1> DEFINE pending == {j \in DOMAIN queue : queue[j].fence > p}
           least == CHOOSE j \in pending : \A k \in pending : j <= k
           q == Drained(queue, p)
<1>1. q = IF pending = {} THEN <<>> ELSE SubSeq(queue, least, Len(queue))
  BY DEF Drained
<1>2. DOMAIN queue = 1 .. Len(queue) /\ Len(queue) \in Nat
  BY LenProperties
<1>3. CASE pending = {}
  BY <1>1, <1>3 DEF Ordered, HeadFenced
<1>4. CASE pending # {}
  <2>1. least \in pending
    <3>1. pending \subseteq Nat
      BY <1>2
    <3>2. \E j \in pending : \A k \in pending : j <= k
      BY <3>1, <1>4, LeastNatural
    <3> QED
      BY <3>2
  <2>2. least \in 1 .. Len(queue) /\ queue[least].fence > p
    BY <1>2, <2>1
  <2> HIDE DEF least, q
  <2>3. /\ q = SubSeq(queue, least, Len(queue))
        /\ Len(q) = Len(queue) - least + 1 /\ DOMAIN q = 1 .. Len(q)
        /\ \A m \in 1 .. Len(q) : q[m] = queue[least + m - 1]
    BY <1>1, <1>2, <1>4, <2>2, SubSeqProperties, SMTT(30)
  <2>4. Ordered(q)
    <3> SUFFICES ASSUME NEW i \in DOMAIN q, NEW j \in DOMAIN q, i < j
                 PROVE  q[i].fence <= q[j].fence + 1
      BY DEF Ordered
    <3>1. /\ least + i - 1 \in DOMAIN queue /\ least + j - 1 \in DOMAIN queue
          /\ least + i - 1 < least + j - 1
      BY <1>2, <2>2, <2>3
    <3> QED
      BY <2>3, <3>1 DEF Ordered
  <2>5. q # <<>> /\ Head(q) = q[1] /\ q[1] = queue[least]
    <3>1. 1 \in 1 .. Len(q)
      BY <1>2, <2>2, <2>3
    <3>2. q[1] = queue[least]
      <4>1. least + 1 - 1 = least
        BY <2>2
      <4> QED
        BY <2>3, <3>1, <4>1
    <3>3. Len(<<>>) = 0
      OBVIOUS
    <3>4. q # <<>>
      BY <3>1, <3>3
    <3> QED
      BY <3>2, <3>4
  <2> QED
    BY <2>2, <2>4, <2>5 DEF HeadFenced, q
<1> QED
  BY <1>3, <1>4
-----------------------------------------------------------------------------
(* Every action keeps the queue in order.                                  *)

\* Freeing requests between two steps, or while one is built.
LEMMA FreeKeepsQueue ==
  ASSUME Inv, QueueInv, UNCHANGED <<inflight, seqs>>, NEW R \in SUBSET Reqs,
         deferred_frees' = DeferRequestBlocks(deferred_frees, R, processed_step_seq)
  PROVE  QueueInv'
<1>1. /\ TypeOK /\ deferred_frees \in Seq(Entry) /\ processed_step_seq \in Nat
      /\ Ordered(deferred_frees) /\ HeadFenced(deferred_frees, processed_step_seq)
  BY DEF Inv, TypeOK, Entry, QueueInv
<1> DEFINE q == DeferRequestBlocks(deferred_frees, R, processed_step_seq)
<1>2. Ordered(q) /\ HeadFenced(q, processed_step_seq)
  BY <1>1, DeferOrders
<1> HIDE DEF q
<1>3. deferred_frees' = q /\ processed_step_seq' = processed_step_seq
  BY DEF q, seqs
<1>4. NumbersInFlight'
  BY DEF QueueInv, NumbersInFlight, seqs
<1> QED
  BY <1>2, <1>3, <1>4 DEF QueueInv, Ordered, HeadFenced

\* The actions that leave the queue and the steps alone.
LEMMA SameQueue ==
  ASSUME QueueInv, UNCHANGED <<inflight, seqs, deferred_frees>>
  PROVE  QueueInv'
BY DEF QueueInv, NumbersInFlight, Ordered, HeadFenced, seqs

LEMMA LaunchKeepsQueue ==
  ASSUME Inv, QueueInv, Launch
  PROVE  QueueInv'
<1> DEFINE fence == [fence |-> sched_step_seq + 1, blocks |-> copySrc]
           step == [number |-> sched_step_seq + 1, reqs |-> batch,
                    writes |-> UNION {held[r] : r \in batch}, copies |-> copySrc]
<1>1. /\ TypeOK /\ sched_step_seq \in Nat /\ processed_step_seq \in Nat
      /\ processed_step_seq <= sched_step_seq
      /\ deferred_frees \in Seq(Entry) /\ inflight \in Seq(Step)
      /\ Ordered(deferred_frees) /\ HeadFenced(deferred_frees, processed_step_seq)
  BY DEF Inv, TypeOK, Entry, Step, QueueInv
<1>2. /\ deferred_frees' = IF copySrc = {} THEN deferred_frees
                           ELSE Append(deferred_frees, fence)
      /\ inflight' = Append(inflight, step)
      /\ sched_step_seq' = IF batch = {} THEN sched_step_seq ELSE sched_step_seq + 1
      /\ processed_step_seq' = processed_step_seq
  BY DEF Launch, CopyFence
<1>3. /\ step.number = sched_step_seq + 1 /\ step.reqs = batch /\ step \in Step
      /\ fence.fence = sched_step_seq + 1 /\ fence \in Entry
  BY <1>1 DEF TypeOK, Step, Entry
<1> HIDE DEF fence, step
<1>4. Ordered(deferred_frees') /\ HeadFenced(deferred_frees', processed_step_seq')
  <2>1. CASE copySrc = {}
    BY <1>1, <1>2, <2>1
  <2>2. CASE copySrc # {}
    <3>1. fence.fence >= sched_step_seq /\ fence.fence > processed_step_seq
      BY <1>1, <1>3
    <3> QED
      BY <1>1, <1>2, <1>3, <2>2, <3>1, AppendOrders
  <2> QED
    BY <2>1, <2>2
<1>5. /\ DOMAIN inflight \subseteq DOMAIN inflight' /\ Len(inflight) + 1 \in DOMAIN inflight'
      /\ \A i \in DOMAIN inflight : inflight'[i] = inflight[i]
      /\ inflight'[Len(inflight) + 1] = step
  BY <1>1, <1>2, <1>3, AppendProperties, LenProperties
<1>6. NumbersInFlight'
  <2> SUFFICES ASSUME NEW m \in (processed_step_seq' + 1) .. sched_step_seq'
               PROVE  \E i \in DOMAIN inflight' : inflight'[i].reqs # {} /\ inflight'[i].number = m
    BY DEF NumbersInFlight
  <2>1. CASE m \in (processed_step_seq + 1) .. sched_step_seq
    BY <1>5, <2>1 DEF QueueInv, NumbersInFlight
  <2>2. CASE m \notin (processed_step_seq + 1) .. sched_step_seq
    <3>1. batch # {} /\ m = sched_step_seq + 1
      BY <1>1, <1>2, <2>2
    <3> QED
      BY <1>3, <1>5, <3>1
  <2> QED
    BY <2>1, <2>2
<1> QED
  BY <1>4, <1>6 DEF QueueInv, Ordered, HeadFenced

LEMMA ProcessKeepsQueue ==
  ASSUME Inv, QueueInv, NEW stopped \in SUBSET Reqs, Process(stopped)
  PROVE  QueueInv'
<1> DEFINE empty == Head(inflight).reqs = {}
           p == IF empty THEN processed_step_seq ELSE processed_step_seq + 1
           drained == IF empty THEN deferred_frees ELSE Drained(deferred_frees, p)
           q == DeferRequestBlocks(drained, stopped, p)
<1>1. /\ TypeOK /\ StepsOrdered
      /\ sched_step_seq \in Nat /\ processed_step_seq \in Nat
      /\ deferred_frees \in Seq(Entry) /\ inflight \in Seq(Step)
      /\ Ordered(deferred_frees) /\ HeadFenced(deferred_frees, processed_step_seq)
  BY DEF Inv, TypeOK, Entry, Step, QueueInv
<1>2. /\ processed_step_seq' = p /\ sched_step_seq' = sched_step_seq
      /\ deferred_frees' = q
      /\ inflight' = Tail(inflight) /\ inflight # <<>>
  BY DEF Process
<1>3. /\ Len(inflight) \in Nat /\ Len(inflight) > 0
      /\ DOMAIN inflight = 1 .. Len(inflight)
      /\ Head(inflight) = inflight[1] /\ 1 \in DOMAIN inflight
  BY <1>1, <1>2, LenProperties, EmptySeq
<1>4. /\ DOMAIN inflight' = 1 .. Len(inflight) - 1
      /\ \A i \in DOMAIN inflight' : inflight'[i] = inflight[i + 1]
  BY <1>1, <1>2, <1>3, HeadTailProperties, LenProperties
<1>5. p \in Nat
  BY <1>1
<1>6. drained \in Seq(Entry) /\ Ordered(drained) /\ HeadFenced(drained, p)
  <2>1. CASE empty
    BY <1>1, <2>1
  <2>2. CASE ~empty
    <3>1. Drained(deferred_frees, p) \in Seq(Entry)
      BY <1>1, <1>5, DrainKeeps
    <3>2. Ordered(Drained(deferred_frees, p)) /\ HeadFenced(Drained(deferred_frees, p), p)
      BY <1>1, <1>5, DrainOrders
    <3> QED
      BY <2>2, <3>1, <3>2
  <2> QED
    BY <2>1, <2>2
<1>7. ASSUME ~empty
      PROVE  inflight[1].number = processed_step_seq + 1
  <2>1. /\ inflight[1].number \in Nat
        /\ inflight[1].number > processed_step_seq
        /\ inflight[1].number <= sched_step_seq
    BY <1>1, <1>3, <1>7, EntryTypes DEF StepsOrdered, Step
  <2>2. processed_step_seq + 1 \in (processed_step_seq + 1) .. sched_step_seq
    BY <1>1, <2>1
  <2>3. PICK k \in DOMAIN inflight : inflight[k].number = processed_step_seq + 1
    BY <2>2 DEF QueueInv, NumbersInFlight
  <2>4. CASE k = 1
    BY <2>3, <2>4
  <2>5. CASE k # 1
    <3>1. inflight[1].number < inflight[k].number
      BY <1>1, <1>3, <1>7, <2>5 DEF StepsOrdered
    <3> QED
      BY <1>1, <2>1, <2>3, <3>1
  <2> QED
    BY <2>4, <2>5
<1>8. p = IF empty THEN processed_step_seq ELSE processed_step_seq + 1
  OBVIOUS
<1>9. empty <=> inflight[1].reqs = {}
  BY <1>3
<1> HIDE DEF p, drained, empty
<1>10. Ordered(q) /\ HeadFenced(q, p)
  BY <1>1, <1>5, <1>6, DeferOrders
<1> HIDE DEF q
<1>11. NumbersInFlight'
  <2> SUFFICES ASSUME NEW m \in (processed_step_seq' + 1) .. sched_step_seq'
               PROVE  \E i \in DOMAIN inflight' : inflight'[i].reqs # {} /\ inflight'[i].number = m
    BY DEF NumbersInFlight
  <2>1. m \in (processed_step_seq + 1) .. sched_step_seq /\ m > p
    BY <1>1, <1>2, <1>5, <1>8
  <2>2. PICK i \in DOMAIN inflight : inflight[i].reqs # {} /\ inflight[i].number = m
    BY <2>1 DEF QueueInv, NumbersInFlight
  <2>3. i # 1
    <3>1. SUFFICES ASSUME i = 1 PROVE FALSE
      OBVIOUS
    <3>2. ~empty
      BY <1>9, <2>2, <3>1
    <3>3. m = processed_step_seq + 1 /\ p = processed_step_seq + 1
      BY <1>7, <1>8, <2>2, <3>1, <3>2
    <3> QED
      BY <1>5, <2>1, <3>3
  <2>4. i - 1 \in DOMAIN inflight' /\ (i - 1) + 1 = i
    BY <1>3, <1>4, <2>3
  <2>5. inflight'[i - 1] = inflight[i]
    BY <1>4, <2>4
  <2> QED
    BY <2>2, <2>4, <2>5
<1> QED
  BY <1>2, <1>10, <1>11 DEF QueueInv, Ordered, HeadFenced

-----------------------------------------------------------------------------
(* The theorems.                                                           *)

LEMMA InitQueue == Init => QueueInv
<1> SUFFICES ASSUME Init PROVE QueueInv
  OBVIOUS
<1>1. deferred_frees = <<>> /\ DOMAIN deferred_frees = {}
  BY DEF Init
<1>2. (processed_step_seq + 1) .. sched_step_seq = {}
  BY DEF Init
<1> QED
  BY <1>1, <1>2 DEF QueueInv, Ordered, HeadFenced, NumbersInFlight

LEMMA NextQueue == Inv /\ QueueInv /\ [Next]_vars => QueueInv'
<1> SUFFICES ASSUME Inv, QueueInv, [Next]_vars PROVE QueueInv'
  OBVIOUS
<1>1. CASE \E fresh \in SUBSET FreePool, adopted, src \in SUBSET Cacheable, r \in Reqs :
             Admit(r, adopted, fresh, src)
  BY <1>1, SameQueue DEF Admit
<1>2. CASE \E fresh \in SUBSET FreePool, r \in Reqs : Grow(r, fresh) \/ Resume(r, fresh)
  BY <1>2, SameQueue DEF Grow, Resume
<1>3. CASE \E fresh \in SUBSET FreePool, adopted \in SUBSET Cacheable, r \in Reqs :
             StartLoad(r, adopted, fresh)
  BY <1>3, SameQueue DEF StartLoad
<1>4. CASE \E r \in Reqs : Preempt(r) \/ Abort(r)
  <2>1. PICK r \in Reqs : Preempt(r) \/ Abort(r)
    BY <1>4
  <2>2. {r} \in SUBSET Reqs /\ UNCHANGED <<inflight, seqs>>
        /\ deferred_frees' = DeferRequestBlocks(deferred_frees, {r}, processed_step_seq)
    BY <2>1 DEF Preempt, Abort
  <2> QED
    BY <2>2, FreeKeepsQueue
<1>5. CASE ResetPrefixCache
  <2> DEFINE running == {r \in Reqs : state[r] = "RUNNING"}
  <2>1. running \in SUBSET Reqs /\ UNCHANGED <<inflight, seqs>>
        /\ deferred_frees' = DeferRequestBlocks(deferred_frees, running, processed_step_seq)
    BY <1>5 DEF ResetPrefixCache
  <2> HIDE DEF running
  <2> QED
    BY <2>1, FreeKeepsQueue
<1>6. CASE Launch
  BY <1>6, LaunchKeepsQueue
<1>7. CASE \E stopped \in SUBSET Reqs : Process(stopped)
  BY <1>7, ProcessKeepsQueue
<1>8. CASE \E r \in Reqs : AbortLoad(r)
  BY <1>8, SameQueue DEF AbortLoad
<1>9. CASE \E r \in Reqs, failed \in BOOLEAN : EndLoad(r, failed)
  <2>1. PICK r \in Reqs, failed \in BOOLEAN : EndLoad(r, failed)
    BY <1>9
  <2>2. {r} \in SUBSET Reqs /\ UNCHANGED <<inflight, seqs>>
    BY <2>1 DEF EndLoad
  <2>3. CASE deferred_frees' = deferred_frees
    BY <2>2, <2>3, SameQueue
  <2>4. CASE deferred_frees' = DeferRequestBlocks(deferred_frees, {r}, processed_step_seq)
    BY <2>2, <2>4, FreeKeepsQueue
  <2> QED
    BY <2>1, <2>3, <2>4 DEF EndLoad
<1>10. CASE UNCHANGED vars
  BY <1>10, SameQueue DEF vars, seqs
<1> QED
  BY <1>1, <1>2, <1>3, <1>4, <1>5, <1>6, <1>7, <1>8, <1>9, <1>10 DEF Next

\* The order of the fences and the head of the queue are invariant.
THEOREM QueueInvariance == Spec => [](Inv /\ QueueInv)
<1>1. Init => Inv /\ QueueInv
  BY InitInv, InitQueue
<1>2. Inv /\ QueueInv /\ [Next]_vars => (Inv /\ QueueInv)'
  BY NextInv, NextQueue
<1> QED
  BY <1>1, <1>2, PTL DEF Spec

\* The fences of deferred_frees are in order up to one step, although copy
\* retentions and freed requests are fenced by different steps: what
\* _drain_deferred_frees relies on when it stops at the first pending entry.
THEOREM FencesAreNearlyOrdered == Spec => []FencesNearlyOrdered
<1>1. QueueInv => FencesNearlyOrdered
  BY DEF QueueInv, Ordered, FencesNearlyOrdered
<1> QED
  BY <1>1, QueueInvariance, PTL

\* Whatever was freed, preempted or stopped, a queue that is not empty when no
\* non-empty step is in flight starts with a copy retention, fenced by the
\* step to come: no freed request's blocks are stranded at its head.
THEOREM IdleQueueIsHeldByCopy == Spec => []IdleQueueHeldByCopy
<1>1. ASSUME Inv, QueueInv, deferred_frees # <<>>,
             \A i \in DOMAIN inflight : inflight[i].reqs = {}
      PROVE  Head(deferred_frees).fence = sched_step_seq + 1
  <2>1. /\ sched_step_seq \in Nat /\ processed_step_seq \in 0 .. sched_step_seq
        /\ deferred_frees \in Seq(Entry)
    BY <1>1 DEF Inv, TypeOK, Entry
  <2>2. Head(deferred_frees) \in Entry
    BY <1>1, <2>1, HeadTailProperties
  <2>3. Head(deferred_frees).fence > processed_step_seq
    BY <1>1 DEF QueueInv, HeadFenced
  <2>4. processed_step_seq = sched_step_seq
    <3>1. SUFFICES ASSUME processed_step_seq # sched_step_seq PROVE FALSE
      OBVIOUS
    <3>2. sched_step_seq \in (processed_step_seq + 1) .. sched_step_seq
      BY <2>1, <3>1
    <3> QED
      BY <1>1, <3>2 DEF QueueInv, NumbersInFlight
  <2>5. /\ Head(deferred_frees).fence \in Nat
        /\ Head(deferred_frees).fence <= sched_step_seq + 1
    BY <2>1, <2>2 DEF Entry
  <2> QED
    BY <2>1, <2>3, <2>4, <2>5
<1>2. Inv /\ QueueInv => IdleQueueHeldByCopy
  BY <1>1 DEF IdleQueueHeldByCopy
<1> QED
  BY <1>2, QueueInvariance, PTL

-----------------------------------------------------------------------------
(***************************************************************************)
(* BlockFence implements BlockPool: under the mapping that forgets the     *)
(* sequence numbers and the fences, every handler of the scheduler is one  *)
(* exchange with a pool that takes nothing back that anybody may touch.    *)
(*                                                                         *)
(* What comes back is settled by the invariant after the step, Exclusive'; *)
(* what remains is that nothing leaves the pool except by an allocation:   *)
(* the queue gains only blocks that its entries or the freed requests had. *)
(***************************************************************************)

\* The invariant says, in the pool's words, that nobody touches its blocks.
LEMMA InvExclusive == Inv => Pool!Exclusive
<1> SUFFICES ASSUME Inv PROVE Pool!Exclusive
  OBVIOUS
<1>1. \A i \in DOMAIN inflight : inflight[i].writes \cap FreePool = {}
  BY InvNoInFlightWriteToPool DEF NoInFlightWriteToPool
<1>2. \A i \in DOMAIN inflight : inflight[i].copies \cap FreePool = {}
  BY GuardedIsHeld DEF Inv, CopiesGuarded
<1>3. \A r \in Reqs : loadDst[r] \cap FreePool = {}
  BY DEF Inv, LoadsApart, FreePool
<1>4. \A i \in DOMAIN inflight, r \in Reqs : inflight[i].writes \cap loadDst[r] = {}
  BY DEF Inv, LoadsApart
<1>5. FreePool \cap Loads = {}
  BY <1>3 DEF Loads
<1>6. \A i \in DOMAIN inflight : inflight[i].writes \cap Loads = {}
  BY <1>4 DEF Loads
<1>7. FreePool \cap Pool!touched = {}
  BY <1>1, <1>2 DEF Pool!touched
<1> QED
  BY <1>5, <1>6, <1>7 DEF Pool!Exclusive

\* _free_request_blocks puts nothing in the queue that was neither in it nor
\* on the table of a freed request.
LEMMA DeferAddsHeld ==
  ASSUME TypeOK, NEW queue \in Seq(Entry), NEW R \in SUBSET Reqs, NEW processed \in Nat,
         NEW m \in DOMAIN DeferRequestBlocks(queue, R, processed),
         NEW b \in DeferRequestBlocks(queue, R, processed)[m].blocks
  PROVE  \/ \E j \in DOMAIN queue : b \in queue[j].blocks
         \/ \E r \in R : b \in held[r]
<1> DEFINE unsafe == {r \in R : last_sched_seq[r] > processed}
           blocks == UNION {held[r] : r \in unsafe}
           entry == [fence |-> sched_step_seq, blocks |-> blocks]
           q == DeferRequestBlocks(queue, R, processed)
<1>1. q = IF blocks = {} THEN queue ELSE Append(queue, entry)
  BY DEF DeferRequestBlocks
<1>2. \A x \in blocks : \E r \in R : x \in held[r]
  OBVIOUS
<1>3. blocks \subseteq Blocks
  BY DEF TypeOK
<1>4. entry \in Entry /\ entry.blocks = blocks
  BY <1>3 DEF TypeOK, Entry
<1>5. m \in DOMAIN q /\ b \in q[m].blocks
  OBVIOUS
<1> HIDE DEF blocks, entry, q
<1>6. CASE blocks = {}
  BY <1>1, <1>5, <1>6
<1>7. CASE blocks # {}
  <2>1. q = Append(queue, entry)
    BY <1>1, <1>7
  <2>2. /\ q \in Seq(Entry) /\ Len(q) = Len(queue) + 1
        /\ \A j \in 1 .. Len(queue) : q[j] = queue[j]
        /\ q[Len(q)] = entry
    BY <2>1, <1>4, AppendProperties
  <2>3. DOMAIN queue = 1 .. Len(queue) /\ DOMAIN q = 1 .. Len(q) /\ Len(queue) \in Nat
    BY <2>2, LenProperties
  <2>4. m \in DOMAIN queue \/ m = Len(q)
    BY <1>5, <2>2, <2>3
  <2> QED
    BY <1>2, <1>4, <1>5, <2>2, <2>3, <2>4
<1> QED
  BY <1>6, <1>7

\* _drain_deferred_frees invents no entry.
LEMMA DrainAddsNothing ==
  ASSUME NEW queue \in Seq(Entry), NEW processed \in Nat,
         NEW m \in DOMAIN Drained(queue, processed)
  PROVE  \E j \in DOMAIN queue : Drained(queue, processed)[m] = queue[j]
<1> DEFINE pending == {j \in DOMAIN queue : queue[j].fence > processed}
           least == CHOOSE j \in pending : \A k \in pending : j <= k
           d == Drained(queue, processed)
<1>1. d = IF pending = {} THEN <<>> ELSE SubSeq(queue, least, Len(queue))
  BY DEF Drained
<1>2. DOMAIN queue = 1 .. Len(queue) /\ Len(queue) \in Nat
  BY LenProperties
<1>3. CASE pending = {}
  BY <1>1, <1>3
<1>4. CASE pending # {}
  <2>1. least \in pending
    <3>1. pending \in SUBSET Nat
      BY <1>2
    <3>2. \E j \in pending : \A k \in pending : j <= k
      BY <3>1, <1>4, LeastNatural
    <3> HIDE DEF pending
    <3> QED
      BY <3>2
  <2>2. d = SubSeq(queue, least, Len(queue)) /\ least \in 1 .. Len(queue)
    BY <1>1, <1>2, <1>4, <2>1
  <2>3. m \in DOMAIN d
    OBVIOUS
  <2> HIDE DEF least, d
  <2>4. /\ d \in Seq(Entry)
        /\ Len(d) = Len(queue) - least + 1
        /\ \A i \in 1 .. Len(queue) - least + 1 : d[i] = queue[least + i - 1]
    BY <2>2, <1>2, SubSeqProperties
  <2>5. m \in 1 .. Len(queue) - least + 1
    BY <2>3, <2>4, LenProperties
  <2>6. least + m - 1 \in DOMAIN queue
    BY <1>2, <2>2, <2>5
  <2>7. \E j \in DOMAIN queue : d[m] = queue[j]
    BY <2>4, <2>5, <2>6
  <2> QED
    BY <2>7 DEF d
<1> QED
  BY <1>3, <1>4

\* An action that only shrinks tables, loads and the retentions, and puts in
\* the queue only what was in it or on a table, only gives back.
LEMMA GivesBack ==
  ASSUME Inv', NEW R \in SUBSET Reqs,
         \A r \in Reqs : held'[r] \subseteq held[r], copySrc' \subseteq copySrc,
         \A b \in Blocks : OnDeferred(b)' => OnDeferred(b) \/ \E r \in R : b \in held[r]
  PROVE  Pool!GivenBack
<1>1. FreePool \subseteq FreePool'
  BY DEF FreePool
<1>2. Pool!Exclusive'
  BY InvExclusive, PTL
<1>3. FreePool' \cap (Pool!touched' \cup Loads') = {}
  BY <1>2 DEF Pool!Exclusive
<1> QED
  BY <1>1, <1>3 DEF Pool!GivenBack

\* Freeing the requests R from the queue as it is.
LEMMA FreeAddsHeld ==
  ASSUME TypeOK, NEW R \in SUBSET Reqs,
         deferred_frees' = DeferRequestBlocks(deferred_frees, R, processed_step_seq)
  PROVE  \A b \in Blocks : OnDeferred(b)' => OnDeferred(b) \/ \E r \in R : b \in held[r]
<1>1. deferred_frees \in Seq(Entry) /\ processed_step_seq \in Nat
  BY DEF TypeOK, Entry
<1> SUFFICES ASSUME NEW b \in Blocks, OnDeferred(b)'
             PROVE  OnDeferred(b) \/ \E r \in R : b \in held[r]
  OBVIOUS
<1>2. PICK m \in DOMAIN deferred_frees' : b \in deferred_frees'[m].blocks
  BY DEF OnDeferred
<1>3. \/ \E j \in DOMAIN deferred_frees : b \in deferred_frees[j].blocks
      \/ \E r \in R : b \in held[r]
  BY <1>1, <1>2, DeferAddsHeld
<1> QED
  BY <1>3 DEF OnDeferred

-----------------------------------------------------------------------------
(* One lemma per kind of exchange.                                         *)

\* Admission, growth and resumption take blocks out of the pool.
LEMMA AllocationsTake ==
  ASSUME Inv, NEW r \in Reqs, NEW fresh \in SUBSET FreePool,
         NEW adopted \in SUBSET Cacheable, NEW src \in SUBSET Cacheable,
         Admit(r, adopted, fresh, src) \/ Grow(r, fresh) \/ Resume(r, fresh)
  PROVE  Pool!Take
<1>1. UNCHANGED <<inflight, loadDst, deferred_frees>> /\ copySrc \subseteq copySrc'
  BY DEF Admit, Grow, Resume
<1>2. \A s \in Reqs : held[s] \subseteq held'[s]
  BY DEF Admit, Grow, Resume, Inv, TypeOK
<1>3. FreePool' \subseteq FreePool
  BY <1>1, <1>2 DEF FreePool, OnDeferred
<1> QED
  BY <1>1, <1>3 DEF Pool!Take, Loads

\* An asynchronous load starts into blocks taken out of the pool.
LEMMA StartLoadLoads ==
  ASSUME Inv, NEW r \in Reqs, NEW fresh \in SUBSET FreePool,
         NEW adopted \in SUBSET Cacheable, StartLoad(r, adopted, fresh)
  PROVE  Pool!Load
<1>1. /\ UNCHANGED <<inflight, deferred_frees, copySrc>>
      /\ held[r] = {} /\ loadDst[r] = {}
      /\ held'[r] = adopted \cup fresh /\ loadDst'[r] = fresh
      /\ \A s \in Reqs \ {r} : held'[s] = held[s] /\ loadDst'[s] = loadDst[s]
  BY DEF StartLoad, Inv, TypeOK, LoadsApart
<1>2. \A s \in Reqs : held[s] \subseteq held'[s] /\ loadDst[s] \subseteq loadDst'[s]
  BY <1>1
<1>3. FreePool' \subseteq FreePool
  BY <1>1, <1>2 DEF FreePool, OnDeferred
<1>4. Loads \subseteq Loads'
  BY <1>2 DEF Loads
<1>5. Loads' \ Loads \subseteq fresh
  BY <1>1 DEF Loads
<1>6. fresh \cap FreePool' = {}
  BY <1>1 DEF FreePool
<1> QED
  BY <1>1, <1>3, <1>4, <1>5, <1>6 DEF Pool!Load

\* The end of schedule() launches a step and leaves the pool as it is: the
\* retentions move to the queue.
LEMMA LaunchLaunches ==
  ASSUME Inv, Inv', Launch
  PROVE  Pool!Launch
<1> DEFINE fence == [fence |-> CopyFence, blocks |-> copySrc]
           step == [number |-> sched_step_seq + 1, reqs |-> batch,
                    writes |-> UNION {held[r] : r \in batch}, copies |-> copySrc]
           last == Len(inflight) + 1
<1>1. /\ inflight' = Append(inflight, step)
      /\ deferred_frees' = IF copySrc = {} THEN deferred_frees ELSE Append(deferred_frees, fence)
      /\ copySrc' = {} /\ UNCHANGED <<held, loadDst>>
  BY DEF Launch
<1>2. inflight \in Seq(Step) /\ deferred_frees \in Seq(Entry) /\ sched_step_seq \in Nat
  BY DEF Inv, TypeOK, Step, Entry
<1>3. fence \in Entry /\ step \in Step /\ fence.blocks = copySrc
  BY DEF Inv, TypeOK, Step, Entry, CopyFence
<1> HIDE DEF fence, step
<1>4. /\ Len(inflight') = last /\ inflight'[last] = step /\ last \in DOMAIN inflight'
  BY <1>1, <1>2, <1>3, AppendProperties, LenProperties
<1>5. \A b \in Blocks : OnDeferred(b)' <=> OnDeferred(b) \/ b \in copySrc
  <2>1. CASE copySrc = {}
    BY <1>1, <2>1 DEF OnDeferred
  <2>2. CASE copySrc # {}
    <3>1. /\ Len(deferred_frees') = Len(deferred_frees) + 1
          /\ \A j \in 1 .. Len(deferred_frees) : deferred_frees'[j] = deferred_frees[j]
          /\ deferred_frees'[Len(deferred_frees) + 1] = fence
          /\ DOMAIN deferred_frees = 1 .. Len(deferred_frees) /\ Len(deferred_frees) \in Nat
          /\ DOMAIN deferred_frees' = 1 .. Len(deferred_frees) + 1
      BY <1>1, <1>2, <1>3, <2>2, AppendProperties, LenProperties
    <3> QED
      BY <1>3, <3>1 DEF OnDeferred
  <2> QED
    BY <2>1, <2>2
<1>6. FreePool' = FreePool
  BY <1>1, <1>5 DEF FreePool
<1>7. Pool!Exclusive'
  BY InvExclusive, PTL
<1>8. step.writes \cap (FreePool \cup Loads) = {} /\ step.copies \cap FreePool = {}
  BY <1>1, <1>4, <1>6, <1>7 DEF Pool!Exclusive, Pool!touched, Loads
<1> QED
  BY <1>1, <1>4, <1>6, <1>8 DEF Pool!Launch, Loads

\* Preemption, the forced reset and an abort return blocks, or park them.
LEMMA FreeingReturns ==
  ASSUME Inv, Inv', NEW r \in Reqs, Preempt(r) \/ Abort(r) \/ ResetPrefixCache
  PROVE  Pool!Return
<1>1. UNCHANGED <<inflight, loadDst, copySrc>>
  BY DEF Preempt, Abort, ResetPrefixCache
<1>2. \A s \in Reqs : held'[s] \subseteq held[s]
  BY DEF Preempt, Abort, ResetPrefixCache, Inv, TypeOK
<1>3. \E R \in SUBSET Reqs :
         deferred_frees' = DeferRequestBlocks(deferred_frees, R, processed_step_seq)
  <2>1. CASE Preempt(r) \/ Abort(r)
    BY <2>1 DEF Preempt, Abort
  <2>2. CASE ResetPrefixCache
    <3> DEFINE running == {s \in Reqs : state[s] = "RUNNING"}
    <3>1. deferred_frees' = DeferRequestBlocks(deferred_frees, running, processed_step_seq)
      BY <2>2 DEF ResetPrefixCache
    <3>2. running \in SUBSET Reqs
      OBVIOUS
    <3> HIDE DEF running
    <3> QED
      BY <3>1, <3>2
  <2> QED
    BY <2>1, <2>2
<1>4. PICK R \in SUBSET Reqs :
         \A b \in Blocks : OnDeferred(b)' => OnDeferred(b) \/ \E s \in R : b \in held[s]
  BY <1>3, FreeAddsHeld DEF Inv
<1>5. Pool!GivenBack
  BY <1>1, <1>2, <1>4, GivesBack
<1> QED
  BY <1>1, <1>5 DEF Pool!Return, Loads

\* The oldest step is over, and the entries behind its fence come back.
LEMMA ProcessRetires ==
  ASSUME Inv, Inv', NEW stopped \in SUBSET Reqs, Process(stopped)
  PROVE  Pool!Retire
<1> DEFINE empty == Head(inflight).reqs = {}
           p == IF empty THEN processed_step_seq ELSE processed_step_seq + 1
           drained == IF empty THEN deferred_frees ELSE Drained(deferred_frees, p)
<1>1. /\ deferred_frees' = DeferRequestBlocks(drained, stopped, p)
      /\ inflight # <<>> /\ inflight' = Tail(inflight)
      /\ held' = [r \in Reqs |-> IF r \in stopped THEN {} ELSE held[r]]
      /\ UNCHANGED <<loadDst, copySrc>>
  BY DEF Process
<1>2. deferred_frees \in Seq(Entry) /\ processed_step_seq \in Nat /\ sched_step_seq \in Nat
  BY DEF Inv, TypeOK, Entry
<1>3. p \in Nat
  BY <1>2
<1>4. /\ drained \in Seq(Entry)
      /\ \A m \in DOMAIN drained : \E j \in DOMAIN deferred_frees :
           drained[m] = deferred_frees[j]
  <2>1. CASE empty
    BY <1>2, <2>1
  <2>2. CASE ~empty
    <3> DEFINE d == Drained(deferred_frees, p)
    <3>1. d \in Seq(Entry)
      BY <1>2, <1>3, DrainKeeps
    <3>2. \A m \in DOMAIN d : \E j \in DOMAIN deferred_frees : d[m] = deferred_frees[j]
      BY <1>2, <1>3, DrainAddsNothing
    <3>3. drained = d
      BY <2>2
    <3> HIDE DEF d, drained
    <3>4. QED BY <3>1, <3>2, <3>3
  <2> QED
    BY <2>1, <2>2
<1> HIDE DEF p, drained
<1>5. \A b \in Blocks : OnDeferred(b)' => OnDeferred(b) \/ \E r \in stopped : b \in held[r]
  <2> SUFFICES ASSUME NEW b \in Blocks, OnDeferred(b)'
               PROVE  OnDeferred(b) \/ \E r \in stopped : b \in held[r]
    OBVIOUS
  <2>1. PICK m \in DOMAIN deferred_frees' : b \in deferred_frees'[m].blocks
    BY DEF OnDeferred
  <2>2. \/ \E j \in DOMAIN drained : b \in drained[j].blocks
        \/ \E r \in stopped : b \in held[r]
    BY <1>1, <1>3, <1>4, <2>1, DeferAddsHeld DEF Inv
  <2> QED
    BY <1>4, <2>2 DEF OnDeferred
<1>6. \A r \in Reqs : held'[r] \subseteq held[r]
  BY <1>1
<1>7. Pool!GivenBack
  BY <1>1, <1>5, <1>6, GivesBack
<1> QED
  BY <1>1, <1>7 DEF Pool!Retire, Loads

\* A load ends, and its request may lose its blocks with it.
LEMMA EndLoadEnds ==
  ASSUME Inv, Inv', NEW r \in Reqs, NEW failed \in BOOLEAN, EndLoad(r, failed)
  PROVE  Pool!Loaded
<1>1. UNCHANGED <<inflight, copySrc>>
  BY DEF EndLoad
<1>2. \A s \in Reqs : held'[s] \subseteq held[s] /\ loadDst'[s] \subseteq loadDst[s]
  BY DEF EndLoad, Inv, TypeOK
<1>3. \A b \in Blocks : OnDeferred(b)' => OnDeferred(b) \/ \E s \in {r} : b \in held[s]
  <2>1. CASE deferred_frees' = deferred_frees
    BY <2>1 DEF OnDeferred
  <2>2. CASE deferred_frees' = DeferRequestBlocks(deferred_frees, {r}, processed_step_seq)
    BY <2>2, FreeAddsHeld DEF Inv
  <2> QED
    BY <2>1, <2>2 DEF EndLoad
<1>4. Pool!GivenBack
  BY <1>1, <1>2, <1>3, GivesBack
<1>5. Loads' \subseteq Loads
  BY <1>2 DEF Loads
<1> QED
  BY <1>1, <1>4, <1>5 DEF Pool!Loaded

-----------------------------------------------------------------------------
(* The theorems.                                                           *)

LEMMA InitImplements == Init => Pool!Init
<1> SUFFICES ASSUME Init PROVE Pool!Init
  OBVIOUS
<1>1. DOMAIN deferred_frees = {}
  BY DEF Init
<1> QED
  BY <1>1 DEF Init, Pool!Init, FreePool, OnDeferred, Loads

LEMMA NextImplements ==
  Inv /\ Inv' /\ [Next]_vars => [Pool!Next]_<<FreePool, inflight, Loads>>
<1> SUFFICES ASSUME Inv, Inv', [Next]_vars
             PROVE  Pool!Next \/ UNCHANGED <<FreePool, inflight, Loads>>
  OBVIOUS
<1>1. CASE \E fresh \in SUBSET FreePool, adopted, src \in SUBSET Cacheable, r \in Reqs :
             Admit(r, adopted, fresh, src)
  BY <1>1, AllocationsTake DEF Pool!Next
<1>2. CASE \E fresh \in SUBSET FreePool, r \in Reqs : Grow(r, fresh)
  BY <1>2, AllocationsTake DEF Pool!Next
<1>3. CASE \E fresh \in SUBSET FreePool, r \in Reqs : Resume(r, fresh)
  BY <1>3, AllocationsTake DEF Pool!Next
<1>4. CASE \E fresh \in SUBSET FreePool, adopted \in SUBSET Cacheable, r \in Reqs :
             StartLoad(r, adopted, fresh)
  BY <1>4, StartLoadLoads DEF Pool!Next
<1>5. CASE \E r \in Reqs : Preempt(r) \/ Abort(r)
  BY <1>5, FreeingReturns DEF Pool!Next
<1>6. CASE ResetPrefixCache
  <2>1. \E r \in Reqs : state[r] = "RUNNING"
    BY <1>6 DEF ResetPrefixCache
  <2> QED
    BY <1>6, <2>1, FreeingReturns DEF Pool!Next
<1>7. CASE Launch
  BY <1>7, LaunchLaunches DEF Pool!Next
<1>8. CASE \E stopped \in SUBSET Reqs : Process(stopped)
  BY <1>8, ProcessRetires DEF Pool!Next
<1>9. CASE \E r \in Reqs : AbortLoad(r)
  BY <1>9 DEF AbortLoad, FreePool, OnDeferred, Loads
<1>10. CASE \E r \in Reqs, failed \in BOOLEAN : EndLoad(r, failed)
  BY <1>10, EndLoadEnds DEF Pool!Next
<1>11. CASE UNCHANGED vars
  BY <1>11 DEF vars, seqs, FreePool, OnDeferred, Loads
<1> QED
  BY <1>1, <1>2, <1>3, <1>4, <1>5, <1>6, <1>7, <1>8, <1>9, <1>10, <1>11 DEF Next

\* Deferred freeing is a pool whose blocks nobody touches: for any requests,
\* blocks and depth, each handler of the scheduler takes blocks, starts or ends
\* loads, launches or retires a step, or gives back blocks that no launched
\* step and no load will touch.
THEOREM Refinement == Spec => ImplementsPool
<1>1. Inv /\ Inv' /\ [Next]_vars => [Pool!Next]_<<FreePool, inflight, Loads>>
  BY NextImplements
<1> QED
  BY <1>1, InitImplements, Invariance, PTL DEF Spec, ImplementsPool, Pool!Spec

-----------------------------------------------------------------------------
(***************************************************************************)
(* What the abstract pool is worth to those it gives blocks to: BlockPool, *)
(* with variables of its own, whatever implements it.                      *)
(***************************************************************************)
VARIABLES pool, steps, loading

Abstract == INSTANCE BlockPool

\* The steps are a sequence, whatever a step is made of.
StepsInSequence == \E S : steps \in Seq(S)

PoolInv == StepsInSequence /\ Abstract!Exclusive

\* A step retires from the front: what is left was there.
LEMMA TailOfSteps ==
  ASSUME NEW S, steps \in Seq(S), steps # <<>>, steps' = Tail(steps)
  PROVE  /\ Abstract!touched' \subseteq Abstract!touched
         /\ \A i \in DOMAIN steps' : \E k \in DOMAIN steps : steps'[i] = steps[k]
<1>1. /\ Len(steps) \in Nat /\ DOMAIN steps = 1 .. Len(steps)
      /\ DOMAIN steps' = 1 .. Len(steps) - 1
      /\ \A i \in 1 .. Len(steps) - 1 : steps'[i] = steps[i + 1]
  BY HeadTailProperties, LenProperties
<1>2. ASSUME NEW i \in DOMAIN steps' PROVE \E k \in DOMAIN steps : steps'[i] = steps[k]
  <2>1. i + 1 \in DOMAIN steps
    BY <1>1
  <2> QED
    BY <1>1, <2>1
<1>3. Abstract!touched' \subseteq Abstract!touched
  BY <1>2 DEF Abstract!touched
<1> QED
  BY <1>2, <1>3

\* Blocks that come back join a pool that was exclusive.
LEMMA GivenBackKeeps ==
  ASSUME Abstract!Exclusive, Abstract!GivenBack,
         Abstract!touched' \subseteq Abstract!touched, loading' \subseteq loading,
         \A i \in DOMAIN steps' : \E k \in DOMAIN steps : steps'[i] = steps[k]
  PROVE  Abstract!Exclusive'
<1>1. pool' \cap (Abstract!touched' \cup loading') = {}
  BY DEF Abstract!Exclusive, Abstract!GivenBack
<1>2. \A i \in DOMAIN steps' : steps'[i].writes \cap loading' = {}
  BY DEF Abstract!Exclusive
<1> QED
  BY <1>1, <1>2 DEF Abstract!Exclusive

\* Blocks are taken.
LEMMA TakeKeeps == ASSUME PoolInv, Abstract!Take PROVE PoolInv'
BY DEF PoolInv, StepsInSequence, Abstract!Exclusive, Abstract!touched, Abstract!Take

\* Loads start into blocks of the pool, which no step touches.
LEMMA LoadKeeps == ASSUME PoolInv, Abstract!Load PROVE PoolInv'
<1>1. UNCHANGED steps /\ Abstract!touched' = Abstract!touched
  BY DEF Abstract!Load, Abstract!touched
<1>2. \A i \in DOMAIN steps : steps[i].writes \cap pool = {}
  BY DEF PoolInv, Abstract!Exclusive, Abstract!touched
<1>3. pool' \subseteq pool /\ loading' \subseteq loading \cup (pool \ pool')
  BY DEF Abstract!Load
<1> QED
  BY <1>1, <1>2, <1>3 DEF PoolInv, StepsInSequence, Abstract!Exclusive

\* The step launched touches nothing of the pool and writes nothing loaded.
LEMMA LaunchKeeps == ASSUME PoolInv, Abstract!Launch PROVE PoolInv'
<1> DEFINE last == Len(steps) + 1
           step == steps'[last]
<1>1. PICK S : steps \in Seq(S)
  BY DEF PoolInv, StepsInSequence
<1>2. /\ steps' = Append(steps, step) /\ UNCHANGED <<pool, loading>>
      /\ step.writes \cap (pool \cup loading) = {} /\ step.copies \cap pool = {}
  BY DEF Abstract!Launch
<1>3. steps \in Seq(S \cup {step}) /\ step \in S \cup {step}
  BY <1>1, SeqMonotonic
<1> HIDE DEF step
<1>4. /\ steps' \in Seq(S \cup {step})
      /\ \A i \in DOMAIN steps' :
           (i \in DOMAIN steps /\ steps'[i] = steps[i]) \/ steps'[i] = step
  BY <1>2, <1>3, AppendProperties, LenProperties
<1>5. Abstract!touched' \cap pool = {}
  BY <1>2, <1>4 DEF PoolInv, Abstract!Exclusive, Abstract!touched
<1>6. \A i \in DOMAIN steps' : steps'[i].writes \cap loading = {}
  BY <1>2, <1>4 DEF PoolInv, Abstract!Exclusive
<1> QED
  BY <1>2, <1>4, <1>5, <1>6 DEF PoolInv, StepsInSequence, Abstract!Exclusive

\* Blocks come back, or loads end.
LEMMA ReturnKeeps == ASSUME PoolInv, Abstract!Return \/ Abstract!Loaded PROVE PoolInv'
<1>1. /\ UNCHANGED steps /\ Abstract!touched' = Abstract!touched /\ loading' \subseteq loading /\ Abstract!GivenBack
  BY DEF Abstract!Return, Abstract!Loaded, Abstract!touched
<1> QED
  BY <1>1, GivenBackKeeps DEF PoolInv, StepsInSequence

\* The oldest step retires.
LEMMA RetireKeeps == ASSUME PoolInv, Abstract!Retire PROVE PoolInv'
<1>1. PICK S : steps \in Seq(S)
  BY DEF PoolInv, StepsInSequence
<1>2. /\ steps # <<>> /\ steps' = Tail(steps) /\ UNCHANGED loading /\ Abstract!GivenBack
  BY DEF Abstract!Retire
<1>3. steps' \in Seq(S)
  BY <1>1, <1>2, HeadTailProperties
<1> QED
  BY <1>1, <1>2, <1>3, TailOfSteps, GivenBackKeeps DEF PoolInv, StepsInSequence

\* Nobody ever touches a block of the pool, and steps and loads write apart:
\* what the users of the scheduler's blocks may rely on, without knowing how
\* it defers its frees.
THEOREM PoolIsExclusive == Abstract!Spec => []Abstract!Exclusive
<1>1. Abstract!Init => PoolInv
  <2> SUFFICES ASSUME Abstract!Init PROVE PoolInv
    OBVIOUS
  <2>1. DOMAIN steps = {} /\ steps \in Seq({}) /\ loading = {}
    BY EmptySeq DEF Abstract!Init
  <2> QED
    BY <2>1 DEF PoolInv, StepsInSequence, Abstract!Exclusive, Abstract!touched
<1>2. PoolInv /\ [Abstract!Next]_<<pool, steps, loading>> => PoolInv'
  <2> SUFFICES ASSUME PoolInv, [Abstract!Next]_<<pool, steps, loading>> PROVE PoolInv'
    OBVIOUS
  <2>1. CASE UNCHANGED <<pool, steps, loading>>
    BY <2>1 DEF PoolInv, StepsInSequence, Abstract!Exclusive, Abstract!touched
  <2> QED
    BY <2>1, TakeKeeps, LoadKeeps, LaunchKeeps, ReturnKeeps, RetireKeeps DEF Abstract!Next
<1>3. PoolInv => Abstract!Exclusive
  BY DEF PoolInv
<1> QED
  BY <1>1, <1>2, <1>3, PTL DEF Abstract!Spec
=============================================================================
