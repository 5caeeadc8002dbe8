--------------------------- MODULE SchedulerSteps ---------------------------
(***************************************************************************)
(* Machine-checked proofs about the counters of Scheduler, from the        *)
(* invariants of SchedulerQueues: blocks and computed tokens, tokens in    *)
(* flight, that every token is sampled for the position it is given, and   *)
(* the bounds of every counter.                                            *)
(*                                                                         *)
(* The actions are sorted twice, by what they do to the statuses           *)
(* (StatusStep) and by what they do to counters and tables (CounterStep);  *)
(* an invariant then has a handful of cases instead of one per action.     *)
(***************************************************************************)
EXTENDS SchedulerQueues

---------------------------------------------------------------------------
(* The steps by what they do to the counters.                              *)

(* What a step does to the counters of the requests and their blocks.      *)

NoPlaceholders(q) == q.num_output_placeholders = 0

\* A preempted request, field by field.
LEMMA PreemptedFields ==
  ASSUME NEW q \in AnyRequest, NEW drop \in BOOLEAN
  PROVE  /\ Preempted(q, drop).status = "PREEMPTED"
         /\ Preempted(q, drop).num_computed_tokens = 0
         /\ Preempted(q, drop).num_in_flight_tokens = q.num_in_flight_tokens
         /\ Preempted(q, drop).num_stale_output_tokens = q.num_in_flight_tokens
         /\ Preempted(q, drop).num_tokens = q.num_tokens
         /\ NoPlaceholders(Preempted(q, drop))
  BY DEF Preempted, AnyRequest, NoPlaceholders

\* A session's next chunk follows what it has computed.
LEMMA UpdatedSessionTokens ==
  ASSUME NEW q \in AnyRequest
  PROVE  /\ UpdatedSession(q).num_tokens = AtMost(q.num_tokens, q.num_computed_tokens) + 1
         /\ UpdatedSession(q).num_output_placeholders = q.num_output_placeholders
<1> DEFINE kept == AtMost(q.num_tokens, q.num_computed_tokens)
           a == kept + 1
           b == AtLeast(kept, q.num_prompt_tokens) + 1
<1>1. UpdatedSession(q) = [q EXCEPT !.status = "WAITING", !.num_tokens = a,
                                    !.num_prompt_tokens = b]
  BY Zenon DEF UpdatedSession
<1> HIDE DEF b, kept
<1>2. QED BY <1>1 DEF AnyRequest, kept

\* A stopped session that goes on has its next chunk.
LEMMA PoppedTokens ==
  ASSUME NEW q \in AnyRequest
  PROVE  /\ Popped(q).num_tokens = q.num_tokens
         /\ Popped(q).num_output_placeholders = q.num_output_placeholders
<1> DEFINE s == IF q.streaming_queue = <<>> THEN q.streaming_queue ELSE Tail(q.streaming_queue)
<1>1. Popped(q) = [q EXCEPT !.streaming_queue = s]
  BY Zenon DEF Popped
<1> HIDE DEF s
<1>2. QED BY <1>1 DEF AnyRequest

\* A request that is gone counts nothing.
LEMMA GoneFields ==
  ASSUME config \in Configs, NEW r \in Reqs
  PROVE  /\ Gone(r).status = "FINISHED" /\ Gone(r).num_computed_tokens = 0
         /\ Gone(r).num_in_flight_tokens = 0 /\ Gone(r).num_stale_output_tokens = 0
         /\ Gone(r).num_tokens = PromptLen[r] /\ NoPlaceholders(Gone(r))
  BY DEF Gone, NewRequest, NoPlaceholders

\* The tokens that a request keeps of an output.
LEMMA OutputTokens ==
  ASSUME Typed, OutputTurn, NEW accepted \in Int, NEW eos \in Int, NEW drafts \in Int,
         0 <= accepted, 0 <= eos
  PROVE  LET e == Head(todo)
             p == request[e.req]
             q == Output(e, accepted, eos, drafts)
         IN  /\ \E k \in Nat : q.num_tokens = p.num_tokens + k
             /\ Depth = 1 /\ NoPlaceholders(p) => NoPlaceholders(q)
<1> DEFINE e == Head(todo)
           p == request[e.req]
           t == Took(e, accepted)
           q1 == Returned(p, e.n)
           stale == IsStale(p)
           q2 == Rejected(e, accepted)
           kept == Keeps(e, accepted, eos)
           nt == q2.num_tokens + kept
           ph == IF Depth > 1 /\ ~stale THEN q2.num_output_placeholders - kept
                 ELSE q2.num_output_placeholders
           ns == IF Depth = 1 THEN (IF e.samples THEN drafts ELSE 0) ELSE q2.num_spec
<1>1. p \in AnyRequest /\ e.n \in Int /\ e.drafts \in Int /\ config \in Configs /\ Depth \in Nat
  BY HeadFacts, ConfigFacts
<1> HIDE DEF p, e
<1>2. t \in Int /\ t >= 0
  BY DEF Took
<1>3. /\ q1 \in AnyRequest
      /\ q1.num_tokens = p.num_tokens /\ q1.num_output_placeholders = p.num_output_placeholders
  <2> DEFINE a == p.num_in_flight_tokens - e.n
             b == IF p.num_stale_output_tokens > 0
                   THEN p.num_stale_output_tokens - e.n ELSE p.num_stale_output_tokens
  <2>1. q1 \in AnyRequest /\ q1 = [p EXCEPT !.num_in_flight_tokens = a,
                !.num_stale_output_tokens = b]
    BY <1>1, ReturnedTyped
  <2> HIDE DEF a, b, q1
  <2>2. QED BY <2>1, <1>1 DEF AnyRequest
<1>4. stale \in BOOLEAN
  BY DEF IsStale
<1>5. q2 = IF e.drafts > 0 /\ t > 0 THEN RolledBack(q1, e.drafts - accepted, stale) ELSE q1
  BY Zenon DEF Rejected, p
<1> HIDE DEF q1, q2, t, stale
<1>6. /\ q2 \in AnyRequest /\ q2.num_tokens = p.num_tokens
      /\ p.num_output_placeholders = 0 => q2.num_output_placeholders = 0
  <2>1. CASE e.drafts > 0 /\ t > 0
    <3> DEFINE k == e.drafts - accepted
               b == RolledBack(q1, k, stale)
               c == b.num_computed_tokens
               o == b.num_output_placeholders
    <3>1. k \in Int
      BY <1>1
    <3> HIDE DEF k
    <3>2. b \in AnyRequest /\ b = [q1 EXCEPT !.num_computed_tokens = c,
                                       !.num_output_placeholders = o]
      BY <3>1, <1>3, <1>4, RolledBackFacts
    <3>3. q1.num_output_placeholders = 0 => o = 0
      <4>1. CASE stale
        BY <4>1 DEF RolledBack
      <4>2. CASE ~stale
        <5> DEFINE x == IF q1.num_computed_tokens > 0 THEN q1.num_computed_tokens - k
                        ELSE q1.num_computed_tokens
                   y == IF q1.num_output_placeholders > 0 THEN q1.num_output_placeholders - k
                        ELSE q1.num_output_placeholders
        <5>1. b = [q1 EXCEPT !.num_computed_tokens = x, !.num_output_placeholders = y]
          BY <4>2, Zenon DEF RolledBack
        <5>2. q1.num_output_placeholders = 0 => y = 0
          OBVIOUS
        <5> HIDE DEF x, y, b
        <5>3. b.num_output_placeholders = y
          BY <5>1, <1>3 DEF AnyRequest
        <5>4. QED BY <5>2, <5>3
      <4>3. QED BY <4>1, <4>2
    <3> HIDE DEF b, c, o
    <3>4. b.num_tokens = q1.num_tokens /\ b.num_output_placeholders = o
      BY <3>2, <1>3 DEF AnyRequest
    <3>5. q2 = b
      BY <2>1, <1>5 DEF b, k
    <3>6. QED BY <3>2, <3>3, <3>4, <3>5, <1>3
  <2>2. CASE ~(e.drafts > 0 /\ t > 0)
    BY <2>2, <1>5, <1>3
  <2>3. QED BY <2>1, <2>2
<1>7. kept \in Nat
  <2> DEFINE a == Allowance(q2)
  <2>1. a \in Int
    <3>1. MaxModelLen \in Int /\ MaxTokens \in Int
      BY <1>1, ConfigFacts
    <3>2. q2 \in AnyRequest
      BY <1>6
    <3>3. q2.num_tokens \in Int /\ q2.num_prompt_tokens \in Int
      BY <3>2 DEF AnyRequest
    <3> HIDE DEF MaxModelLen, MaxTokens
    <3>4. QED BY <3>1, <3>3 DEF Allowance, AtMost
  <2>2. kept = AtMost(AtMost(t, AtLeast(a, 1)), IF eos > 0 THEN eos ELSE t)
    BY DEF Keeps, t, q2
  <2> HIDE DEF a, kept
  <2>3. AtLeast(a, 1) >= 1 /\ AtLeast(a, 1) \in Int
    BY <2>1 DEF AtLeast
  <2>4. QED BY <2>2, <2>3, <1>2 DEF AtMost
<1> HIDE DEF kept
<1>8. nt \in Int /\ ph \in Int /\ nt = p.num_tokens + kept
  <2>1. q2 \in AnyRequest
    BY <1>6
  <2>2. q2.num_tokens \in Int /\ q2.num_output_placeholders \in Int
    BY <2>1 DEF AnyRequest
  <2>3. QED BY <2>2, <1>6, <1>7
<1>9. Depth = 1 /\ p.num_output_placeholders = 0 => ph = 0
  BY <1>1, <1>6
<1>10. Output(e, accepted, eos, drafts) = [WithOutput(q2, kept, stale) EXCEPT !.num_spec = ns]
       /\ WithOutput(q2, kept, stale) = [q2 EXCEPT !.num_tokens = nt, !.num_output_placeholders = ph]
  <2>1. WithOutput(q2, kept, stale) = [q2 EXCEPT !.num_tokens = nt, !.num_output_placeholders = ph]
    BY Zenon DEF WithOutput
  <2> DEFINE w == WithOutput(q2, kept, stale)
             ms == IF Depth = 1 THEN (IF e.samples THEN drafts ELSE 0) ELSE w.num_spec
  <2>2. Output(e, accepted, eos, drafts) = [w EXCEPT !.num_spec = ms]
    BY Zenon DEF Output, q2, kept, stale, p
  <2> HIDE DEF nt, ph, w
  <2>3. w = [q2 EXCEPT !.num_tokens = nt, !.num_output_placeholders = ph]
    BY <2>1 DEF w
  <2>4. w.num_spec = q2.num_spec
    BY <2>3, <1>6, <1>8 DEF AnyRequest
  <2>5. ms = ns
    BY <2>4
  <2>6. QED BY <2>1, <2>2, <2>5 DEF w
<1> HIDE DEF nt, ph, ns
<1>11. /\ Output(e, accepted, eos, drafts).num_tokens = nt
       /\ Output(e, accepted, eos, drafts).num_output_placeholders = ph
  BY <1>10, <1>6, <1>8 DEF AnyRequest
<1>12. QED BY <1>7, <1>8, <1>9, <1>11 DEF NoPlaceholders, p, e

SameCounters(q, p) ==
  /\ q.num_computed_tokens = p.num_computed_tokens
  /\ q.num_in_flight_tokens = p.num_in_flight_tokens
  /\ q.num_stale_output_tokens = p.num_stale_output_tokens

\* The session r, which was p, goes on from k more tokens as q.
GoesOn(r, q, p, k) ==
  r \in Sessions /\ q.num_tokens = AtMost(p.num_tokens + k, q.num_computed_tokens) + 1

QuietAt(r, q, p) ==
  /\ SameCounters(q, p)
  /\ q.status = "RUNNING" => p.status = "RUNNING"
  /\ p.status = "FINISHED" => q.status = "FINISHED"
  /\ q.num_tokens = p.num_tokens \/ GoesOn(r, q, p, 0)
  /\ NoPlaceholders(p) => NoPlaceholders(q)

\* No counter changes.
Quiet ==
  /\ \A r \in Reqs : QuietAt(r, request'[r], request[r])
  /\ UNCHANGED <<held, inflight, todo>> /\ loc'.batch = loc.batch

GrewAt(e, q, p) ==
  /\ p.status \notin {"NEW", "FINISHED"} /\ q.status = "RUNNING"
  /\ \/ q.num_computed_tokens = p.num_computed_tokens
        /\ (p.status = "RUNNING" \/ p.num_computed_tokens > 0)
     \/ q.num_computed_tokens \in CacheHits(p)
  /\ q.num_in_flight_tokens = p.num_in_flight_tokens
  /\ q.num_stale_output_tokens = p.num_stale_output_tokens
  /\ q.num_tokens = p.num_tokens
  /\ NoPlaceholders(p) => NoPlaceholders(q)
  /\ \/ Aligned /\ NumSpec > 0
     \/ e.drafts <= 0 \/ e.drafts < e.n
     \/ e.drafts <= q.num_computed_tokens + e.n - p.num_tokens - p.num_output_placeholders

\* A request gets an entry in the step, and the blocks for it.
Grows(e) ==
  LET r == e.req
      computed == request'[r].num_computed_tokens
  IN  /\ r \in Reqs /\ e.n \in Int /\ e.n > 0
      /\ GrewAt(e, request'[r], request[r])
      /\ Fits(r, computed, e.n) /\ held' = [held EXCEPT ![r] = TableSize(r, computed, e.n)]
      /\ \A s \in Reqs \ {r} : request'[s] = request[s]
      /\ loc'.batch = Append(loc.batch, e) /\ \A i \in DOMAIN loc.batch : loc.batch[i].req # r
      /\ UNCHANGED <<inflight, todo>> /\ InSchedule

LostAt(q, p) ==
  /\ p.status = "RUNNING" /\ q.status = "PREEMPTED" /\ q.num_computed_tokens = 0
  /\ q.num_in_flight_tokens = p.num_in_flight_tokens
  /\ q.num_stale_output_tokens = p.num_in_flight_tokens
  /\ q.num_tokens = p.num_tokens /\ NoPlaceholders(q)

\* The requests of S lose their blocks, and their entries.
Loses(S) ==
  /\ \A r \in S : LostAt(request'[r], request[r])
  /\ \A r \in Reqs \ S : request'[r] = request[r]
  /\ held' = [r \in Reqs |-> IF r \in S THEN 0 ELSE held[r]]
  /\ \A i \in DOMAIN loc'.batch :
       loc'.batch[i].req \notin S /\ \E j \in DOMAIN loc.batch : loc.batch[j] = loc'.batch[i]
  /\ UNCHANGED <<inflight, todo>> /\ (InSchedule \/ BetweenSteps)

LaunchedAt(e, q, p) ==
  /\ q.status = p.status
  /\ q.num_computed_tokens = p.num_computed_tokens + e.n
  /\ q.num_in_flight_tokens = p.num_in_flight_tokens + e.n
  /\ q.num_stale_output_tokens = p.num_stale_output_tokens
  /\ q.num_tokens = p.num_tokens
  /\ Depth = 1 /\ NoPlaceholders(p) => NoPlaceholders(q)

\* The step is launched.
LaunchesStep ==
  /\ \A i \in DOMAIN loc.batch :
       LaunchedAt(loc.batch[i], request'[loc.batch[i].req], request[loc.batch[i].req])
  /\ \A r \in Reqs : (\A i \in DOMAIN loc.batch : loc.batch[i].req # r) => request'[r] = request[r]
  /\ loc'.batch = <<>> /\ inflight' = Append(inflight, LaunchedStep)
  /\ UNCHANGED <<held, todo>> /\ InSchedule

\* The oldest step is taken up.
TakesStep ==
  /\ inflight # <<>> /\ todo = <<>> /\ todo' = Head(inflight) /\ inflight' = Tail(inflight)
  /\ loc'.batch = loc.batch /\ UNCHANGED <<request, held>>

AnsweredAt(e, q, p) ==
  /\ p.status \notin {"NEW", "FINISHED"}
  /\ \/ q.status = p.status
     \/ e.req \in Sessions /\ q.status \in {"WAITING", "WAITING_FOR_STREAMING_REQ"}
  /\ q.num_in_flight_tokens = p.num_in_flight_tokens - e.n
  /\ q.num_stale_output_tokens = IF p.num_stale_output_tokens > 0
                                 THEN p.num_stale_output_tokens - e.n ELSE p.num_stale_output_tokens
  /\ \/ q.num_computed_tokens = p.num_computed_tokens
     \/ /\ p.num_computed_tokens > 0
        /\ \E k \in Nat : k <= e.drafts /\ q.num_computed_tokens = p.num_computed_tokens - k
  /\ \E k \in Nat : q.num_tokens = p.num_tokens + k \/ GoesOn(e.req, q, p, k)
  /\ Depth = 1 /\ NoPlaceholders(p) => NoPlaceholders(q)

\* The output of the next entry is dropped or delivered.
AnswersStep ==
  LET e == Head(todo)
      r == e.req
  IN  /\ OutputTurn /\ todo' = Tail(todo) /\ inflight' = inflight /\ loc'.batch = loc.batch
      /\ r \in Reqs
      /\ \A s \in Reqs \ {r} : request'[s] = request[s] /\ held'[s] = held[s]
      /\ \/ request[r].status = "FINISHED" /\ request'[r] = request[r] /\ held'[r] = held[r]
         \/ request'[r] = Gone(r) /\ held'[r] = 0
         \/ AnsweredAt(e, request'[r], request[r]) /\ held'[r] = held[r]

\* The requests of S come to their end.
EndsAll(S) ==
  /\ request' = [r \in Reqs |-> IF r \in S THEN Gone(r) ELSE request[r]]
  /\ held' = [r \in Reqs |-> IF r \in S THEN 0 ELSE held[r]]
  /\ loc'.batch = loc.batch /\ UNCHANGED <<inflight, todo>>
  /\ pc \in {"idle", "output"}

CounterStep ==
  \/ Quiet
  \/ \E e \in BatchEntry : Grows(e)
  \/ \E S \in SUBSET Reqs : Loses(S)
  \/ LaunchesStep
  \/ TakesStep
  \/ AnswersStep
  \/ \E S \in SUBSET Reqs : EndsAll(S)

\* Steps that change one request, and none of its counters.
LEMMA QuietChange ==
  ASSUME Typed, NEW r \in Reqs, NEW q, request' = [request EXCEPT ![r] = q],
         QuietAt(r, q, request[r]), UNCHANGED <<held, inflight, todo>>, loc'.batch = loc.batch
  PROVE  Quiet
<1>1. request \in [Reqs -> AnyRequest]
  BY DEF Typed
<1>2. \A s \in Reqs : QuietAt(s, request[s], request[s])
  BY DEF QuietAt, SameCounters
<1>3. \A s \in Reqs : request'[s] = IF s = r THEN q ELSE request[s]
  BY <1>1
<1>4. QED BY <1>2, <1>3 DEF Quiet

\* Steps that touch no request.
LEMMA QuietSame ==
  ASSUME UNCHANGED <<request, held, inflight, todo>>, loc'.batch = loc.batch
  PROVE  Quiet
  BY DEF Quiet, QuietAt, SameCounters

\* Drafts never outrun the tokens of their request.
LEMMA DraftsFit ==
  ASSUME NEW q \in AnyRequest, NEW n \in Int
  PROVE  \/ NumDrafts(q, n) <= 0
         \/ NumDrafts(q, n) <= q.num_computed_tokens + n - q.num_tokens - q.num_output_placeholders
<1> DEFINE x == n + q.num_computed_tokens - q.num_tokens - q.num_output_placeholders
<1>1. /\ x \in Int /\ q.num_spec \in Int
      /\ x = q.num_computed_tokens + n - q.num_tokens - q.num_output_placeholders
  BY DEF AnyRequest
<1>2. NumDrafts(q, n) = AtMost(q.num_spec, AtLeast(x, 0))
  BY DEF NumDrafts
<1> HIDE DEF x
<1>3. AtMost(q.num_spec, AtLeast(x, 0)) <= 0 \/ AtMost(q.num_spec, AtLeast(x, 0)) <= x
  BY <1>1 DEF AtMost, AtLeast
<1>4. QED BY <1>1, <1>2, <1>3

\* Without asynchronous scheduling there are no placeholders.
LEMMA AdvancedPlaceholders ==
  ASSUME config \in Configs, Depth = 1, NEW q \in AnyRequest, NEW n \in Int, NEW drafts \in Int,
         NoPlaceholders(q)
  PROVE  NoPlaceholders(Advanced(q, n, drafts))
<1> DEFINE computed == q.num_computed_tokens + n
           chunk == computed < q.num_tokens + q.num_output_placeholders
           fl == q.num_in_flight_tokens + n
<1>1. Advanced(q, n, drafts) =
        [q EXCEPT !.num_computed_tokens = computed, !.num_in_flight_tokens = fl,
                  !.is_prefill_chunk = chunk,
                  !.num_output_placeholders = q.num_output_placeholders,
                  !.num_spec = q.num_spec]
  BY DEF Advanced
<1> HIDE DEF computed, chunk, fl
<1>2. QED BY <1>1 DEF AnyRequest, NoPlaceholders

\* The launch of a step, by its counters.
LEMMA CountCommit == ASSUME Base, Commit PROVE LaunchesStep
<1>1. /\ loc.batch \in Seq(BatchEntry) /\ config \in Configs /\ OncePerStep(loc.batch)
      /\ request \in [Reqs -> AnyRequest]
  BY DEF Base, Typed, Locals, BatchSound
<1>2. request' = Launched /\ inflight' = Append(inflight, LaunchedStep)
  BY CommitFacts DEF Base
<1>3. loc'.batch = <<>> /\ UNCHANGED <<held, todo>> /\ InSchedule
  BY DEF Commit, Idle, output, InSchedule
<1>4. ASSUME NEW i \in DOMAIN loc.batch
      PROVE  LET b == loc.batch[i] IN LaunchedAt(b, request'[b.req], request[b.req])
  <2> DEFINE b == loc.batch[i]
             r == b.req
  <2>1. b \in BatchEntry
    BY <1>1
  <2>2. r \in Reqs /\ b.n \in Int /\ b.drafts \in Int
    BY <2>1 DEF BatchEntry
  <2>3. r \in {e.req : e \in ToSet(loc.batch)}
    BY DEF ToSet
  <2>4. Entry(r) \in ToSet(loc.batch) /\ Entry(r).req = r
    BY <2>3, EntryFacts DEF Base
  <2>5. Entry(r) = b
    <3>1. PICK j \in DOMAIN loc.batch : Entry(r) = loc.batch[j]
      BY <2>4 DEF ToSet
    <3>2. loc.batch[j].req = loc.batch[i].req
      BY <3>1, <2>4
    <3>3. QED BY <3>1, <3>2, <1>1 DEF OncePerStep
  <2>6. request'[r] = Advanced(request[r], b.n, b.drafts)
    BY <1>2, <2>2, <2>3, <2>5 DEF Launched
  <2>7. request[r] \in AnyRequest
    BY <1>1, <2>2
  <2> HIDE DEF b, r
  <2>8. LaunchedAt(b, Advanced(request[r], b.n, b.drafts), request[r])
    BY <1>1, <2>2, <2>7, AdvancedFacts, AdvancedPlaceholders DEF LaunchedAt
  <2>9. LaunchedAt(b, request'[r], request[r])
    BY <2>6, <2>8
  <2>10. QED BY <2>9 DEF b, r
<1>5. ASSUME NEW r \in Reqs, \A i \in DOMAIN loc.batch : loc.batch[i].req # r
      PROVE  request'[r] = request[r]
  <2>1. r \notin {e.req : e \in ToSet(loc.batch)}
    BY <1>5 DEF ToSet
  <2>2. QED BY <1>2, <2>1 DEF Launched
<1>6. QED BY <1>2, <1>3, <1>4, <1>5 DEF LaunchesStep

\* What schedule() does to the counters.
LEMMA CountSchedule == ASSUME Base, Schedule PROVE CounterStep
<1>1. /\ loc \in Locals /\ loc.batch \in Seq(BatchEntry) /\ config \in Configs
      /\ request \in [Reqs -> AnyRequest] /\ held \in [Reqs -> Int] /\ running \in Seq(Reqs)
  BY DEF Base, Typed, Locals
<1>2. CASE BeginSchedule
  <2>1. loc'.batch = loc.batch /\ UNCHANGED <<request, held, inflight, todo>>
    BY <1>2 DEF BeginSchedule, Base, Phases, Idle, worker, output
  <2>2. QED BY <2>1, QuietSame DEF CounterStep
<1>3. CASE SkipRunning
  <2>1. loc'.batch = loc.batch /\ UNCHANGED <<request, held, inflight, todo>>
    BY <1>3, <1>1 DEF SkipRunning, Locals, worker, output
  <2>2. QED BY <2>1, QuietSame DEF CounterStep
<1>4. CASE ScheduleRunning
  <2> DEFINE r == running[loc.idx]
             p == request[r]
             q == [p EXCEPT !.num_spec = 0]
             n == NumNewTokens(p)
  <2>1. PICK e : Scheduled(e, r)
    BY <1>4, ScheduledFacts
  <2>2. UNCHANGED <<inflight, todo>> /\ InSchedule
    BY <1>4 DEF ScheduleRunning, RunningTurn, InSchedule, worker, output
  <2>3. /\ r \in Reqs /\ p \in AnyRequest /\ p.status = "RUNNING" /\ n \in Int /\ n > 0
        /\ Fits(r, p.num_computed_tokens, n)
        /\ held' = [held EXCEPT ![r] = TableSize(r, p.num_computed_tokens, n)]
        /\ request' = [request EXCEPT ![r] = q]
        /\ e \in BatchEntry /\ e.req = r /\ e.n = n /\ e.drafts = NumDrafts(p, n)
        /\ loc'.batch = Append(loc.batch, e)
        /\ \A i \in DOMAIN loc.batch : loc.batch[i].req # r
    BY <2>1 DEF Scheduled
  <2> HIDE DEF n
  <2>4. \/ e.drafts <= 0
        \/ e.drafts <= p.num_computed_tokens + e.n - p.num_tokens - p.num_output_placeholders
    BY <2>3, DraftsFit
  <2> HIDE DEF p
  <2>5. /\ q.status = p.status /\ q.num_computed_tokens = p.num_computed_tokens
        /\ q.num_in_flight_tokens = p.num_in_flight_tokens
        /\ q.num_stale_output_tokens = p.num_stale_output_tokens
        /\ q.num_tokens = p.num_tokens /\ q.num_output_placeholders = p.num_output_placeholders
    BY <2>3 DEF AnyRequest
  <2> HIDE DEF q, r
  <2>6. GrewAt(e, q, p)
    BY <2>3, <2>4, <2>5 DEF GrewAt, NoPlaceholders
  <2>7. request'[r] = q /\ request[r] = p /\ \A s \in Reqs \ {r} : request'[s] = request[s]
    BY <2>3, <1>1 DEF p
  <2>8. Grows(e)
    BY <2>2, <2>3, <2>5, <2>6, <2>7 DEF Grows
  <2>9. QED BY <2>3, <2>8 DEF CounterStep
<1>5. CASE PreemptForRunning
  <2> DEFINE r == running[loc.idx]
             v == Victim
             p == request[v]
  <2>1. Evicted(v, r)
    BY <1>5, EvictedFacts
  <2>2. UNCHANGED <<inflight, todo>> /\ pc = "running"
    BY <1>5 DEF PreemptForRunning, worker, output, RunningTurn
  <2>3. /\ v \in Reqs /\ p \in AnyRequest /\ v \in ToSet(running)
        /\ request' = [request EXCEPT ![v] = Preempted(p, KvDelivery)]
        /\ held' = [held EXCEPT ![v] = 0] /\ loc'.batch = BatchWithout(v)
    BY <2>1 DEF Evicted
  <2> HIDE DEF v
  <2>4. p.status = "RUNNING"
    BY <2>2, <2>3, RunningOnes DEF WithStatus
  <2>5. KvDelivery \in BOOLEAN
    BY <1>1, ConfigFacts
  <2>6. LostAt(Preempted(p, KvDelivery), p)
    BY <2>3, <2>4, <2>5, PreemptedFields DEF LostAt
  <2>7. /\ request'[v] = Preempted(p, KvDelivery) /\ held'[v] = 0
        /\ \A s \in Reqs \ {v} : request'[s] = request[s] /\ held'[s] = held[s]
    BY <2>3, <1>1
  <2>8. held' = [s \in Reqs |-> IF s \in {v} THEN 0 ELSE held[s]]
    BY <2>3, <1>1
  <2>9. \A i \in DOMAIN loc'.batch :
          loc'.batch[i].req \notin {v} /\ \E j \in DOMAIN loc.batch : loc.batch[j] = loc'.batch[i]
    BY <2>3, BatchWithoutFacts DEF Base, BatchSound
  <2>10. Loses({v})
    BY <2>2, <2>6, <2>7, <2>8, <2>9 DEF Loses, InSchedule
  <2>11. QED BY <2>3, <2>10 DEF CounterStep
<1>6. CASE EndRunning
  <2>1. loc'.batch = loc.batch /\ UNCHANGED <<request, held, inflight, todo>>
    BY <1>6, <1>1 DEF EndRunning, Locals, worker, output
  <2>2. QED BY <2>1, QuietSame DEF CounterStep
<1>7. CASE SkipWaiting
  <2> DEFINE c == Candidate
             s == Promoted(c).status
  <2>1. /\ request' = [request EXCEPT ![c] = Promoted(c)] /\ WaitingTurn
        /\ loc' = [loc EXCEPT !.step_skipped = prepend_request(@, c)]
        /\ UNCHANGED <<held, inflight, todo>>
    BY <1>7 DEF SkipWaiting, worker, output
  <2>2. c \in Reqs /\ request[c] \in AnyRequest
    BY <2>1, CandidateFacts DEF Base
  <2>3. /\ Promoted(c) = [request[c] EXCEPT !.status = s]
        /\ \/ s = request[c].status
           \/ request[c].status = "WAITING_FOR_STRUCTURED_OUTPUT_GRAMMAR" /\ s = "WAITING"
    BY <2>2, PromotedFacts DEF Base
  <2> HIDE DEF s, c
  <2>4. QuietAt(c, Promoted(c), request[c])
    BY <2>2, <2>3 DEF AnyRequest, QuietAt, SameCounters, NoPlaceholders
  <2>5. loc'.batch = loc.batch
    BY <2>1, <1>1 DEF Locals
  <2>6. Quiet
    BY <2>1, <2>2, <2>4, <2>5, QuietChange DEF Base
  <2>7. QED BY <2>6 DEF CounterStep
<1>8. ASSUME WaitingTurn, NEW found \in Lookups(Promoted(Candidate))
      PROVE  LET c == Candidate
                 p == request[c]
                 q == found.q
             IN  /\ c \in Reqs /\ p \in AnyRequest /\ q \in AnyRequest /\ found.computed \in Int
                 /\ SameCounters(q, p) /\ q.num_tokens = p.num_tokens
                 /\ q.num_output_placeholders = p.num_output_placeholders
                 /\ \/ q.status = p.status
                    \/ /\ p.status = "WAITING_FOR_STRUCTURED_OUTPUT_GRAMMAR"
                       /\ q.status = "WAITING"
                 /\ \/ found.computed = p.num_computed_tokens /\ p.num_computed_tokens > 0
                    \/ found.computed \in CacheHits(p)
  <2> DEFINE c == Candidate
             p == request[c]
             m == Promoted(c)
             q == found.q
             j == q.shared_prefix_boundary
             s == m.status
  <2>1. /\ c \in Reqs /\ p \in AnyRequest /\ m \in AnyRequest
        /\ q \in AnyRequest /\ found.computed \in Int
        /\ \/ q.status = p.status
           \/ p.status = "WAITING_FOR_STRUCTURED_OUTPUT_GRAMMAR" /\ q.status = "WAITING"
    BY <1>8, CandidateLookup
  <2>2. m = [p EXCEPT !.status = s]
    BY <2>1, PromotedFacts DEF Base
  <2>3. /\ q = [m EXCEPT !.shared_prefix_boundary = j]
        /\ \/ m.num_computed_tokens > 0 /\ q = m /\ found.computed = m.num_computed_tokens
           \/ ~(m.num_computed_tokens > 0) /\ found.computed \in CacheHits(m)
    BY <1>1, <1>8, <2>1, LookupFacts
  <2> HIDE DEF m, q, c, s, j
  <2>4. /\ m.num_tokens = p.num_tokens /\ SameCounters(m, p)
        /\ m.num_output_placeholders = p.num_output_placeholders
    BY <2>1, <2>2 DEF AnyRequest, SameCounters
  <2>5. /\ q.num_tokens = m.num_tokens /\ SameCounters(q, m)
        /\ q.num_output_placeholders = m.num_output_placeholders
    BY <2>1, <2>3 DEF AnyRequest, SameCounters
  <2>6. CacheHits(m) = CacheHits(p)
    BY <2>4 DEF CacheHits
  <2>7. QED BY <2>1, <2>3, <2>4, <2>5, <2>6 DEF SameCounters, q, c
<1>9. ASSUME WaitingTurn, NEW found \in Lookups(Promoted(Candidate)), Admit(found)
      PROVE  CounterStep
  <2> DEFINE r == Candidate
             p == request[r]
             f == found.q
             computed == found.computed
             q == [f EXCEPT !.status = "RUNNING", !.num_computed_tokens = computed]
             n == AdmitTokens(f, computed)
  <2>1. PICK e : Admitted(e, r, f, computed)
    BY <1>9, AdmittedFacts
  <2>2. UNCHANGED <<inflight, todo>> /\ CanAdmit(r, f, computed) /\ PopCandidate /\ pc = "waiting"
    BY <1>9, Zenon DEF Admit, WaitingTurn, worker, output
  <2>3. /\ r \in Reqs /\ p \in AnyRequest /\ f \in AnyRequest /\ computed \in Int
        /\ n \in Int /\ n > 0 /\ Fits(r, computed, n)
        /\ held' = [held EXCEPT ![r] = TableSize(r, computed, n)]
        /\ request' = [request EXCEPT ![r] = q]
        /\ e \in BatchEntry /\ e.req = r /\ e.n = n
        /\ e.drafts = IF Padded(f.num_tokens - computed) THEN NumSpec ELSE 0
        /\ loc'.batch = Append(loc.batch, e)
        /\ \A i \in DOMAIN loc.batch : loc.batch[i].req # r
    BY <2>1 DEF Admitted
  <2>4. p.status \notin {"NEW", "FINISHED"}
    BY <1>9, <2>2, PopEffect DEF LiveReqs, Live
  <2>5. /\ SameCounters(f, p) /\ f.num_tokens = p.num_tokens
        /\ f.num_output_placeholders = p.num_output_placeholders
        /\ \/ computed = p.num_computed_tokens /\ p.num_computed_tokens > 0
           \/ computed \in CacheHits(p)
    BY <1>8, <1>9
  <2>6. (Aligned /\ NumSpec > 0) \/ e.drafts <= 0 \/ e.drafts < e.n
    <3>1. CASE Padded(f.num_tokens - computed) /\ ~Aligned
      <4>1. n = 1 + NumSpec /\ e.drafts = NumSpec /\ NumSpec \in Nat
        BY <3>1, <1>1, <2>3, ConfigFacts DEF AdmitTokens, Split
      <4>2. QED BY <4>1, <2>3
    <3>2. CASE ~Padded(f.num_tokens - computed)
      BY <3>2, <2>3
    <3>3. Padded(f.num_tokens - computed) => NumSpec > 0
      BY DEF Padded
    <3>4. QED BY <3>1, <3>2, <3>3
  <2> HIDE DEF p, f, computed, n
  <2>7. /\ q.status = "RUNNING" /\ q.num_computed_tokens = computed
        /\ q.num_in_flight_tokens = f.num_in_flight_tokens
        /\ q.num_stale_output_tokens = f.num_stale_output_tokens
        /\ q.num_tokens = f.num_tokens /\ q.num_output_placeholders = f.num_output_placeholders
    BY <2>3 DEF AnyRequest
  <2> HIDE DEF q, r
  <2>8. GrewAt(e, q, p)
    BY <2>4, <2>5, <2>6, <2>7 DEF GrewAt, NoPlaceholders, SameCounters
  <2>9. request'[r] = q /\ request[r] = p /\ \A s \in Reqs \ {r} : request'[s] = request[s]
    BY <2>3, <1>1 DEF p
  <2>10. Grows(e)
    BY <2>2, <2>3, <2>7, <2>8, <2>9 DEF Grows, InSchedule
  <2>11. QED BY <2>3, <2>10 DEF CounterStep
<1>10. ASSUME WaitingTurn, NEW found \in Lookups(Promoted(Candidate)), StopWaiting(found)
       PROVE  CounterStep
  <2>1. /\ request' = [request EXCEPT ![Candidate] = found.q]
        /\ loc' = [loc EXCEPT !.step_skipped = <<>>] /\ UNCHANGED <<held, inflight, todo>>
    BY <1>10 DEF StopWaiting, Requeue, worker, output
  <2>2. Candidate \in Reqs /\ QuietAt(Candidate, found.q, request[Candidate])
    BY <1>8, <1>10 DEF QuietAt, NoPlaceholders
  <2>3. loc'.batch = loc.batch
    BY <2>1, <1>1 DEF Locals
  <2>4. Quiet
    BY <2>1, <2>2, <2>3, QuietChange DEF Base
  <2>5. QED BY <2>4 DEF CounterStep
<1>11. CASE EndWaiting
  <2>1. loc'.batch = loc.batch /\ UNCHANGED <<request, held, inflight, todo>>
    BY <1>11, <1>1 DEF EndWaiting, Requeue, Locals, worker, output
  <2>2. QED BY <2>1, QuietSame DEF CounterStep
<1>12. CASE Commit
  BY <1>12, CountCommit DEF CounterStep
<1>13. QED BY <1>2, <1>3, <1>4, <1>5, <1>6, <1>7, <1>9, <1>10, <1>11, <1>12 DEF Schedule

\* What becomes of a request by an output.
LEMMA AnsweredFacts ==
  ASSUME Typed, OutputTurn, Live(Head(todo).req), NEW accepted \in Int, NEW eos \in Int,
         NEW drafts \in Int, 0 <= accepted, 0 <= eos,
         accepted = 0 \/ accepted <= Head(todo).drafts
  PROVE  AnsweredAt(Head(todo), Output(Head(todo), accepted, eos, drafts),
                    request[Head(todo).req])
<1> DEFINE e == Head(todo)
           p == request[e.req]
           q == Output(e, accepted, eos, drafts)
<1>1. /\ q.status = p.status
      /\ q.num_in_flight_tokens = p.num_in_flight_tokens - e.n
      /\ q.num_stale_output_tokens = IF p.num_stale_output_tokens > 0
            THEN p.num_stale_output_tokens - e.n ELSE p.num_stale_output_tokens
      /\ q.num_computed_tokens =
           IF e.drafts > 0 /\ Took(e, accepted) > 0
              /\ p.num_stale_output_tokens <= 0 /\ p.num_computed_tokens > 0
           THEN p.num_computed_tokens - (e.drafts - accepted) ELSE p.num_computed_tokens
  BY OutputFacts, ZenonT(30)
<1>2. /\ \E k \in Nat : q.num_tokens = p.num_tokens + k
      /\ Depth = 1 /\ NoPlaceholders(p) => NoPlaceholders(q)
  BY OutputTokens
<1>3. p.status \notin {"NEW", "FINISHED"}
  BY DEF Live
<1>4. p \in AnyRequest /\ e.drafts \in Int
  BY HeadFacts
<1>5. p.num_computed_tokens \in Int
  BY <1>4 DEF AnyRequest
<1>6. accepted = 0 \/ accepted <= e.drafts
  OBVIOUS
<1> HIDE DEF q, p, e
<1>7. \/ q.num_computed_tokens = p.num_computed_tokens
      \/ /\ p.num_computed_tokens > 0
         /\ \E k \in Nat : k <= e.drafts /\ q.num_computed_tokens = p.num_computed_tokens - k
  <2>1. CASE e.drafts > 0 /\ p.num_computed_tokens > 0
             /\ q.num_computed_tokens = p.num_computed_tokens - (e.drafts - accepted)
    <3>1. e.drafts - accepted \in Nat /\ e.drafts - accepted <= e.drafts
      BY <2>1, <1>4, <1>6
    <3>2. QED BY <2>1, <3>1
  <2>2. QED BY <2>1, <1>1
<1>8. AnsweredAt(e, q, p)
  BY <1>1, <1>2, <1>3, <1>7 DEF AnsweredAt
<1>9. QED BY <1>8 DEF q, p, e

\* What a delivered output does to the counters.
LEMMA CountDeliver ==
  ASSUME Base, NEW accepted \in Int, NEW eos \in Int, NEW error, NEW drafts \in Int,
         Deliver(accepted, eos, error, drafts)
  PROVE  AnswersStep
<1> DEFINE e == Head(todo)
           r == e.req
           p == request[r]
           q == Output(e, accepted, eos, drafts)
<1>1. Delivered(e, r, q, accepted, eos, error, drafts)
  BY DeliverFacts
<1>2. /\ OutputTurn /\ Live(r) /\ todo' = Tail(todo) /\ UNCHANGED <<inflight, loc>>
      /\ accepted \in 0 .. (IF e.samples /\ ~e.padded THEN e.drafts ELSE 0)
      /\ eos \in 0 .. Took(e, accepted)
      /\ \/ request' = [request EXCEPT ![r] = q] /\ held' = held
         \/ Stop(r, q, error)
  BY <1>1, Zenon DEF Delivered
<1>3. /\ r \in Reqs /\ request \in [Reqs -> AnyRequest] /\ held \in [Reqs -> Int]
      /\ e.drafts \in Int /\ Took(e, accepted) \in Int /\ q \in AnyRequest
      /\ config \in Configs /\ p \in AnyRequest
  BY <1>2, HeadFacts, OutputFacts DEF Base, Typed
<1>4. 0 <= accepted /\ 0 <= eos /\ (accepted = 0 \/ accepted <= e.drafts)
  BY <1>2, <1>3
<1>5. AnsweredAt(e, q, p)
  BY <1>2, <1>4, AnsweredFacts DEF Base
<1> HIDE DEF q, e
<1>6. CASE request' = [request EXCEPT ![r] = q] /\ held' = held
  <2>1. request'[r] = q /\ \A s \in Reqs \ {r} : request'[s] = request[s] /\ held'[s] = held[s]
    BY <1>3, <1>6
  <2>2. AnsweredAt(e, request'[r], request[r]) /\ held'[r] = held[r]
    BY <2>1, <1>5, <1>6
  <2> HIDE DEF r
  <2>3. QED BY <2>1, <2>2, <1>2, <1>3 DEF AnswersStep, e, r
<1>7. CASE Stop(r, q, error)
  <2>1. CASE request' = [request EXCEPT ![r] = Gone(r)] /\ held' = [held EXCEPT ![r] = 0]
    <3>1. /\ request'[r] = Gone(r) /\ held'[r] = 0
          /\ \A s \in Reqs \ {r} : request'[s] = request[s] /\ held'[s] = held[s]
      BY <1>3, <2>1
    <3> HIDE DEF r
    <3>2. QED BY <3>1, <1>2, <1>3 DEF AnswersStep, e, r
  <2>2. CASE r \in Sessions /\ request' = [request EXCEPT ![r] = UpdatedSession(Popped(q))]
             /\ held' = held
    <3> DEFINE u == UpdatedSession(Popped(q))
    <3>1. /\ Popped(q) \in AnyRequest
          /\ Popped(q).num_computed_tokens = q.num_computed_tokens
          /\ Popped(q).num_in_flight_tokens = q.num_in_flight_tokens
          /\ Popped(q).num_stale_output_tokens = q.num_stale_output_tokens
          /\ Popped(q).num_tokens = q.num_tokens
          /\ Popped(q).num_output_placeholders = q.num_output_placeholders
      BY <1>3, PoppedFacts, PoppedTokens
    <3>2. /\ u.status = "WAITING"
          /\ u.num_computed_tokens = q.num_computed_tokens
          /\ u.num_in_flight_tokens = q.num_in_flight_tokens
          /\ u.num_stale_output_tokens = q.num_stale_output_tokens
          /\ u.num_tokens = AtMost(q.num_tokens, q.num_computed_tokens) + 1
          /\ u.num_output_placeholders = q.num_output_placeholders
      BY <3>1, UpdatedSessionFacts, UpdatedSessionTokens
    <3>3. /\ request'[r] = u
          /\ \A s \in Reqs \ {r} : request'[s] = request[s] /\ held'[s] = held[s]
      BY <1>3, <2>2
    <3> HIDE DEF u, p
    <3>4. \E k \in Nat : u.num_tokens = p.num_tokens + k \/ GoesOn(e.req, u, p, k)
      <4>1. PICK k \in Nat : q.num_tokens = p.num_tokens + k \/ GoesOn(e.req, q, p, k)
        BY <1>5 DEF AnsweredAt
      <4>2. CASE q.num_tokens = p.num_tokens + k
        BY <4>2, <3>2, <2>2 DEF GoesOn
      <4>3. CASE GoesOn(e.req, q, p, k)
        <5>1. q.num_tokens = AtMost(p.num_tokens + k, q.num_computed_tokens) + 1
          BY <4>3 DEF GoesOn
        <5>2. p.num_tokens \in Int /\ q.num_computed_tokens \in Int /\ q.num_tokens \in Int
          BY <1>3 DEF AnyRequest
        <5> DEFINE c == q.num_computed_tokens
                   m == IF p.num_tokens + k < c THEN k + 1 ELSE k
        <5>3. CASE p.num_tokens + k < c
          <6>1. q.num_tokens = p.num_tokens + k + 1
            BY <5>1, <5>2, <5>3 DEF AtMost
          <6>2. AtMost(q.num_tokens, c) = AtMost(p.num_tokens + (k + 1), c)
            BY <6>1, <5>2
          <6>3. GoesOn(e.req, u, p, k + 1)
            BY <6>2, <3>2, <2>2 DEF GoesOn
          <6>4. QED BY <6>3
        <5>4. CASE ~(p.num_tokens + k < c)
          <6>1. q.num_tokens = c + 1
            BY <5>1, <5>2, <5>4 DEF AtMost
          <6>2. AtMost(q.num_tokens, c) = c
            BY <6>1, <5>2 DEF AtMost
          <6>3. AtMost(p.num_tokens + k, c) = c
            <7>1. p.num_tokens + k \in Int /\ c \in Int /\ p.num_tokens + k >= c
              BY <5>2, <5>4
            <7>2. QED BY <7>1 DEF AtMost
          <6>4. GoesOn(e.req, u, p, k)
            BY <6>2, <6>3, <3>2, <2>2 DEF GoesOn
          <6>5. QED BY <6>4
        <5>5. QED BY <5>3, <5>4
      <4>4. QED BY <4>1, <4>2, <4>3
    <3>5. AnsweredAt(e, u, p)
      BY <3>2, <3>4, <2>2, <1>5 DEF AnsweredAt, NoPlaceholders
    <3>6. AnsweredAt(e, request'[r], request[r]) /\ held'[r] = held[r]
      BY <3>3, <3>5, <2>2 DEF p
    <3> HIDE DEF r
    <3>7. QED BY <3>3, <3>6, <1>2, <1>3 DEF AnswersStep, e, r
  <2>3. CASE r \in Sessions /\ held' = held
             /\ request' = [request EXCEPT ![r] = [q EXCEPT !.status = "WAITING_FOR_STREAMING_REQ"]]
    <3> DEFINE u == [q EXCEPT !.status = "WAITING_FOR_STREAMING_REQ"]
    <3>1. /\ u.status = "WAITING_FOR_STREAMING_REQ"
          /\ u.num_computed_tokens = q.num_computed_tokens
          /\ u.num_in_flight_tokens = q.num_in_flight_tokens
          /\ u.num_stale_output_tokens = q.num_stale_output_tokens
          /\ u.num_tokens = q.num_tokens
          /\ u.num_output_placeholders = q.num_output_placeholders
      BY <1>3 DEF AnyRequest
    <3>2. /\ request'[r] = u
          /\ \A s \in Reqs \ {r} : request'[s] = request[s] /\ held'[s] = held[s]
      BY <1>3, <2>3
    <3> HIDE DEF u, p
    <3>3. AnsweredAt(e, u, p)
      BY <3>1, <2>3, <1>5 DEF AnsweredAt, NoPlaceholders, GoesOn
    <3>4. AnsweredAt(e, request'[r], request[r]) /\ held'[r] = held[r]
      BY <3>2, <3>3, <2>3 DEF p
    <3> HIDE DEF r
    <3>5. QED BY <3>2, <3>4, <1>2, <1>3 DEF AnswersStep, e, r
  <2>4. QED BY <2>1, <2>2, <2>3, <1>7, StopCases
<1>8. QED BY <1>2, <1>6, <1>7

\* What dropped output does to the counters.
LEMMA CountDrop == ASSUME Base, DropOutput PROVE AnswersStep
<1> DEFINE e == Head(todo)
           r == e.req
           p == request[r]
           q == Returned(p, e.n)
<1>1. /\ OutputTurn /\ todo' = Tail(todo) /\ UNCHANGED <<inflight, loc, held>>
      /\ request' = IF Live(r) THEN [request EXCEPT ![r] = q] ELSE request
  BY DEF DropOutput, worker
<1>2. /\ r \in Reqs /\ request \in [Reqs -> AnyRequest] /\ e.n \in Int /\ p \in AnyRequest
      /\ p.status # "NEW"
  BY <1>1, HeadFacts, TodoFacts DEF Base, Typed
<1>3. CASE ~Live(r)
  <2>1. request' = request /\ p.status = "FINISHED"
    BY <1>1, <1>2, <1>3 DEF Live
  <2> HIDE DEF r, e
  <2>2. QED BY <2>1, <1>1, <1>2 DEF AnswersStep, r, e
<1>4. CASE Live(r)
  <2> DEFINE a == p.num_in_flight_tokens - e.n
             b == IF p.num_stale_output_tokens > 0
                  THEN p.num_stale_output_tokens - e.n ELSE p.num_stale_output_tokens
  <2>1. q \in AnyRequest /\ q = [p EXCEPT !.num_in_flight_tokens = a,
                                      !.num_stale_output_tokens = b]
    BY <1>2, ReturnedTyped
  <2>2. request'[r] = q /\ \A s \in Reqs \ {r} : request'[s] = request[s] /\ held'[s] = held[s]
    BY <1>1, <1>2, <1>4
  <2>3. p.status \notin {"NEW", "FINISHED"}
    BY <1>4 DEF Live
  <2> HIDE DEF q, p, e, r, a, b
  <2>4. /\ q.status = p.status /\ q.num_in_flight_tokens = a /\ q.num_stale_output_tokens = b
        /\ q.num_computed_tokens = p.num_computed_tokens /\ q.num_tokens = p.num_tokens
        /\ q.num_output_placeholders = p.num_output_placeholders
    BY <2>1, <1>2 DEF AnyRequest
  <2>5. \E k \in Nat : q.num_tokens = p.num_tokens + k
    <3>1. q.num_tokens = p.num_tokens + 0
      BY <2>4, <1>2 DEF AnyRequest
    <3>2. QED BY <3>1
  <2>6. AnsweredAt(e, q, p)
    BY <2>3, <2>4, <2>5 DEF AnsweredAt, NoPlaceholders, a, b
  <2>7. AnsweredAt(e, request'[r], request[r]) /\ held'[r] = held[r]
    BY <2>2, <2>6, <1>1 DEF p
  <2>8. QED BY <2>2, <2>7, <1>1, <1>2 DEF AnswersStep, e, r
<1>5. QED BY <1>3, <1>4

\* What update_from_output does to the counters.
LEMMA CountOutput == ASSUME Base, UpdateFromOutput PROVE CounterStep
<1>1. CASE BeginOutput
  <2>1. /\ inflight # <<>> /\ todo' = Head(inflight) /\ inflight' = Tail(inflight)
        /\ pc = "idle" /\ UNCHANGED <<request, held, loc>>
    BY <1>1 DEF BeginOutput
  <2>2. todo = <<>>
    BY <2>1, IdleFacts
  <2>3. QED BY <2>1, <2>2 DEF CounterStep, TakesStep
<1>2. CASE DropOutput
  BY <1>2, CountDrop DEF CounterStep
<1>3. ASSUME NEW accepted \in 0 .. NumSpec, NEW eos \in 0 .. NumSpec + 1, NEW error \in BOOLEAN,
             NEW drafts \in {0, NumSpec}, Deliver(accepted, eos, error, drafts)
      PROVE  CounterStep
  <2>1. NumSpec \in Nat
    BY ConfigFacts DEF Base, Typed
  <2> HIDE DEF NumSpec
  <2>2. accepted \in Int /\ eos \in Int /\ drafts \in Int
    BY <2>1
  <2>3. AnswersStep
    BY <1>3, <2>2, CountDeliver
  <2>4. QED BY <2>3 DEF CounterStep
<1>4. CASE EndOutput
  <2> DEFINE S == grammar_compile_error_reqs \cap LiveReqs
  <2>1. /\ request' = [r \in Reqs |-> IF r \in S THEN Gone(r) ELSE request[r]]
        /\ held' = [r \in Reqs |-> IF r \in S THEN 0 ELSE held[r]]
        /\ UNCHANGED <<inflight, todo, loc>> /\ pc = "output"
    BY <1>4 DEF EndOutput, FinishRequests, worker
  <2>2. S \in SUBSET Reqs
    BY DEF LiveReqs
  <2> HIDE DEF S
  <2>3. EndsAll(S)
    BY <2>1 DEF EndsAll
  <2>4. QED BY <2>2, <2>3 DEF CounterStep
<1>5. QED BY <1>1, <1>2, <1>3, <1>4 DEF UpdateFromOutput

\* What finish_requests does to the counters.
LEMMA CountFinish ==
  ASSUME NEW r \in Reqs, NEW run, NEW w, NEW k, NEW f, FinishRequests({r}, run, w, k, f),
         UNCHANGED <<loc, inflight, todo>>, pc = "idle"
  PROVE  CounterStep
<1>1. EndsAll({r})
  BY DEF FinishRequests, EndsAll
<1>2. QED BY <1>1 DEF CounterStep

\* What the request handlers do to the counters.
LEMMA CountHandlers == ASSUME Base, Handlers PROVE CounterStep
<1>1. request \in [Reqs -> AnyRequest] /\ config \in Configs
  BY DEF Base, Typed
<1>2. ASSUME NEW r \in Reqs, AddRequest(r) PROVE CounterStep
  <2> DEFINE s == IF r \in Structured THEN "WAITING_FOR_STRUCTURED_OUTPUT_GRAMMAR" ELSE "WAITING"
             q == [request[r] EXCEPT !.status = s]
  <2>1. request' = [request EXCEPT ![r] = q] /\ request[r].status = "NEW"
        /\ UNCHANGED <<held, inflight, todo, loc>>
    BY <1>2 DEF AddRequest, worker, output
  <2>2. s \notin {"RUNNING", "FINISHED"} /\ request[r] \in AnyRequest
    BY <1>1
  <2> HIDE DEF s
  <2>3. QuietAt(r, q, request[r])
    BY <2>1, <2>2 DEF QuietAt, SameCounters, NoPlaceholders, AnyRequest
  <2> HIDE DEF q
  <2>4. Quiet
    BY <2>1, <2>3, QuietChange DEF Base
  <2>5. QED BY <2>4 DEF CounterStep
<1>3. ASSUME NEW r \in Reqs, Abort(r) PROVE CounterStep
  <2>1. /\ FinishRequests({r}, running, waiting, skipped_waiting, finished_req_ids)
        /\ UNCHANGED <<loc, inflight, todo>> /\ pc = "idle"
    BY <1>3 DEF Abort, worker, output
  <2>2. QED BY <2>1, CountFinish
<1>4. ASSUME NEW r \in Reqs, NEW update \in {"chunk", "end"}, AddUpdate(r, update)
      PROVE  CounterStep
  <2>1. UNCHANGED <<loc, inflight, todo>> /\ pc = "idle" /\ r \in Sessions
    BY <1>4, AddUpdateCases DEF worker, output, BetweenSteps
  <2>2. request[r] \in AnyRequest
    BY <1>1
  <2>3. CASE /\ request' = [request EXCEPT ![r] = [request[r] EXCEPT
                                !.streaming_queue = Append(@, update)]]
             /\ held' = held
    <3> DEFINE x == Append(request[r].streaming_queue, update)
               q == [request[r] EXCEPT !.streaming_queue = x]
    <3>1. request' = [request EXCEPT ![r] = q]
      BY <2>3
    <3> HIDE DEF x
    <3>2. QuietAt(r, q, request[r])
      BY <2>2 DEF QuietAt, SameCounters, NoPlaceholders, AnyRequest
    <3> HIDE DEF q
    <3>3. Quiet
      BY <2>1, <2>3, <3>1, <3>2, QuietChange DEF Base
    <3>4. QED BY <3>3 DEF CounterStep
  <2>4. CASE /\ request[r].status = "WAITING_FOR_STREAMING_REQ"
             /\ request' = [request EXCEPT ![r] = UpdatedSession(request[r])] /\ held' = held
    <3> DEFINE p == request[r]
               q == UpdatedSession(p)
    <3>1. /\ q.status = "WAITING" /\ SameCounters(q, p)
          /\ q.num_tokens = AtMost(p.num_tokens, q.num_computed_tokens) + 1
          /\ q.num_output_placeholders = p.num_output_placeholders
      BY <2>2, UpdatedSessionFacts, UpdatedSessionTokens DEF SameCounters
    <3>2. p.num_tokens + 0 = p.num_tokens
      BY <2>2 DEF AnyRequest
    <3> HIDE DEF p, q
    <3>3. QuietAt(r, q, p)
      BY <2>1, <2>4, <3>1, <3>2 DEF QuietAt, NoPlaceholders, GoesOn, p
    <3>4. Quiet
      BY <2>1, <2>4, <3>3, QuietChange DEF Base, p, q
    <3>5. QED BY <3>4 DEF CounterStep
  <2>5. CASE FinishRequests({r}, running, waiting, skipped_waiting, finished_req_ids)
    BY <2>1, <2>5, CountFinish
  <2>6. QED BY <1>4, <2>3, <2>4, <2>5, AddUpdateCases
<1>5. CASE ResetPrefixCache
  <2> DEFINE S == ToSet(running)
  <2>1. /\ request' = [r \in Reqs |-> IF r \in S THEN Preempted(request[r], TRUE)
                                ELSE request[r]]
        /\ held' = [r \in Reqs |-> IF r \in S THEN 0 ELSE held[r]]
        /\ UNCHANGED <<loc, inflight, todo>> /\ pc = "idle" /\ BetweenSteps
    BY <1>5 DEF ResetPrefixCache, BetweenSteps, worker, output
  <2>2. S = WithStatus("RUNNING") /\ loc.batch = <<>>
    BY <2>1, IdleFacts
  <2> HIDE DEF S
  <2>3. S \in SUBSET Reqs
    BY <2>2 DEF WithStatus
  <2>4. \A r \in S : LostAt(request'[r], request[r])
    <3> TAKE r \in S
    <3>1. r \in Reqs /\ request[r] \in AnyRequest /\ request[r].status = "RUNNING"
      BY <2>2, <1>1 DEF WithStatus
    <3>2. LostAt(Preempted(request[r], TRUE), request[r])
      BY <3>1, PreemptedFields DEF LostAt
    <3>3. QED BY <3>1, <3>2, <2>1
  <2>5. \A r \in Reqs \ S : request'[r] = request[r]
    BY <2>1
  <2>6. DOMAIN loc'.batch = {}
    BY <2>1, <2>2
  <2>7. Loses(S)
    BY <2>1, <2>4, <2>5, <2>6 DEF Loses
  <2>8. QED BY <2>3, <2>7 DEF CounterStep
<1>6. ASSUME NEW p, set_pause_state(p) PROVE CounterStep
  BY <1>6, QuietSame DEF set_pause_state, CounterStep, worker, output
<1>7. QED BY <1>2, <1>3, <1>4, <1>5, <1>6 DEF Handlers

\* Every step is one of these changes of the counters.
LEMMA CounterNext == ASSUME Base, [Next]_vars PROVE CounterStep
<1>1. CASE Schedule
  BY <1>1, CountSchedule
<1>2. CASE UpdateFromOutput
  BY <1>2, CountOutput
<1>3. CASE GrammarStep
  <2>1. UNCHANGED <<request, held, inflight, todo, loc>>
    BY <1>3 DEF GrammarStep, GrammarDone, worker, output
  <2>2. QED BY <2>1, QuietSame DEF CounterStep
<1>4. CASE Handlers
  BY <1>4, CountHandlers
<1>5. CASE UNCHANGED vars
  BY <1>5, QuietSame DEF vars, worker, output, CounterStep
<1>6. QED BY <1>1, <1>2, <1>3, <1>4, <1>5 DEF Next

---------------------------------------------------------------------------
(* Blocks.                                                                 *)

(* Blocks.                                                                 *)

\* More tokens take no fewer blocks.
LEMMA BlocksForFacts ==
  ASSUME config \in Configs, NEW m \in Int, NEW n \in Int
  PROVE  /\ BlocksFor(m) \in Int /\ BlocksFor(n) \in Int
         /\ m <= n => BlocksFor(m) <= BlocksFor(n)
         /\ n > 0 /\ MaxModelLen > 0 => BlocksFor(n) > 0
<1> DEFINE a == AtMost(m, MaxModelLen) + BlockSize - 1
           b == AtMost(n, MaxModelLen) + BlockSize - 1
<1>1. BlockSize \in Nat \ {0} /\ MaxModelLen \in Int
  BY ConfigFacts
<1> HIDE DEF BlockSize, MaxModelLen
<1>2. /\ AtMost(m, MaxModelLen) \in Int /\ AtMost(n, MaxModelLen) \in Int
      /\ m <= n => AtMost(m, MaxModelLen) <= AtMost(n, MaxModelLen)
      /\ n > 0 /\ MaxModelLen > 0 => AtMost(n, MaxModelLen) > 0
  BY <1>1 DEF AtMost
<1>3. a \in Int /\ b \in Int /\ (m <= n => a <= b)
      /\ (n > 0 /\ MaxModelLen > 0 => b >= BlockSize)
  BY <1>1, <1>2
<1> HIDE DEF a, b
<1>4. BlocksFor(m) = a \div BlockSize /\ BlocksFor(n) = b \div BlockSize
  BY DEF BlocksFor, a, b
<1>5. a \div BlockSize \in Int /\ b \div BlockSize \in Int
  BY <1>1, <1>3
<1>6. a <= b => (a \div BlockSize) <= (b \div BlockSize)
  BY <1>1, <1>3
<1>7. b >= BlockSize => (b \div BlockSize) > 0
  BY <1>1, <1>3
<1>8. QED BY <1>3, <1>4, <1>5, <1>6, <1>7

\* The pool after a table has grown, or after some have shrunk.
LEMMA PoolGrows ==
  ASSUME Typed, NEW r \in Reqs, NEW v \in Int, held' = [held EXCEPT ![r] = v],
         v - held[r] <= FreeBlocks, UNCHANGED config
  PROVE  FreeBlocks' >= 0
<1>1. held \in [Reqs -> Int] /\ IsFiniteSet(Reqs) /\ NumBlocks \in Int /\ NumBlocks' = NumBlocks
  <2>1. NumBlocks \in Int
    BY ConfigFacts DEF Typed
  <2>2. QED BY <2>1, RankAssumption DEF Typed, NumBlocks
<1> HIDE DEF NumBlocks
<1>2. SumFunction([held EXCEPT ![r] = v]) = SumFunction(held) - held[r] + v
  BY <1>1, SumExcept
<1>3. SumFunction(held') = SumFunction(held) - held[r] + v
  BY <1>2
<1>4. SumFunction(held) \in Int /\ held[r] \in Int
  BY <1>1, SumIsInt
<1>5. QED BY <1>1, <1>3, <1>4 DEF FreeBlocks

\* Tables that shrink leave the pool as large.
LEMMA PoolShrinks ==
  ASSUME Typed, held' \in [Reqs -> Int], \A r \in Reqs : held'[r] <= held[r], UNCHANGED config,
         FreeBlocks >= 0
  PROVE  FreeBlocks' >= 0
<1>1. held \in [Reqs -> Int] /\ IsFiniteSet(Reqs) /\ NumBlocks \in Int /\ NumBlocks' = NumBlocks
  <2>1. NumBlocks \in Int
    BY ConfigFacts DEF Typed
  <2>2. QED BY <2>1, RankAssumption DEF Typed, NumBlocks
<1> HIDE DEF NumBlocks
<1>2. SumFunction(held') <= SumFunction(held)
  BY <1>1, SumMonotone
<1>3. SumFunction(held) \in Int /\ SumFunction(held') \in Int
  BY <1>1, SumIsInt
<1>4. QED BY <1>1, <1>2, <1>3 DEF FreeBlocks

\* The tables fit the pool, and those of running requests reach over the tokens
\* computed, and over those of the step.
Reaches(r, n) == held[r] >= BlocksFor(n)

BlocksKept ==
  /\ \A r \in Reqs : held[r] >= 0
  /\ FreeBlocks >= 0
  /\ \A r \in Reqs : request[r].status = "RUNNING" => Reaches(r, request[r].num_computed_tokens)
  /\ \A i \in DOMAIN loc.batch :
       Reaches(loc.batch[i].req,
               request[loc.batch[i].req].num_computed_tokens + loc.batch[i].n)

\* No tables in the first state.
LEMMA BlocksInit == ASSUME Init PROVE BlocksKept
<1>1. config \in Configs /\ \A r \in Reqs : held[r] = 0 /\ request[r].status = "NEW"
  BY DEF Init, NewRequest
<1>2. held = [r \in Reqs |-> 0] /\ IsFiniteSet(Reqs)
  BY RankAssumption DEF Init
<1>3. SumFunction(held) = 0
  BY <1>2, SumOfZeros
<1>4. NumBlocks \in Nat
  BY <1>1, ConfigFacts
<1>5. DOMAIN loc.batch = {}
  BY DEF Init, Idle
<1>6. QED BY <1>1, <1>3, <1>4, <1>5 DEF BlocksKept, FreeBlocks

\* A table that is at least as long reaches as far.
LEMMA ReachesStill ==
  ASSUME Typed, UNCHANGED config, NEW r \in Reqs, NEW m \in Int, NEW n \in Int,
         Reaches(r, m), n <= m, held'[r] >= held[r], held'[r] \in Int
  PROVE  Reaches(r, n)'
<1>1. config \in Configs /\ held[r] \in Int
  BY DEF Typed
<1>2. BlocksFor(n) \in Int /\ BlocksFor(m) \in Int /\ BlocksFor(n) <= BlocksFor(m)
  BY <1>1, BlocksForFacts
<1>3. held'[r] >= BlocksFor(n)
  BY <1>1, <1>2 DEF Reaches
<1>4. QED BY <1>3 DEF Reaches, BlocksFor, MaxModelLen, BlockSize

\* Every step keeps the tables.
LEMMA BlocksNext ==
  ASSUME Base, BlocksKept, CounterStep, UNCHANGED config, Typed', Base'
  PROVE  BlocksKept'
<1>1. /\ request \in [Reqs -> AnyRequest] /\ held \in [Reqs -> Int] /\ held' \in [Reqs -> Int]
      /\ request' \in [Reqs -> AnyRequest] /\ Typed /\ loc.batch \in Seq(BatchEntry)
      /\ loc'.batch \in Seq(BatchEntry) /\ config \in Configs
  BY DEF Base, Typed, Locals
<1>2. \A r \in Reqs : request[r].num_computed_tokens \in Int /\ request'[r].num_computed_tokens \in Int
  BY <1>1 DEF AnyRequest
<1>3. \A i \in DOMAIN loc.batch : loc.batch[i].req \in Reqs /\ loc.batch[i].n \in Int
  <2>1. \A i \in DOMAIN loc.batch : loc.batch[i] \in BatchEntry
    BY <1>1
  <2>2. QED BY <2>1 DEF BatchEntry
\* Steps in which no table grows, and a request that runs has run before.
<1>4. ASSUME \A r \in Reqs : held'[r] \in {0, held[r]},
             \A r \in Reqs : request'[r].status = "RUNNING" =>
                /\ held'[r] = held[r]
                /\ \E m \in Int : Reaches(r, m) /\ request'[r].num_computed_tokens <= m,
             \A i \in DOMAIN loc'.batch : \E j \in DOMAIN loc.batch :
                /\ loc.batch[j] = loc'.batch[i]
                /\ held'[loc.batch[j].req] = held[loc.batch[j].req]
                /\ request'[loc.batch[j].req].num_computed_tokens
                     = request[loc.batch[j].req].num_computed_tokens
      PROVE  BlocksKept'
  <2>1. \A r \in Reqs : held'[r] >= 0 /\ held'[r] <= held[r] /\ held'[r] \in Int
    <3> TAKE r \in Reqs
    <3>1. held[r] \in Int /\ held[r] >= 0 /\ held'[r] \in {0, held[r]}
      BY <1>1, <1>4 DEF BlocksKept
    <3>2. QED BY <3>1
  <2>2. FreeBlocks' >= 0
    BY <2>1, <1>1, PoolShrinks DEF BlocksKept
  <2>3. ASSUME NEW r \in Reqs, request'[r].status = "RUNNING"
        PROVE  Reaches(r, request[r].num_computed_tokens)'
    <3>1. PICK m \in Int : Reaches(r, m) /\ request'[r].num_computed_tokens <= m
      BY <1>4, <2>3
    <3>2. held'[r] >= held[r] /\ held'[r] \in Int
      BY <1>1, <1>4, <2>3
    <3> DEFINE n == request'[r].num_computed_tokens
    <3>3. n \in Int /\ n <= m
      BY <3>1, <1>2
    <3> HIDE DEF n
    <3>4. held'[r] >= BlocksFor(n)
      <4>1. BlocksFor(n) \in Int /\ BlocksFor(m) \in Int /\ BlocksFor(n) <= BlocksFor(m)
        BY <3>3, <1>1, BlocksForFacts
      <4>2. held[r] \in Int
        BY <1>1
      <4>3. QED BY <3>1, <3>2, <4>1, <4>2 DEF Reaches
    <3>5. QED BY <3>4 DEF Reaches, n, BlocksFor, MaxModelLen, BlockSize
  <2>4. ASSUME NEW i \in DOMAIN loc'.batch
        PROVE  Reaches(loc.batch[i].req, request[loc.batch[i].req].num_computed_tokens
                                           + loc.batch[i].n)'
    <3>1. PICK j \in DOMAIN loc.batch :
                /\ loc.batch[j] = loc'.batch[i]
                /\ held'[loc.batch[j].req] = held[loc.batch[j].req]
                /\ request'[loc.batch[j].req].num_computed_tokens
                     = request[loc.batch[j].req].num_computed_tokens
      BY <1>4
    <3>2. Reaches(loc.batch[j].req, request[loc.batch[j].req].num_computed_tokens + loc.batch[j].n)
      BY DEF BlocksKept
    <3>3. QED BY <3>1, <3>2 DEF Reaches, BlocksFor, MaxModelLen, BlockSize
  <2>5. QED BY <2>1, <2>2, <2>3, <2>4 DEF BlocksKept
<1>5. CASE Quiet
  <2>1. ASSUME NEW r \in Reqs, request'[r].status = "RUNNING"
        PROVE  \E m \in Int : Reaches(r, m) /\ request'[r].num_computed_tokens <= m
    <3>1. request[r].status = "RUNNING"
          /\ request'[r].num_computed_tokens = request[r].num_computed_tokens
      BY <1>5, <2>1 DEF Quiet, QuietAt, SameCounters
    <3>2. Reaches(r, request[r].num_computed_tokens)
      BY <3>1 DEF BlocksKept
    <3>3. request'[r].num_computed_tokens <= request[r].num_computed_tokens
      BY <3>1, <1>2
    <3>4. QED BY <3>2, <3>3, <1>2
  <2>2. \A r \in Reqs : request'[r].num_computed_tokens = request[r].num_computed_tokens
                        /\ held'[r] = held[r]
    BY <1>5 DEF Quiet, QuietAt, SameCounters
  <2>3. loc'.batch = loc.batch
    BY <1>5 DEF Quiet
  <2>4. QED BY <2>1, <2>2, <2>3, <1>3, <1>4
<1>6. ASSUME NEW e \in BatchEntry, Grows(e) PROVE BlocksKept'
  <2> DEFINE r == e.req
             computed == request'[r].num_computed_tokens
             v == TableSize(r, computed, e.n)
  <2>1. /\ r \in Reqs /\ e.n \in Int /\ e.n > 0
        /\ Fits(r, computed, e.n) /\ held' = [held EXCEPT ![r] = v]
        /\ \A s \in Reqs \ {r} : request'[s] = request[s]
        /\ loc'.batch = Append(loc.batch, e) /\ \A i \in DOMAIN loc.batch : loc.batch[i].req # r
    BY <1>6 DEF Grows
  <2>2. computed \in Int
    BY <1>2, <2>1
  <2>3. v \in Int /\ v >= held[r] /\ v >= BlocksFor(computed + e.n + NumSpec) /\ v - held[r] <= FreeBlocks
    BY <2>1, <2>2, <1>1, TableSizeFacts DEF Fits
  <2> HIDE DEF v, computed
  <2>4. FreeBlocks' >= 0
    BY <2>1, <2>3, <1>1, PoolGrows
  <2>5. held'[r] = v /\ \A s \in Reqs \ {r} : held'[s] = held[s]
    BY <2>1, <1>1
  <2>6. \A s \in Reqs : held'[s] >= 0
    <3>1. held[r] >= 0 /\ held[r] \in Int
      BY <1>1, <2>1 DEF BlocksKept
    <3>2. v >= 0
      BY <3>1, <2>3
    <3>3. QED BY <2>5, <3>2 DEF BlocksKept
  <2>7. v >= BlocksFor(computed) /\ v >= BlocksFor(computed + e.n)
    <3>1. NumSpec \in Nat
      BY <1>1, ConfigFacts
    <3> DEFINE x == computed + e.n
               y == computed + e.n + NumSpec
    <3>2. x \in Int /\ y \in Int /\ computed <= y /\ x <= y
      BY <3>1, <2>1, <2>2
    <3> HIDE DEF x, y
    <3>3. BlocksFor(computed) <= BlocksFor(y) /\ BlocksFor(x) <= BlocksFor(y)
          /\ BlocksFor(computed) \in Int /\ BlocksFor(x) \in Int /\ BlocksFor(y) \in Int
      BY <3>2, <2>2, <1>1, BlocksForFacts
    <3>4. v >= BlocksFor(y)
      BY <2>3 DEF y
    <3>5. v >= BlocksFor(computed) /\ v >= BlocksFor(x)
      BY <3>3, <3>4, <2>3
    <3>6. QED BY <3>5 DEF x
  <2>8. ASSUME NEW s \in Reqs, request'[s].status = "RUNNING"
        PROVE  Reaches(s, request[s].num_computed_tokens)'
    <3>1. held'[s] >= BlocksFor(request'[s].num_computed_tokens)
      <4>1. CASE s = r
        BY <4>1, <2>5, <2>7 DEF computed
      <4>2. CASE s # r
        <5>1. request'[s] = request[s] /\ held'[s] = held[s]
          BY <4>2, <2>1, <2>5
        <5>2. Reaches(s, request[s].num_computed_tokens)
          BY <5>1, <2>8 DEF BlocksKept
        <5>3. QED BY <5>1, <5>2 DEF Reaches
      <4>3. QED BY <4>1, <4>2
    <3>2. QED BY <3>1 DEF Reaches, BlocksFor, MaxModelLen, BlockSize
  <2>9. ASSUME NEW i \in DOMAIN loc'.batch
        PROVE  Reaches(loc.batch[i].req, request[loc.batch[i].req].num_computed_tokens
                                           + loc.batch[i].n)'
    <3> DEFINE b == loc'.batch[i]
    <3>1. held'[b.req] >= BlocksFor(request'[b.req].num_computed_tokens + b.n)
      <4>1. CASE i \in DOMAIN loc.batch
        <5>1. b = loc.batch[i]
          BY <4>1, <2>1, <1>1
        <5>2. loc.batch[i].req \in Reqs \ {r}
          BY <4>1, <2>1, <1>3
        <5>3. Reaches(loc.batch[i].req,
                      request[loc.batch[i].req].num_computed_tokens + loc.batch[i].n)
          BY <4>1 DEF BlocksKept
        <5>4. QED BY <5>1, <5>2, <5>3, <2>1, <2>5 DEF Reaches
      <4>2. CASE i \notin DOMAIN loc.batch
        <5>1. b = e
          BY <4>2, <2>1, <1>1
        <5>2. QED BY <5>1, <2>5, <2>7 DEF computed
      <4>3. QED BY <4>1, <4>2
    <3>2. QED BY <3>1 DEF Reaches, BlocksFor, MaxModelLen, BlockSize
  <2>10. QED BY <2>4, <2>6, <2>8, <2>9 DEF BlocksKept
<1>7. ASSUME NEW S \in SUBSET Reqs, Loses(S) PROVE BlocksKept'
  <2>1. \A r \in Reqs : held'[r] = IF r \in S THEN 0 ELSE held[r]
    BY <1>7 DEF Loses
  <2>2. \A r \in S : request'[r].status # "RUNNING"
    BY <1>7 DEF Loses, LostAt
  <2>3. \A r \in Reqs \ S : request'[r] = request[r]
    BY <1>7 DEF Loses
  <2>4. ASSUME NEW r \in Reqs, request'[r].status = "RUNNING"
        PROVE  /\ held'[r] = held[r]
               /\ \E m \in Int : Reaches(r, m) /\ request'[r].num_computed_tokens <= m
    <3>1. held'[r] = held[r] /\ request'[r] = request[r]
      BY <2>1, <2>2, <2>3, <2>4
    <3>2. Reaches(r, request[r].num_computed_tokens)
      BY <3>1, <2>4 DEF BlocksKept
    <3>3. request'[r].num_computed_tokens <= request[r].num_computed_tokens
      BY <3>1, <1>2
    <3>4. QED BY <3>1, <3>2, <3>3, <1>2
  <2>5. ASSUME NEW i \in DOMAIN loc'.batch
        PROVE  \E j \in DOMAIN loc.batch :
                /\ loc.batch[j] = loc'.batch[i]
                /\ held'[loc.batch[j].req] = held[loc.batch[j].req]
                /\ request'[loc.batch[j].req].num_computed_tokens
                     = request[loc.batch[j].req].num_computed_tokens
    <3>1. PICK j \in DOMAIN loc.batch : loc.batch[j] = loc'.batch[i] /\ loc.batch[j].req \notin S
      BY <1>7 DEF Loses
    <3>2. loc.batch[j].req \in Reqs \ S
      BY <3>1, <1>3
    <3>3. QED BY <3>1, <3>2, <2>1, <2>3
  <2>6. QED BY <2>1, <2>4, <2>5, <1>4
<1>8. CASE LaunchesStep
  <2>1. held' = held /\ loc'.batch = <<>>
    BY <1>8 DEF LaunchesStep
  <2>2. ASSUME NEW r \in Reqs, request'[r].status = "RUNNING"
        PROVE  \E m \in Int : Reaches(r, m) /\ request'[r].num_computed_tokens <= m
    <3>1. CASE \A i \in DOMAIN loc.batch : loc.batch[i].req # r
      <4>1. request'[r] = request[r]
        BY <3>1, <1>8 DEF LaunchesStep
      <4>2. Reaches(r, request[r].num_computed_tokens)
        BY <4>1, <2>2 DEF BlocksKept
      <4>3. request'[r].num_computed_tokens <= request[r].num_computed_tokens
        BY <4>1, <1>2
      <4>4. QED BY <4>2, <4>3, <1>2
    <3>2. ASSUME NEW i \in DOMAIN loc.batch, loc.batch[i].req = r
          PROVE  \E m \in Int : Reaches(r, m) /\ request'[r].num_computed_tokens <= m
      <4>1. request'[r].num_computed_tokens = request[r].num_computed_tokens + loc.batch[i].n
        BY <3>2, <1>8 DEF LaunchesStep, LaunchedAt
      <4>2. Reaches(r, request[r].num_computed_tokens + loc.batch[i].n)
        BY <3>2 DEF BlocksKept
      <4>3. request'[r].num_computed_tokens <= request[r].num_computed_tokens + loc.batch[i].n
            /\ request[r].num_computed_tokens + loc.batch[i].n \in Int
        BY <4>1, <1>2, <1>3
      <4>4. QED BY <4>2, <4>3
    <3>3. QED BY <3>1, <3>2
  <2>3. DOMAIN loc'.batch = {}
    BY <2>1
  <2>4. QED BY <2>1, <2>2, <2>3, <1>4
<1>9. CASE TakesStep
  <2>1. request' = request /\ held' = held /\ loc'.batch = loc.batch
    BY <1>9 DEF TakesStep
  <2>2. QED BY <2>1, <1>1 DEF BlocksKept, FreeBlocks, Reaches, BlocksFor, MaxModelLen, BlockSize, NumBlocks
<1>10. CASE AnswersStep
  <2> DEFINE e == Head(todo)
             r == e.req
  <2>1. /\ r \in Reqs /\ loc'.batch = loc.batch /\ OutputTurn
        /\ \A s \in Reqs \ {r} : request'[s] = request[s] /\ held'[s] = held[s]
        /\ \/ request[r].status = "FINISHED" /\ request'[r] = request[r] /\ held'[r] = held[r]
           \/ request'[r] = Gone(r) /\ held'[r] = 0
           \/ AnsweredAt(e, request'[r], request[r]) /\ held'[r] = held[r]
    BY <1>10 DEF AnswersStep
  <2>2. DOMAIN loc'.batch = {}
    BY <2>1 DEF OutputTurn, Base, Phases, Idle
  <2>3. Gone(r).status = "FINISHED"
    BY <2>1, <1>1, GoneFields
  <2> HIDE DEF e, r
  <2>4. ASSUME NEW s \in Reqs, request'[s].status = "RUNNING"
        PROVE  /\ held'[s] = held[s] /\ request[s].status = "RUNNING"
               /\ request'[s].num_computed_tokens <= request[s].num_computed_tokens
    <3>1. CASE s # r
      <4>1. request'[s] = request[s] /\ held'[s] = held[s]
        BY <3>1, <2>1
      <4>2. QED BY <4>1, <2>4, <1>2
    <3>2. CASE s = r
      <4>1. AnsweredAt(e, request'[s], request[s]) /\ held'[s] = held[s]
        BY <3>2, <2>1, <2>3, <2>4
      <4>2. request[s].status = "RUNNING"
        BY <4>1, <2>4 DEF AnsweredAt
      <4>3. \E k \in Nat : request'[s].num_computed_tokens = request[s].num_computed_tokens - k
        <5>1. \/ request'[s].num_computed_tokens = request[s].num_computed_tokens
              \/ \E k \in Nat : request'[s].num_computed_tokens = request[s].num_computed_tokens - k
          BY <4>1 DEF AnsweredAt
        <5>2. request[s].num_computed_tokens - 0 = request[s].num_computed_tokens
          BY <1>2
        <5>3. QED BY <5>1, <5>2
      <4>4. request'[s].num_computed_tokens <= request[s].num_computed_tokens
        BY <4>3, <1>2
      <4>5. QED BY <4>1, <4>2, <4>4
    <3>3. QED BY <3>1, <3>2
  <2>5. \A s \in Reqs : held'[s] \in {0, held[s]}
    BY <2>1
  <2>6. \A s \in Reqs : request'[s].status = "RUNNING" =>
           Reaches(s, request[s].num_computed_tokens)
    BY <2>4 DEF BlocksKept
  <2>7. QED BY <2>2, <2>4, <2>5, <2>6, <1>2, <1>4
<1>11. ASSUME NEW S \in SUBSET Reqs, EndsAll(S) PROVE BlocksKept'
  <2>1. /\ \A r \in Reqs : held'[r] = IF r \in S THEN 0 ELSE held[r]
        /\ \A r \in Reqs : request'[r] = IF r \in S THEN Gone(r) ELSE request[r]
        /\ loc'.batch = loc.batch /\ pc \in {"idle", "output"}
    BY <1>11 DEF EndsAll
  <2>2. DOMAIN loc'.batch = {}
    BY <2>1 DEF Base, Phases, Idle
  <2>3. ASSUME NEW r \in Reqs, request'[r].status = "RUNNING"
        PROVE  held'[r] = held[r] /\ request'[r] = request[r]
    <3>1. Gone(r).status = "FINISHED"
      BY <1>1, GoneFields
    <3>2. QED BY <2>1, <2>3, <3>1
  <2>4. ASSUME NEW r \in Reqs, request'[r].status = "RUNNING"
        PROVE  \E m \in Int : Reaches(r, m) /\ request'[r].num_computed_tokens <= m
    <3>1. request'[r] = request[r]
      BY <2>3, <2>4
    <3>2. Reaches(r, request[r].num_computed_tokens)
      BY <3>1, <2>4 DEF BlocksKept
    <3>3. request'[r].num_computed_tokens <= request[r].num_computed_tokens
      BY <3>1, <1>2
    <3>4. QED BY <3>2, <3>3, <1>2
  <2>5. QED BY <2>1, <2>2, <2>3, <2>4, <1>4
<1>12. QED BY <1>5, <1>6, <1>7, <1>8, <1>9, <1>10, <1>11 DEF CounterStep

(* The block tables never take more than the pool has, the table of a running   *)
(* request reaches over the tokens it has computed, and that of a scheduled one *)
(* over the tokens of the step (allocate_slots as scheduler.py calls it).       *)
THEOREM BlocksInvariant == Spec => [](Base /\ BlocksKept)
<1>1. Base /\ BlocksKept /\ [Next]_vars => BlocksKept'
  <2> SUFFICES ASSUME Base, BlocksKept, [Next]_vars PROVE BlocksKept'
    OBVIOUS
  <2>1. Base'
    BY BaseNext
  <2>2. Typed'
    BY <2>1 DEF Base
  <2>3. QED BY <2>1, <2>2, BlocksNext, CounterNext, ConfigSame
<1>2. QED BY <1>1, BlocksInit, BaseInvariant, PTL DEF Spec

---------------------------------------------------------------------------
(* Computed tokens.                                                        *)

(* A request that lost its blocks counts nothing as computed.              *)

HasTokens ==
  /\ \A r \in Reqs : request[r].num_tokens >= 1
  /\ Depth = 1 => \A r \in Reqs : NoPlaceholders(request[r])

DraftsCounted(step) ==
  \A i \in DOMAIN step :
    step[i].req \in Sessions /\ request[step[i].req].status # "FINISHED" =>
      step[i].drafts <= request[step[i].req].num_computed_tokens

SessionsAhead ==
  /\ \A r \in Reqs : r \in Sessions => request[r].num_computed_tokens >= 0
  /\ \A step \in Steps : DraftsCounted(step)
  /\ \A i \in DOMAIN loc.batch : loc.batch[i].req \in Sessions =>
       loc.batch[i].drafts <= request[loc.batch[i].req].num_computed_tokens + loc.batch[i].n

Covered ==
  \A r \in Reqs :
    /\ held[r] = 0 => request[r].num_computed_tokens = 0
    /\ request[r].status = "RUNNING" => held[r] > 0

Computed == HasTokens /\ SessionsAhead /\ Covered

\* Nothing is computed in the first state.
LEMMA ComputedInit == ASSUME Init PROVE Computed
<1>1. /\ config \in Configs /\ inflight = <<>> /\ todo = <<>> /\ DOMAIN loc.batch = {}
      /\ \A r \in Reqs : request[r] = NewRequest(r) /\ held[r] = 0
  BY DEF Init, Idle
<1>2. PromptLen \in [Reqs -> 1 .. MaxModelLen - 1] /\ MaxModelLen \in Int
  BY <1>1, ConfigFacts
<1>3. \A r \in Reqs : PromptLen[r] >= 1
  BY <1>2
<1>4. \A r \in Reqs : /\ request[r].num_tokens >= 1 /\ NoPlaceholders(request[r])
                      /\ request[r].num_computed_tokens = 0 /\ request[r].status = "NEW"
  <2> TAKE r \in Reqs
  <2>1. /\ NewRequest(r).num_tokens = PromptLen[r] /\ NewRequest(r).num_output_placeholders = 0
        /\ NewRequest(r).num_computed_tokens = 0 /\ NewRequest(r).status = "NEW"
    BY DEF NewRequest
  <2>2. NoPlaceholders(NewRequest(r))
    BY DEF NewRequest, NoPlaceholders
  <2>3. QED BY <1>1, <1>3, <2>1, <2>2
<1>5. \A step \in Steps : DraftsCounted(step)
  BY <1>1 DEF Steps, DraftsCounted
<1>6. HasTokens
  BY <1>4 DEF HasTokens
<1>7. QED BY <1>1, <1>4, <1>5, <1>6 DEF Computed, SessionsAhead, Covered

\* A lookup finds no less than nothing.
LEMMA GrownFrom ==
  ASSUME Typed, HasTokens, NEW r \in Reqs, NEW e, GrewAt(e, request'[r], request[r]),
         request'[r] \in AnyRequest
  PROVE  /\ \/ request'[r].num_computed_tokens = request[r].num_computed_tokens
            \/ request'[r].num_computed_tokens >= 0
         /\ request[r].status = "RUNNING" \/ request'[r].num_computed_tokens >= 0
<1>1. config \in Configs /\ request[r] \in AnyRequest /\ request[r].num_tokens > 0
  <2>1. request[r] \in AnyRequest /\ request[r].num_tokens >= 1
    BY DEF Typed, HasTokens
  <2>2. QED BY <2>1 DEF Typed, AnyRequest
<1>2. \A hit \in CacheHits(request[r]) : 0 <= hit
  BY <1>1, CacheHitsFacts
<1>3. request[r].num_computed_tokens \in Int
  BY <1>1 DEF AnyRequest
<1>4. QED BY <1>2, <1>3 DEF GrewAt

\* Sessions come only with steps one at a time.
LEMMA SessionsSync ==
  ASSUME Typed, NEW r \in Reqs, r \in Sessions
  PROVE  Depth = 1
  BY ConfigFacts DEF Typed

\* A session never has more drafts in a step than tokens computed before or in
\* it.
LEMMA SessionsAheadNext ==
  ASSUME SessionsUncut, Base, HasTokens, SessionsAhead, CounterStep, UNCHANGED config, Base'
  PROVE  SessionsAhead'
<1>1. /\ request \in [Reqs -> AnyRequest] /\ request' \in [Reqs -> AnyRequest] /\ Typed
      /\ loc.batch \in Seq(BatchEntry) /\ loc'.batch \in Seq(BatchEntry) /\ config \in Configs
  BY DEF Base, Typed, Locals
<1>2. \A r \in Reqs : /\ request[r].num_computed_tokens \in Int /\ request'[r].num_computed_tokens \in Int
                      /\ request[r].num_output_placeholders \in Int /\ request[r].num_tokens \in Int
  BY <1>1 DEF AnyRequest
<1>3. \A i \in DOMAIN loc.batch : /\ loc.batch[i].req \in Reqs /\ loc.batch[i].n \in Int
                                  /\ loc.batch[i].drafts \in Int /\ loc.batch[i].n > 0
  <2>1. \A i \in DOMAIN loc.batch : loc.batch[i] \in BatchEntry
    BY <1>1
  <2>2. QED BY <2>1 DEF BatchEntry, Base, BatchSound
<1>4. Sessions' = Sessions
  BY DEF Sessions
\* While no step is in flight.
<1>5. ASSUME NEW r \in Reqs, r \in Sessions, InSchedule \/ BetweenSteps
      PROVE  inflight = <<>> /\ todo = <<>>
  BY <1>5, <1>1, SessionsSync, NoSteps DEF Base
<1>6. ASSUME InSchedule \/ BetweenSteps, UNCHANGED <<inflight, todo>>, NEW step \in Steps'
      PROVE  DraftsCounted(step)'
  <2>1. \A i \in DOMAIN step : step[i].req \in Reqs
    <3>1. Steps' = Steps
      BY <1>6 DEF Steps
    <3>2. QED BY <3>1, <1>6, <1>1, StepTyped
  <2>2. ASSUME NEW i \in DOMAIN step, step[i].req \in Sessions PROVE FALSE
    <3>1. inflight = <<>> /\ todo = <<>>
      BY <1>5, <1>6, <2>1, <2>2
    <3>2. step = <<>>
      BY <3>1, <1>6 DEF Steps
    <3>3. QED BY <3>2, <2>2
  <2>3. QED BY <2>2, <1>4 DEF DraftsCounted
\* Steps whose requests are as they were.
<1>7. ASSUME NEW step, \A i \in DOMAIN step : step[i].req \in Reqs, DraftsCounted(step),
             \A i \in DOMAIN step :
               \/ request'[step[i].req].status = "FINISHED"
               \/ /\ request[step[i].req].status # "FINISHED"
                  /\ request'[step[i].req].num_computed_tokens
                       = request[step[i].req].num_computed_tokens
      PROVE  DraftsCounted(step)'
  BY <1>4, <1>7 DEF DraftsCounted
<1>8. ASSUME NEW step \in Steps PROVE \A i \in DOMAIN step : step[i].req \in Reqs
  BY <1>1, StepTyped
<1>9. CASE Quiet
  <2>1. \A r \in Reqs : /\ request'[r].num_computed_tokens = request[r].num_computed_tokens
                        /\ request[r].status = "FINISHED" => request'[r].status = "FINISHED"
    BY <1>9 DEF Quiet, QuietAt, SameCounters
  <2>2. loc'.batch = loc.batch /\ Steps' = Steps
    BY <1>9 DEF Quiet, Steps
  <2>3. \A step \in Steps : DraftsCounted(step)'
    BY <1>7, <1>8, <2>1 DEF SessionsAhead
  <2>4. QED BY <2>1, <2>2, <2>3, <1>3, <1>4 DEF SessionsAhead
<1>10. ASSUME NEW e \in BatchEntry, Grows(e) PROVE SessionsAhead'
  <2> DEFINE r == e.req
  <2>1. /\ r \in Reqs /\ e.n \in Int /\ e.n > 0 /\ GrewAt(e, request'[r], request[r])
        /\ \A s \in Reqs \ {r} : request'[s] = request[s]
        /\ loc'.batch = Append(loc.batch, e) /\ \A i \in DOMAIN loc.batch : loc.batch[i].req # r
        /\ UNCHANGED <<inflight, todo>> /\ InSchedule
    BY <1>10 DEF Grows
  <2>2. e.drafts \in Int
    BY DEF BatchEntry
  <2> HIDE DEF r
  <2>3. \A s \in Reqs : s \in Sessions => request'[s].num_computed_tokens >= 0
    <3> TAKE s \in Reqs
    <3>1. CASE s = r
      <4>1. \/ request'[r].num_computed_tokens = request[r].num_computed_tokens
            \/ request'[r].num_computed_tokens >= 0
        BY <2>1, <1>1, GrownFrom
      <4>2. QED BY <3>1, <4>1 DEF SessionsAhead
    <3>2. CASE s # r
      BY <3>2, <2>1 DEF SessionsAhead
    <3>3. QED BY <3>1, <3>2
  <2>4. \A step \in Steps' : DraftsCounted(step)'
    BY <2>1, <1>6
  <2>5. ASSUME NEW i \in DOMAIN loc'.batch, loc'.batch[i].req \in Sessions
        PROVE  loc'.batch[i].drafts <= request'[loc'.batch[i].req].num_computed_tokens
                                         + loc'.batch[i].n
    <3>1. CASE i \in DOMAIN loc.batch
      <4>1. loc'.batch[i] = loc.batch[i]
        BY <3>1, <2>1, <1>1
      <4>2. request'[loc.batch[i].req] = request[loc.batch[i].req]
        BY <3>1, <2>1, <1>3
      <4>3. QED BY <4>1, <4>2, <3>1, <2>5 DEF SessionsAhead
    <3>2. CASE i \notin DOMAIN loc.batch
      <4>1. loc'.batch[i] = e
        BY <3>2, <2>1, <1>1
      <4>2. r \in Sessions
        BY <4>1, <2>5 DEF r
      <4>3. request'[r].num_computed_tokens >= 0
        BY <4>2, <2>1, <2>3
      <4>4. ~(Aligned /\ NumSpec > 0)
        <5>1. config.sessions # {}
          BY <4>2 DEF Sessions
        <5>2. ~config.aligned \/ config.spec = 0
          BY <5>1, <1>1 DEF SessionsUncut
        <5>3. QED BY <5>2 DEF Aligned, NumSpec
      <4>5. request[r].num_output_placeholders = 0 /\ request[r].num_tokens >= 1
        BY <4>2, <2>1, <1>1, SessionsSync DEF HasTokens, NoPlaceholders
      <4> DEFINE c == request'[r].num_computed_tokens
      <4>6. \/ e.drafts <= 0 \/ e.drafts < e.n
            \/ e.drafts <= c + e.n - request[r].num_tokens - request[r].num_output_placeholders
        BY <4>4, <2>1 DEF GrewAt
      <4>7. c \in Int /\ request[r].num_tokens \in Int /\ c >= 0
        BY <1>2, <2>1, <4>3
      <4> HIDE DEF c
      <4>8. e.drafts <= c + e.n
        BY <4>5, <4>6, <4>7, <2>1, <2>2
      <4>9. QED BY <4>1, <4>8 DEF c, r
    <3>3. QED BY <3>1, <3>2
  <2>6. QED BY <2>3, <2>4, <2>5, <1>4 DEF SessionsAhead
<1>11. ASSUME NEW S \in SUBSET Reqs, Loses(S) PROVE SessionsAhead'
  <2>1. /\ \A r \in S : request'[r].num_computed_tokens = 0
        /\ \A r \in Reqs \ S : request'[r] = request[r]
        /\ \A i \in DOMAIN loc'.batch :
             loc'.batch[i].req \notin S /\ \E j \in DOMAIN loc.batch : loc.batch[j] = loc'.batch[i]
        /\ UNCHANGED <<inflight, todo>> /\ (InSchedule \/ BetweenSteps)
    BY <1>11 DEF Loses, LostAt
  <2>2. \A r \in Reqs : r \in Sessions => request'[r].num_computed_tokens >= 0
    BY <2>1 DEF SessionsAhead
  <2>3. \A step \in Steps' : DraftsCounted(step)'
    BY <2>1, <1>6
  <2>4. ASSUME NEW i \in DOMAIN loc'.batch, loc'.batch[i].req \in Sessions
        PROVE  loc'.batch[i].drafts <= request'[loc'.batch[i].req].num_computed_tokens
                                         + loc'.batch[i].n
    <3>1. PICK j \in DOMAIN loc.batch : loc.batch[j] = loc'.batch[i] /\ loc.batch[j].req \notin S
      BY <2>1
    <3>2. request'[loc.batch[j].req] = request[loc.batch[j].req]
      BY <3>1, <2>1, <1>3
    <3>3. QED BY <3>1, <3>2, <2>4 DEF SessionsAhead
  <2>5. QED BY <2>2, <2>3, <2>4, <1>4 DEF SessionsAhead
<1>12. CASE LaunchesStep
  <2>1. /\ \A i \in DOMAIN loc.batch :
             request'[loc.batch[i].req].num_computed_tokens
               = request[loc.batch[i].req].num_computed_tokens + loc.batch[i].n
        /\ \A r \in Reqs : (\A i \in DOMAIN loc.batch : loc.batch[i].req # r) => request'[r] = request[r]
        /\ loc'.batch = <<>> /\ inflight' = Append(inflight, LaunchedStep)
        /\ UNCHANGED <<held, todo>> /\ InSchedule
    BY <1>12 DEF LaunchesStep, LaunchedAt
  <2>2. ASSUME NEW r \in Reqs, r \in Sessions PROVE request'[r].num_computed_tokens >= 0
    <3>1. request[r].num_computed_tokens >= 0
      BY <2>2 DEF SessionsAhead
    <3>2. CASE \A i \in DOMAIN loc.batch : loc.batch[i].req # r
      BY <3>1, <3>2, <2>1
    <3>3. ASSUME NEW i \in DOMAIN loc.batch, loc.batch[i].req = r
          PROVE  request'[r].num_computed_tokens >= 0
      <4>1. request'[r].num_computed_tokens = request[r].num_computed_tokens + loc.batch[i].n
        BY <2>1, <3>3
      <4>2. loc.batch[i].n > 0 /\ loc.batch[i].n \in Int /\ request[r].num_computed_tokens \in Int
        BY <1>2, <1>3
      <4>3. QED BY <3>1, <4>1, <4>2
    <3>4. QED BY <3>2, <3>3
  <2>3. /\ DOMAIN LaunchedStep = DOMAIN loc.batch
        /\ \A j \in DOMAIN loc.batch : /\ LaunchedStep[j].req = loc.batch[j].req
                                       /\ LaunchedStep[j].drafts = loc.batch[j].drafts
    BY <1>1, LaunchedFacts
  <2>4. ASSUME NEW step \in Steps' PROVE DraftsCounted(step)'
    <3>1. step \in Steps \/ step = LaunchedStep
      BY <1>1, <2>1 DEF Steps, Typed
    <3>2. ASSUME NEW i \in DOMAIN step, step[i].req \in Sessions
          PROVE  step[i].drafts <= request'[step[i].req].num_computed_tokens
      <4>1. step[i].req \in Reqs
        <5>1. CASE step \in Steps
          BY <5>1, <1>8
        <5>2. CASE step = LaunchedStep
          BY <5>2, <2>3, <1>3
        <5>3. QED BY <3>1, <5>1, <5>2
      <4>2. inflight = <<>> /\ todo = <<>>
        BY <4>1, <3>2, <2>1, <1>5
      <4>3. step \notin Steps
        <5>1. SUFFICES ASSUME step \in Steps PROVE FALSE
          OBVIOUS
        <5>2. step = <<>>
          BY <4>2, <5>1 DEF Steps
        <5>3. QED BY <5>2, <3>2
      <4>4. i \in DOMAIN loc.batch /\ step[i].req = loc.batch[i].req /\ step[i].drafts = loc.batch[i].drafts
        BY <3>1, <4>3, <2>3
      <4>5. loc.batch[i].drafts <= request[loc.batch[i].req].num_computed_tokens + loc.batch[i].n
        BY <4>4, <3>2 DEF SessionsAhead
      <4>6. QED BY <4>4, <4>5, <2>1
    <3>3. QED BY <3>2, <1>4 DEF DraftsCounted
  <2>5. DOMAIN loc'.batch = {}
    BY <2>1
  <2>6. QED BY <2>2, <2>4, <2>5, <1>4 DEF SessionsAhead
<1>13. CASE TakesStep
  <2>1. /\ inflight # <<>> /\ todo' = Head(inflight) /\ inflight' = Tail(inflight)
        /\ loc'.batch = loc.batch /\ request' = request
    BY <1>13 DEF TakesStep
  <2>2. Steps' \subseteq Steps
    BY <2>1, <1>1 DEF Steps, Typed
  <2>3. \A step \in Steps' : DraftsCounted(step)'
    BY <2>1, <2>2, <1>4 DEF SessionsAhead, DraftsCounted
  <2>4. QED BY <2>1, <2>3, <1>4 DEF SessionsAhead
<1>14. CASE AnswersStep
  <2> DEFINE e == Head(todo)
             r == e.req
  <2>1. /\ OutputTurn /\ todo' = Tail(todo) /\ inflight' = inflight /\ loc'.batch = loc.batch
        /\ r \in Reqs
        /\ \A s \in Reqs \ {r} : request'[s] = request[s]
        /\ \/ request[r].status = "FINISHED" /\ request'[r] = request[r]
           \/ request'[r] = Gone(r)
           \/ AnsweredAt(e, request'[r], request[r])
    BY <1>14 DEF AnswersStep
  <2>2. /\ e = todo[1] /\ 1 \in DOMAIN todo /\ todo \in Seq(StepEntry)
        /\ Depth = 1 => inflight = <<>>
        /\ \A i \in DOMAIN Tail(todo) : Tail(todo)[i].req # r /\ Tail(todo)[i].req \in Reqs
    BY <2>1, TodoFacts
  <2>3. DOMAIN loc.batch = {}
    BY <2>1 DEF OutputTurn, Base, Phases, Idle
  <2>4. e \in StepEntry /\ e.drafts \in Int
    <3>1. \A i \in DOMAIN todo : todo[i] \in StepEntry
      BY <2>2
    <3>2. todo[1] \in StepEntry
      BY <2>2, <3>1
    <3> HIDE DEF e
    <3>3. e \in StepEntry
      BY <3>2, <2>2
    <3>4. QED BY <3>3 DEF StepEntry
  <2>5. r \in Sessions /\ request[r].status # "FINISHED" => e.drafts <= request[r].num_computed_tokens
    <3>1. DraftsCounted(todo)
      BY DEF SessionsAhead, Steps
    <3>2. QED BY <2>2, <3>1 DEF DraftsCounted
  <2>6. r \in Sessions => request'[r].num_computed_tokens >= 0
    <3>1. CASE request'[r] = Gone(r)
      <4>1. Gone(r).num_computed_tokens = 0
        BY <1>1, <2>1, GoneFields
      <4>2. QED BY <3>1, <4>1
    <3>2. CASE AnsweredAt(e, request'[r], request[r])
      <4>1. /\ request[r].status # "FINISHED"
            /\ \/ request'[r].num_computed_tokens = request[r].num_computed_tokens
               \/ \E k \in Nat : /\ k <= e.drafts
                                 /\ request'[r].num_computed_tokens
                                      = request[r].num_computed_tokens - k
        BY <3>2 DEF AnsweredAt
      <4> DEFINE c == request[r].num_computed_tokens
      <4>2. c \in Int /\ (r \in Sessions => c >= 0)
        BY <1>2, <2>1 DEF SessionsAhead
      <4> HIDE DEF c, r, e
      <4>3. QED BY <4>1, <4>2, <2>4, <2>5 DEF c
    <3>3. QED BY <2>1, <3>1, <3>2 DEF SessionsAhead
  <2>7. \A s \in Reqs : s \in Sessions => request'[s].num_computed_tokens >= 0
    BY <2>1, <2>6 DEF SessionsAhead
  <2>8. ASSUME NEW step \in Steps' PROVE DraftsCounted(step)'
    <3>1. step = Tail(todo) \/ step \in {inflight[i] : i \in DOMAIN inflight}
      BY <2>1 DEF Steps
    <3>2. CASE step = Tail(todo)
      <4>1. DraftsCounted(todo)
        BY DEF SessionsAhead, Steps
      <4>2. \A i \in DOMAIN step : i + 1 \in DOMAIN todo /\ step[i] = todo[i + 1]
        BY <2>2, <3>2
      <4>3. DraftsCounted(step)
        BY <4>1, <4>2 DEF DraftsCounted
      <4>4. \A i \in DOMAIN step : step[i].req \in Reqs /\ request'[step[i].req] = request[step[i].req]
        BY <2>1, <2>2, <3>2
      <4>5. QED BY <4>3, <4>4, <1>4 DEF DraftsCounted
    <3>3. CASE step \in {inflight[i] : i \in DOMAIN inflight}
      <4>1. step \in Steps
        BY <3>3 DEF Steps
      <4>2. ASSUME NEW i \in DOMAIN step, step[i].req \in Sessions PROVE FALSE
        <5>1. step[i].req \in Reqs
          BY <4>1, <1>8
        <5>2. Depth = 1
          BY <5>1, <4>2, <1>1, SessionsSync
        <5>3. inflight = <<>>
          BY <5>2, <2>2
        <5>4. QED BY <5>3, <3>3
      <4>3. QED BY <4>2, <1>4 DEF DraftsCounted
    <3>4. QED BY <3>1, <3>2, <3>3, <2>1 DEF Steps
  <2>9. QED BY <2>1, <2>3, <2>7, <2>8, <1>4 DEF SessionsAhead
<1>15. ASSUME NEW S \in SUBSET Reqs, EndsAll(S) PROVE SessionsAhead'
  <2>1. /\ \A r \in S : request'[r] = Gone(r)
        /\ \A r \in Reqs \ S : request'[r] = request[r]
        /\ loc'.batch = loc.batch /\ UNCHANGED <<inflight, todo>>
        /\ pc \in {"idle", "output"}
    BY <1>15, <1>1 DEF EndsAll
  <2>2. DOMAIN loc.batch = {}
    BY <2>1 DEF Base, Phases, Idle
  <2>3. \A r \in S : request'[r].num_computed_tokens = 0 /\ request'[r].status = "FINISHED"
    BY <1>1, <2>1, GoneFields
  <2>4. \A r \in Reqs : r \in Sessions => request'[r].num_computed_tokens >= 0
    BY <2>1, <2>3 DEF SessionsAhead
  <2>5. Steps' = Steps
    BY <2>1 DEF Steps
  <2>6. \A step \in Steps : DraftsCounted(step)'
    BY <1>8, <2>1, <2>3, <1>4 DEF SessionsAhead, DraftsCounted
  <2>7. QED BY <2>1, <2>2, <2>4, <2>5, <2>6, <1>4 DEF SessionsAhead
<1>16. QED BY <1>9, <1>10, <1>11, <1>12, <1>13, <1>14, <1>15 DEF CounterStep

\* What becomes of the tokens of a request in a step.
TokensStep(r) ==
  \/ request'[r].num_tokens = PromptLen[r] /\ NoPlaceholders(request'[r])
  \/ /\ \E k \in Nat : \/ request'[r].num_tokens = request[r].num_tokens + k
                       \/ GoesOn(r, request'[r], request[r], k)
     /\ Depth = 1 /\ NoPlaceholders(request[r]) => NoPlaceholders(request'[r])

\* Every step does one of these to a request's tokens.
LEMMA CounterTokens ==
  ASSUME Base, CounterStep, NEW r \in Reqs
  PROVE  TokensStep(r)
<1>1. /\ request \in [Reqs -> AnyRequest] /\ config \in Configs
      /\ loc.batch \in Seq(BatchEntry) /\ request[r].num_tokens \in Int
  <2>1. request[r] \in AnyRequest
    BY DEF Base, Typed
  <2>2. QED BY <2>1 DEF Base, Typed, Locals, AnyRequest
<1>2. \A s \in Reqs : Gone(s).num_tokens = PromptLen[s] /\ NoPlaceholders(Gone(s))
  BY <1>1, GoneFields
<1>3. 0 \in Nat /\ request[r].num_tokens = request[r].num_tokens + 0
  BY <1>1
<1>4. CASE request'[r] = request[r]
  BY <1>3, <1>4 DEF TokensStep
<1>5. CASE request'[r].num_tokens = request[r].num_tokens
           /\ (Depth = 1 /\ NoPlaceholders(request[r]) => NoPlaceholders(request'[r]))
  BY <1>3, <1>5 DEF TokensStep
<1>6. CASE request'[r] = Gone(r)
  BY <1>2, <1>6 DEF TokensStep
<1>7. CASE Quiet
  <2>1. QuietAt(r, request'[r], request[r])
    BY <1>7 DEF Quiet
  <2>2. QED BY <1>3, <2>1 DEF TokensStep, QuietAt
<1>8. ASSUME NEW e \in BatchEntry, Grows(e) PROVE TokensStep(r)
  <2>1. CASE r = e.req
    BY <1>5, <1>8, <2>1 DEF Grows, GrewAt
  <2>2. CASE r # e.req
    BY <1>4, <1>8, <2>2 DEF Grows
  <2>3. QED BY <2>1, <2>2
<1>9. ASSUME NEW S \in SUBSET Reqs, Loses(S) PROVE TokensStep(r)
  BY <1>4, <1>5, <1>9 DEF Loses, LostAt
<1>10. CASE LaunchesStep
  <2>1. CASE \A i \in DOMAIN loc.batch : loc.batch[i].req # r
    BY <1>4, <1>10, <2>1 DEF LaunchesStep
  <2>2. ASSUME NEW i \in DOMAIN loc.batch, loc.batch[i].req = r PROVE TokensStep(r)
    BY <1>5, <1>10, <2>2 DEF LaunchesStep, LaunchedAt
  <2>3. QED BY <2>1, <2>2
<1>11. CASE TakesStep
  BY <1>4, <1>11 DEF TakesStep
<1>12. CASE AnswersStep
  <2> DEFINE e == Head(todo)
  <2>1. CASE r # e.req
    BY <1>4, <1>12, <2>1 DEF AnswersStep
  <2>2. CASE r = e.req
    <3>1. \/ request'[r] = request[r] \/ request'[r] = Gone(r)
          \/ AnsweredAt(e, request'[r], request[r])
      BY <1>12, <2>2 DEF AnswersStep
    <3>2. CASE AnsweredAt(e, request'[r], request[r])
      <4>1. /\ \E k \in Nat : \/ request'[r].num_tokens = request[r].num_tokens + k
                              \/ GoesOn(e.req, request'[r], request[r], k)
            /\ Depth = 1 /\ NoPlaceholders(request[r]) => NoPlaceholders(request'[r])
        BY <3>2 DEF AnsweredAt
      <4>2. QED BY <4>1, <2>2 DEF TokensStep
    <3>3. QED BY <1>4, <1>6, <3>1, <3>2
  <2>3. QED BY <2>1, <2>2
<1>13. ASSUME NEW S \in SUBSET Reqs, EndsAll(S) PROVE TokensStep(r)
  <2>1. request'[r] = IF r \in S THEN Gone(r) ELSE request[r]
    BY <1>13 DEF EndsAll
  <2>2. QED BY <1>4, <1>6, <2>1
<1>14. QED BY <1>7, <1>8, <1>9, <1>10, <1>11, <1>12, <1>13 DEF CounterStep

\* No request is ever without a token.
LEMMA HasTokensNext ==
  ASSUME Base, HasTokens, CounterStep, UNCHANGED config, Base', SessionsAhead'
  PROVE  HasTokens'
<1>1. /\ request \in [Reqs -> AnyRequest] /\ request' \in [Reqs -> AnyRequest]
      /\ config \in Configs
  BY DEF Base, Typed
<1>2. /\ PromptLen \in [Reqs -> 1 .. MaxModelLen - 1] /\ MaxModelLen \in Int
      /\ Sessions' = Sessions /\ Depth' = Depth
  BY <1>1, ConfigFacts DEF Sessions, Depth
<1>3. ASSUME NEW r \in Reqs
      PROVE  /\ request'[r].num_tokens >= 1
             /\ Depth = 1 => NoPlaceholders(request'[r])
  <2> DEFINE p == request[r]
             q == request'[r]
  <2>1. p.num_tokens \in Int /\ q.num_computed_tokens \in Int /\ q.num_tokens \in Int
        /\ PromptLen[r] >= 1 /\ PromptLen[r] \in Int
    <3>1. p \in AnyRequest /\ q \in AnyRequest /\ PromptLen[r] \in 1 .. MaxModelLen - 1
      BY <1>1, <1>2
    <3> HIDE DEF p, q
    <3>2. QED BY <3>1, <1>2 DEF AnyRequest
  <2>2. p.num_tokens >= 1 /\ (Depth = 1 => NoPlaceholders(p))
    BY DEF HasTokens
  <2>3. r \in Sessions => q.num_computed_tokens >= 0
    BY <1>2 DEF SessionsAhead
  <2>4. \/ q.num_tokens = PromptLen[r] /\ NoPlaceholders(q)
        \/ /\ \E k \in Nat : \/ q.num_tokens = p.num_tokens + k
                             \/ GoesOn(r, q, p, k)
           /\ Depth = 1 /\ NoPlaceholders(p) => NoPlaceholders(q)
    BY CounterTokens DEF TokensStep
  <2> HIDE DEF p, q
  <2>5. CASE q.num_tokens = PromptLen[r] /\ NoPlaceholders(q)
    BY <2>1, <2>5 DEF q
  <2>6. ASSUME NEW k \in Nat, q.num_tokens = p.num_tokens + k PROVE q.num_tokens >= 1
    BY <2>1, <2>2, <2>6
  <2>7. ASSUME NEW k \in Nat, GoesOn(r, q, p, k) PROVE q.num_tokens >= 1
    BY <2>1, <2>2, <2>3, <2>7 DEF GoesOn, AtMost
  <2>8. QED BY <2>2, <2>4, <2>5, <2>6, <2>7 DEF q
<1>4. QED BY <1>2, <1>3 DEF HasTokens, NoPlaceholders

\* A request without blocks has nothing computed, and a running one has blocks.
LEMMA CoveredNext ==
  ASSUME Base, HasTokens, Covered, CounterStep, UNCHANGED config, Base', BlocksKept
  PROVE  Covered'
<1>1. /\ request \in [Reqs -> AnyRequest] /\ request' \in [Reqs -> AnyRequest] /\ Typed
      /\ config \in Configs /\ held \in [Reqs -> Int] /\ held' \in [Reqs -> Int]
  BY DEF Base, Typed
<1>2. /\ PromptLen \in [Reqs -> 1 .. MaxModelLen - 1] /\ MaxModelLen \in Int /\ NumSpec \in Nat
  BY <1>1, ConfigFacts
<1>3. \A r \in Reqs : request[r].num_computed_tokens \in Int /\ request'[r].num_computed_tokens \in Int
  BY <1>1 DEF AnyRequest
<1> DEFINE Good(r) == /\ held'[r] = 0 => request'[r].num_computed_tokens = 0
                      /\ request'[r].status = "RUNNING" => held'[r] > 0
<1>4. ASSUME NEW r \in Reqs, request'[r] = request[r], held'[r] = held[r] PROVE Good(r)
  BY <1>4 DEF Covered
<1>5. ASSUME NEW r \in Reqs, request'[r].status # "RUNNING", held'[r] = 0,
             request'[r].num_computed_tokens = 0
      PROVE  Good(r)
  BY <1>5
<1>6. \A r \in Reqs : Gone(r).status = "FINISHED" /\ Gone(r).num_computed_tokens = 0
  BY <1>1, GoneFields
<1>7. CASE Quiet
  <2>1. /\ held' = held
        /\ \A r \in Reqs : /\ request'[r].num_computed_tokens = request[r].num_computed_tokens
                           /\ request'[r].status = "RUNNING" => request[r].status = "RUNNING"
    BY <1>7 DEF Quiet, QuietAt, SameCounters
  <2>2. QED BY <2>1 DEF Covered
<1>8. ASSUME NEW e \in BatchEntry, Grows(e) PROVE Covered'
  <2> DEFINE r == e.req
             c == request'[r].num_computed_tokens
             size == TableSize(r, c, e.n)
  <2>1. /\ r \in Reqs /\ e.n \in Int /\ e.n > 0 /\ GrewAt(e, request'[r], request[r])
        /\ held' = [held EXCEPT ![r] = size]
        /\ \A s \in Reqs \ {r} : request'[s] = request[s]
    BY <1>8 DEF Grows
  <2>2. c \in Int /\ held[r] \in Int /\ held[r] >= 0
    BY <1>1, <1>3, <2>1 DEF BlocksKept
  <2>3. request[r].status = "RUNNING" \/ c >= 0
    BY <1>1, <2>1, GrownFrom
  <2>4. request[r].status = "RUNNING" => held[r] > 0
    BY <2>1 DEF Covered
  <2> DEFINE need == BlocksFor(c + e.n + NumSpec)
  <2>5. need \in Int
    BY <1>1, <1>2, <2>1, <2>2, BlocksForFacts
  <2>6. c >= 0 => need > 0
    <3>1. MaxModelLen > 0
      <4>1. PromptLen[r] \in 1 .. MaxModelLen - 1
        BY <1>2, <2>1
      <4>2. QED BY <1>2, <4>1
    <3> DEFINE m == c + e.n + NumSpec
    <3>2. m \in Int /\ (c >= 0 => m > 0)
      BY <1>2, <2>1, <2>2
    <3> HIDE DEF m
    <3>3. m > 0 => BlocksFor(m) > 0
      BY <1>1, <3>1, <3>2, BlocksForFacts
    <3>4. QED BY <3>2, <3>3 DEF m
  <2>7. size = AtLeast(need, held[r])
    BY DEF TableSize
  <2> HIDE DEF c, size, need, r
  <2>8. size > 0
    BY <2>2, <2>3, <2>4, <2>5, <2>6, <2>7 DEF AtLeast
  <2>9. held'[r] = size /\ size \in Int /\ \A s \in Reqs \ {r} : held'[s] = held[s]
    BY <2>1, <1>1
  <2>10. Good(r)
    BY <2>8, <2>9
  <2>11. \A s \in Reqs : Good(s)
    BY <1>4, <2>1, <2>9, <2>10
  <2>12. QED BY <2>11 DEF Covered
<1>9. ASSUME NEW S \in SUBSET Reqs, Loses(S) PROVE Covered'
  <2>1. \A r \in S : /\ request'[r].status # "RUNNING" /\ held'[r] = 0
                     /\ request'[r].num_computed_tokens = 0
    BY <1>9 DEF Loses, LostAt
  <2>2. \A r \in Reqs \ S : request'[r] = request[r] /\ held'[r] = held[r]
    BY <1>9 DEF Loses
  <2>3. \A r \in Reqs : Good(r)
    BY <1>4, <1>5, <2>1, <2>2
  <2>4. QED BY <2>3 DEF Covered
<1>10. CASE LaunchesStep
  <2>1. held' = held
    BY <1>10 DEF LaunchesStep
  <2>2. ASSUME NEW r \in Reqs PROVE Good(r)
    <3>1. CASE \A i \in DOMAIN loc.batch : loc.batch[i].req # r
      BY <1>4, <1>10, <2>1, <3>1 DEF LaunchesStep
    <3>2. ASSUME NEW i \in DOMAIN loc.batch, loc.batch[i].req = r PROVE Good(r)
      <4>1. request[r].status = "RUNNING"
        BY <3>2 DEF Base, BatchSound
      <4>2. held[r] > 0 /\ held[r] \in Int
        BY <1>1, <4>1 DEF Covered
      <4>3. QED BY <2>1, <4>2
    <3>3. QED BY <3>1, <3>2
  <2>3. QED BY <2>2 DEF Covered
<1>11. CASE TakesStep
  BY <1>11 DEF TakesStep, Covered
<1>12. CASE AnswersStep
  <2> DEFINE e == Head(todo)
             r == e.req
  <2>1. /\ r \in Reqs /\ \A s \in Reqs \ {r} : request'[s] = request[s] /\ held'[s] = held[s]
        /\ \/ request'[r] = request[r] /\ held'[r] = held[r]
           \/ request'[r] = Gone(r) /\ held'[r] = 0
           \/ AnsweredAt(e, request'[r], request[r]) /\ held'[r] = held[r]
    BY <1>12 DEF AnswersStep
  <2>2. ASSUME request'[r] = Gone(r), held'[r] = 0 PROVE Good(r)
    BY <1>6, <2>1, <2>2
  <2>3. ASSUME AnsweredAt(e, request'[r], request[r]), held'[r] = held[r] PROVE Good(r)
    <3>1. /\ \/ request'[r].status = request[r].status
             \/ request'[r].status \in {"WAITING", "WAITING_FOR_STREAMING_REQ"}
          /\ \/ request'[r].num_computed_tokens = request[r].num_computed_tokens
             \/ request[r].num_computed_tokens > 0
      BY <2>3 DEF AnsweredAt
    <3>2. request[r].num_computed_tokens \in Int
      BY <1>3, <2>1
    <3>3. held[r] = 0 => ~(request[r].num_computed_tokens > 0)
      BY <2>1, <3>2 DEF Covered
    <3>4. held[r] = 0 => request[r].num_computed_tokens = 0
      BY <2>1 DEF Covered
    <3>5. request[r].status = "RUNNING" => held[r] > 0
      BY <2>1 DEF Covered
    <3> HIDE DEF r, e
    <3>6. QED BY <2>3, <3>1, <3>3, <3>4, <3>5
  <2>4. Good(r)
    BY <1>4, <2>1, <2>2, <2>3
  <2>5. \A s \in Reqs : Good(s)
    BY <1>4, <2>1, <2>4
  <2>6. QED BY <2>5 DEF Covered
<1>13. ASSUME NEW S \in SUBSET Reqs, EndsAll(S) PROVE Covered'
  <2>1. \A r \in S : request'[r] = Gone(r) /\ held'[r] = 0
    BY <1>13, <1>1 DEF EndsAll
  <2>2. \A r \in Reqs \ S : request'[r] = request[r] /\ held'[r] = held[r]
    BY <1>13, <1>1 DEF EndsAll
  <2>3. \A r \in Reqs : Good(r)
    BY <1>4, <1>6, <2>1, <2>2
  <2>4. QED BY <2>3 DEF Covered
<1>14. QED BY <1>7, <1>8, <1>9, <1>10, <1>11, <1>12, <1>13 DEF CounterStep

\* Every step keeps the three.
LEMMA ComputedNext ==
  ASSUME SessionsUncut, Base, BlocksKept, Computed, [Next]_vars, Base'
  PROVE  Computed'
<1>1. CounterStep
  BY CounterNext
<1>2. UNCHANGED config
  BY ConfigSame
<1>3. SessionsAhead'
  BY <1>1, <1>2, SessionsAheadNext DEF Computed
<1>4. HasTokens'
  BY <1>1, <1>2, <1>3, HasTokensNext DEF Computed
<1>5. Covered'
  BY <1>1, <1>2, CoveredNext DEF Computed
<1>6. QED BY <1>3, <1>4, <1>5 DEF Computed

(* Requests have tokens, and those without blocks have computed none of them, *)
(* unless sessions' chunks are cut below their drafts (scheduler.py:971).     *)
THEOREM ComputedInvariant == ASSUME SessionsUncut PROVE Spec => []Computed
<1>1. Init => Computed
  BY ComputedInit
<1>2. SessionsUncut /\ Base /\ BlocksKept /\ Base' /\ Computed /\ [Next]_vars => Computed'
  BY ComputedNext
<1>3. Spec => [](Base /\ BlocksKept)
  BY BlocksInvariant
<1>4. SessionsUncut
  OBVIOUS
<1>5. QED BY <1>1, <1>2, <1>3, <1>4, PTL DEF Spec

(* The blocks on the tables never outrun the pool, the table of a running      *)
(* request covers what it has computed, and a request that lost its blocks, by *)
(* preemption, reset or its end, counts no token as computed (scheduler.py).   *)
(* SessionsUncut leaves out the configurations of the hazard at line 971.      *)
THEOREM BlocksCovered == ASSUME SessionsUncut PROVE Spec => []BlocksCover
<1>1. BlocksKept /\ Computed => BlocksCover
  BY DEF BlocksKept, Computed, Covered, BlocksCover, Reaches
<1>2. QED BY <1>1, BlocksInvariant, ComputedInvariant, PTL

---------------------------------------------------------------------------
(* Tokens in flight.                                                       *)

(* The tokens in flight, step by step.                                     *)

\* The tokens of r in a step, and in the first n of some steps.
InStep(step, r) ==
  SumFunction([j \in {k \in DOMAIN step : step[k].req = r} |-> step[j].n])
InSteps(q, n, r) == SumFunction([i \in 1 .. n |-> InStep(q[i], r)])

\* A request without an entry has no tokens in a step.
LEMMA NotInStep ==
  ASSUME NEW step, NEW r, \A i \in DOMAIN step : step[i].req # r
  PROVE  InStep(step, r) = 0
<1> DEFINE f == [j \in {k \in DOMAIN step : step[k].req = r} |-> step[j].n]
<1>1. f \in [{} -> Int]
  <2>1. {k \in DOMAIN step : step[k].req = r} = {}
    OBVIOUS
  <2>2. QED BY <2>1
<1> HIDE DEF f
<1>2. SumFunction(f) = 0
  BY <1>1, SumOfNothing
<1>3. QED BY <1>2 DEF InStep, f

\* A request with one entry has its tokens.
LEMMA OnceInStep ==
  ASSUME NEW step, OncePerStep(step), NEW i \in DOMAIN step, step[i].n \in Int
  PROVE  InStep(step, step[i].req) = step[i].n
<1> DEFINE D == {k \in DOMAIN step : step[k].req = step[i].req}
           f == [j \in D |-> step[j].n]
           rest == [j \in D \ {i} |-> f[j]]
<1>1. D = {i}
  BY DEF OncePerStep
<1>2. f \in [D -> Int] /\ i \in D /\ f[i] = step[i].n /\ IsFiniteSet(D)
  BY <1>1, FS_Singleton
<1>3. rest \in [{} -> Int]
  BY <1>1
<1> HIDE DEF f, D
<1>4. SumFunction(f) = f[i] + SumFunction(rest)
  BY <1>2, SumStep
<1> HIDE DEF rest
<1>5. SumFunction(rest) = 0
  BY <1>3, SumOfNothing
<1>6. QED BY <1>2, <1>4, <1>5 DEF InStep, f, D

\* A sound step counts no request negatively.
LEMMA InStepFacts ==
  ASSUME NEW step, OncePerStep(step), \A i \in DOMAIN step : step[i].n \in Int /\ step[i].n > 0,
         NEW r
  PROVE  InStep(step, r) \in Int /\ InStep(step, r) >= 0
<1>1. CASE \A i \in DOMAIN step : step[i].req # r
  BY <1>1, NotInStep
<1>2. ASSUME NEW i \in DOMAIN step, step[i].req = r
      PROVE  InStep(step, r) \in Int /\ InStep(step, r) >= 0
  BY <1>2, OnceInStep
<1>3. QED BY <1>1, <1>2

\* Steps whose entries count.
Counting(q) ==
  \A k \in DOMAIN q : \A r \in Reqs : InStep(q[k], r) \in Int /\ InStep(q[k], r) >= 0

\* Tokens in the first steps are a natural number, and none in no steps.
LEMMA InStepsFacts ==
  ASSUME NEW A, NEW q \in Seq(A), Counting(q), NEW r \in Reqs, NEW n \in 0 .. Len(q)
  PROVE  /\ InSteps(q, n, r) \in Int /\ InSteps(q, n, r) >= 0
         /\ n = 0 => InSteps(q, n, r) = 0
<1> DEFINE D == 1 .. n
           f == [i \in D |-> InStep(q[i], r)]
           z == [i \in D |-> 0]
<1>1. \A i \in D : i \in DOMAIN q
  OBVIOUS
<1>2. IsFiniteSet(D) /\ (n = 0 => D = {})
  BY FS_Interval
<1>3. f \in [D -> Int] /\ z \in [D -> Int] /\ \A i \in D : z[i] = 0 /\ z[i] <= f[i]
  BY <1>1 DEF Counting
<1>4. InSteps(q, n, r) = SumFunction(f)
  BY DEF InSteps
<1> HIDE DEF D, f, z
<1>5. SumFunction(z) <= SumFunction(f) /\ SumFunction(f) \in Int
  BY <1>2, <1>3, SumMonotone, SumIsInt
<1>6. SumFunction(z) = 0
  BY <1>2, <1>3, SumOfZeros
<1>7. n = 0 => SumFunction(f) = 0
  <2>1. n = 0 => f \in [{} -> Int]
    BY <1>2, <1>3
  <2>2. QED BY <2>1, SumOfNothing
<1>8. QED BY <1>4, <1>5, <1>6, <1>7

\* One more step adds its own.
LEMMA InStepsAppend ==
  ASSUME NEW A, NEW q \in Seq(A), NEW x, Counting(q), NEW r \in Reqs,
         InStep(x, r) \in Int
  PROVE  /\ InSteps(Append(q, x), Len(q) + 1, r) = InStep(x, r) + InSteps(q, Len(q), r)
         /\ \A n \in 0 .. Len(q) : InSteps(Append(q, x), n, r) = InSteps(q, n, r)
<1> DEFINE m == Len(q)
           p == Append(q, x)
           f == [i \in 1 .. m + 1 |-> InStep(p[i], r)]
<1>1. /\ m \in Nat /\ p[m + 1] = x /\ \A i \in 1 .. m : p[i] = q[i] /\ i \in DOMAIN q
      /\ \A i \in 1 .. m + 1 : i = m + 1 \/ i \in 1 .. m
  OBVIOUS
<1> HIDE DEF p, m
<1>2. ASSUME NEW n \in 0 .. m
      PROVE  [i \in 1 .. n |-> InStep(p[i], r)] = [i \in 1 .. n |-> InStep(q[i], r)]
  BY <1>1
<1>3. f \in [1 .. m + 1 -> Int] /\ f[m + 1] = InStep(x, r)
  <2>1. ASSUME NEW i \in 1 .. m + 1 PROVE InStep(p[i], r) \in Int
    <3>1. CASE i = m + 1
      BY <3>1, <1>1
    <3>2. CASE i \in 1 .. m
      BY <3>2, <1>1 DEF Counting
    <3>3. QED BY <3>1, <3>2, <1>1
  <2>2. m + 1 \in 1 .. m + 1
    BY <1>1
  <2>3. QED BY <2>1, <2>2, <1>1
<1>4. [i \in 1 .. m |-> f[i]] = [i \in 1 .. m |-> InStep(q[i], r)]
  BY <1>1
<1>5. SumFunction(f) = f[m + 1] + SumFunction([i \in 1 .. m |-> f[i]])
  <2> HIDE DEF f
  <2>1. QED BY <1>1, <1>3, SumToNext
<1>6. InSteps(p, m + 1, r) = SumFunction(f)
  BY DEF InSteps
<1>7. InSteps(p, m + 1, r) = InStep(x, r) + InSteps(q, m, r)
  BY <1>3, <1>4, <1>5, <1>6 DEF InSteps
<1>8. \A n \in 0 .. m : InSteps(p, n, r) = InSteps(q, n, r)
  BY <1>2 DEF InSteps
<1>9. QED BY <1>7, <1>8 DEF m, p

\* The first step comes off the front.
LEMMA InStepsTail ==
  ASSUME NEW A, NEW q \in Seq(A), q # <<>>, Counting(q), NEW r \in Reqs,
         NEW n \in 0 .. Len(q) - 1
  PROVE  InSteps(q, n + 1, r) = InStep(Head(q), r) + InSteps(Tail(q), n, r)
<1> DEFINE p == Tail(q)
           f == [i \in 1 .. n + 1 |-> InStep(q[i], r)]
<1>1. /\ n \in Nat /\ Head(q) = q[1] /\ \A i \in 1 .. n : p[i] = q[i + 1]
      /\ \A i \in 1 .. n + 1 : i \in DOMAIN q
  OBVIOUS
<1> HIDE DEF p
<1>2. f \in [1 .. n + 1 -> Int] /\ f[1] = InStep(q[1], r)
      /\ \A i \in 1 .. n : f[i + 1] = InStep(q[i + 1], r)
  BY <1>1 DEF Counting
<1>3. InSteps(q, n + 1, r) = SumFunction(f)
  BY DEF InSteps
<1> HIDE DEF f
<1>4. SumFunction(f) = f[1] + SumFunction([i \in 1 .. n |-> f[i + 1]])
  BY <1>1, <1>2, SumFromFirst
<1>5. [i \in 1 .. n |-> f[i + 1]] = [i \in 1 .. n |-> InStep(p[i], r)]
  BY <1>1, <1>2
<1>6. QED BY <1>1, <1>2, <1>3, <1>4, <1>5 DEF InSteps, p

\* The counters of the request r, which is q, when it has a step's remaining
\* entries before it, and some steps behind that one.
Kept(q, r, step, steps) ==
  /\ q.num_in_flight_tokens = InStep(step, r) + InSteps(steps, Len(steps), r)
  /\ \/ q.num_stale_output_tokens = 0
     \/ \E n \in 0 .. Len(steps) :
          q.num_stale_output_tokens = InStep(step, r) + InSteps(steps, n, r)

InFlightKept ==
  \A r \in Reqs : request[r].status # "FINISHED" => Kept(request[r], r, todo, inflight)

\* The steps in flight count.
LEMMA StepsCount ==
  ASSUME Base
  PROVE  /\ Counting(inflight) /\ inflight \in Seq(Seq(StepEntry)) /\ Len(inflight) \in Nat
         /\ \A r \in Reqs : InStep(todo, r) \in Int /\ InStep(todo, r) >= 0
<1>1. inflight \in Seq(Seq(StepEntry))
  BY DEF Base, Typed
<1>2. ASSUME NEW step \in Steps, NEW r \in Reqs
      PROVE  InStep(step, r) \in Int /\ InStep(step, r) >= 0
  <2>1. \A i \in DOMAIN step : step[i] \in StepEntry
    BY StepTyped DEF Base
  <2>2. \A i \in DOMAIN step : step[i].n \in Int
    BY <2>1 DEF StepEntry
  <2>3. OncePerStep(step) /\ \A i \in DOMAIN step : step[i].n > 0
    BY DEF Base, StepsSound, StepSound
  <2>4. QED BY <2>2, <2>3, InStepFacts
<1>3. todo \in Steps /\ \A k \in DOMAIN inflight : inflight[k] \in Steps
  BY DEF Steps
<1>4. QED BY <1>1, <1>2, <1>3 DEF Counting

\* Nothing is in flight in the first state.
LEMMA InFlightInit == ASSUME Init PROVE InFlightKept
<1>1. /\ inflight = <<>> /\ todo = <<>>
      /\ \A r \in Reqs : request[r] = NewRequest(r)
  BY DEF Init
<1>2. ASSUME NEW r \in Reqs PROVE Kept(request[r], r, todo, inflight)
  <2>1. InStep(todo, r) = 0
    BY <1>1, NotInStep
  <2>2. Counting(inflight) /\ inflight \in Seq(Seq(StepEntry)) /\ Len(inflight) = 0
    BY <1>1 DEF Counting
  <2>3. InSteps(inflight, 0, r) = 0
    <3>1. 0 \in 0 .. Len(inflight)
      BY <2>2
    <3>2. QED BY <2>2, <3>1, InStepsFacts
  <2>4. /\ NewRequest(r).num_in_flight_tokens = 0 /\ NewRequest(r).num_stale_output_tokens = 0
    BY DEF NewRequest
  <2>5. QED BY <1>1, <2>1, <2>2, <2>3, <2>4 DEF Kept
<1>3. QED BY <1>2 DEF InFlightKept

\* Counters that stay keep what was kept.
LEMMA KeptSame ==
  ASSUME NEW r, NEW q, NEW p, NEW step, NEW steps, Kept(p, r, step, steps), SameCounters(q, p)
  PROVE  Kept(q, r, step, steps)
  BY DEF Kept, SameCounters

\* A preemption makes all tokens in flight stale.
LEMMA LostKept ==
  ASSUME Base, NEW r \in Reqs, NEW q, NEW p, Kept(p, r, todo, inflight), LostAt(q, p)
  PROVE  Kept(q, r, todo, inflight)
<1>1. Len(inflight) \in 0 .. Len(inflight)
  BY StepsCount
<1>2. q.num_stale_output_tokens = InStep(todo, r) + InSteps(inflight, Len(inflight), r)
  BY DEF Kept, LostAt
<1>3. QED BY <1>1, <1>2 DEF Kept, LostAt

\* A launch puts the tokens of the step behind those in flight.
LEMMA LaunchKept ==
  ASSUME Base, NEW r \in Reqs, request[r].status # "FINISHED", Kept(request[r], r, todo, inflight), LaunchesStep
  PROVE  Kept(request'[r], r, todo', inflight')
<1>1. /\ request \in [Reqs -> AnyRequest] /\ request[r] \in AnyRequest
      /\ loc.batch \in Seq(BatchEntry) /\ OncePerStep(loc.batch)
      /\ todo = <<>>
      /\ DOMAIN LaunchedStep = DOMAIN loc.batch
      /\ \A j \in DOMAIN loc.batch :
           LaunchedStep[j].req = loc.batch[j].req /\ LaunchedStep[j].n = loc.batch[j].n
  <2>1. request \in [Reqs -> AnyRequest] /\ loc.batch \in Seq(BatchEntry) /\ OncePerStep(loc.batch)
    BY DEF Base, Typed, Locals, BatchSound
  <2>2. todo = <<>>
    BY DEF LaunchesStep, InSchedule, Base, Phases
  <2>3. QED BY <2>1, <2>2, LaunchedFacts DEF Base
<1>2. \A j \in DOMAIN loc.batch : loc.batch[j].n \in Int
  <2>1. \A j \in DOMAIN loc.batch : loc.batch[j] \in BatchEntry
    BY <1>1
  <2>2. QED BY <2>1 DEF BatchEntry
<1>3. inflight' = Append(inflight, LaunchedStep) /\ todo' = todo
  BY DEF LaunchesStep
<1> DEFINE fresh == LaunchedStep
           all == InSteps(inflight, Len(inflight), r)
           p == request[r]
           q == request'[r]
<1>4. /\ Counting(inflight) /\ inflight \in Seq(Seq(StepEntry)) /\ Len(inflight) \in Nat
      /\ InStep(todo, r) \in Int
  BY StepsCount
<1>5. Len(inflight') = Len(inflight) + 1
  BY <1>1, <1>3, <1>4
<1>6. p.num_in_flight_tokens \in Int
  BY <1>1 DEF AnyRequest
<1>7. OncePerStep(fresh)
  BY <1>1 DEF OncePerStep
<1> HIDE DEF fresh, p, q
\* What the request has in the new step.
<1>8. /\ InStep(fresh, r) \in Int
      /\ q.num_in_flight_tokens = p.num_in_flight_tokens + InStep(fresh, r)
      /\ q.num_stale_output_tokens = p.num_stale_output_tokens
  <2>1. CASE \A i \in DOMAIN loc.batch : loc.batch[i].req # r
    <3>1. InStep(fresh, r) = 0
      BY <1>1, <2>1, NotInStep DEF fresh
    <3>2. q = p
      BY <2>1 DEF LaunchesStep, p, q
    <3>3. QED BY <1>6, <3>1, <3>2
  <2>2. ASSUME NEW i \in DOMAIN loc.batch, loc.batch[i].req = r
        PROVE  /\ InStep(fresh, r) \in Int
               /\ q.num_in_flight_tokens = p.num_in_flight_tokens + InStep(fresh, r)
               /\ q.num_stale_output_tokens = p.num_stale_output_tokens
    <3>1. /\ q.num_in_flight_tokens = p.num_in_flight_tokens + loc.batch[i].n
          /\ q.num_stale_output_tokens = p.num_stale_output_tokens
      BY <2>2 DEF LaunchesStep, LaunchedAt, p, q
    <3>2. i \in DOMAIN fresh /\ fresh[i].req = r /\ fresh[i].n = loc.batch[i].n
      BY <1>1, <2>2 DEF fresh
    <3>3. InStep(fresh, fresh[i].req) = fresh[i].n
      BY <1>2, <1>7, <3>2, OnceInStep
    <3>4. QED BY <1>2, <3>1, <3>2, <3>3
  <2>3. QED BY <2>1, <2>2
<1>10. /\ InSteps(Append(inflight, fresh), Len(inflight) + 1, r) = InStep(fresh, r) + all
       /\ \A n \in 0 .. Len(inflight) :
            InSteps(Append(inflight, fresh), n, r) = InSteps(inflight, n, r)
  BY <1>4, <1>8, InStepsAppend
<1>11. inflight' = Append(inflight, fresh)
  BY <1>3 DEF fresh
<1>12. all \in Int
  <2>1. Len(inflight) \in 0 .. Len(inflight)
    BY <1>4
  <2>2. QED BY <1>4, <2>1, InStepsFacts
<1> HIDE DEF all
<1>13. p.num_in_flight_tokens = InStep(todo, r) + all
  BY DEF Kept, all, p
<1>14. q.num_in_flight_tokens = InStep(todo', r) + InSteps(inflight', Len(inflight'), r)
  BY <1>3, <1>4, <1>5, <1>6, <1>8, <1>10, <1>11, <1>12, <1>13
<1>15. \/ q.num_stale_output_tokens = 0
       \/ \E n \in 0 .. Len(inflight') :
            q.num_stale_output_tokens = InStep(todo', r) + InSteps(inflight', n, r)
  <2>1. CASE p.num_stale_output_tokens = 0
    BY <1>8, <2>1
  <2>2. ASSUME NEW n \in 0 .. Len(inflight),
               p.num_stale_output_tokens = InStep(todo, r) + InSteps(inflight, n, r)
        PROVE  \E m \in 0 .. Len(inflight') :
                 q.num_stale_output_tokens = InStep(todo', r) + InSteps(inflight', m, r)
    <3>1. n \in 0 .. Len(inflight')
      BY <1>4, <1>5
    <3>2. q.num_stale_output_tokens = InStep(todo', r) + InSteps(inflight', n, r)
      BY <1>3, <1>8, <1>10, <1>11, <2>2
    <3>3. QED BY <3>1, <3>2
  <2>3. QED BY <2>1, <2>2 DEF Kept, p
<1>16. QED BY <1>14, <1>15 DEF Kept, q

\* Taking up the oldest step moves its tokens to the front.
LEMMA TakeKept ==
  ASSUME Base, NEW r \in Reqs, Kept(request[r], r, todo, inflight), TakesStep
  PROVE  Kept(request'[r], r, todo', inflight')
<1>1. /\ inflight # <<>> /\ todo = <<>> /\ todo' = Head(inflight) /\ inflight' = Tail(inflight)
      /\ request' = request
  BY DEF TakesStep
<1>2. /\ Counting(inflight) /\ inflight \in Seq(Seq(StepEntry)) /\ Len(inflight) \in Nat
  BY StepsCount
<1> DEFINE h == Head(inflight)
           t == Tail(inflight)
<1>3. /\ Len(inflight) > 0 /\ Len(t) = Len(inflight) - 1 /\ InStep(todo, r) = 0
      /\ h = inflight[1] /\ 1 \in DOMAIN inflight /\ t \in Seq(Seq(StepEntry))
  <2>1. InStep(todo, r) = 0
    BY <1>1, NotInStep
  <2>2. QED BY <1>1, <1>2, <2>1
<1>4. \A n \in 0 .. Len(inflight) - 1 : InSteps(inflight, n + 1, r) = InStep(h, r) + InSteps(t, n, r)
  BY <1>1, <1>2, InStepsTail
<1>5. InSteps(inflight, 0, r) = 0 /\ InStep(h, r) \in Int
  <2>1. 0 \in 0 .. Len(inflight)
    BY <1>2
  <2>2. QED BY <1>2, <1>3, <2>1, InStepsFacts DEF Counting
<1>6. \A n \in 0 .. Len(inflight) : InSteps(inflight, n, r) \in Int
  BY <1>2, InStepsFacts
<1> DEFINE p == request[r]
<1>7. /\ p.num_in_flight_tokens = InSteps(inflight, Len(inflight), r)
      /\ \/ p.num_stale_output_tokens = 0
         \/ \E n \in 0 .. Len(inflight) : p.num_stale_output_tokens = InSteps(inflight, n, r)
  <2>1. \A n \in 0 .. Len(inflight) : InStep(todo, r) + InSteps(inflight, n, r) = InSteps(inflight, n, r)
    BY <1>3, <1>6
  <2>2. Len(inflight) \in 0 .. Len(inflight)
    BY <1>2
  <2>3. QED BY <2>1, <2>2 DEF Kept
<1> HIDE DEF h, t, p
<1>8. p.num_in_flight_tokens = InStep(h, r) + InSteps(t, Len(t), r)
  <2>1. Len(t) \in 0 .. Len(inflight) - 1 /\ Len(t) + 1 = Len(inflight)
    BY <1>2, <1>3
  <2>2. QED BY <1>4, <1>7, <2>1
<1>9. \/ p.num_stale_output_tokens = 0
      \/ \E n \in 0 .. Len(t) : p.num_stale_output_tokens = InStep(h, r) + InSteps(t, n, r)
  <2>1. ASSUME NEW n \in 0 .. Len(inflight), p.num_stale_output_tokens = InSteps(inflight, n, r),
               n # 0
        PROVE  \E m \in 0 .. Len(t) : p.num_stale_output_tokens = InStep(h, r) + InSteps(t, m, r)
    <3>1. n - 1 \in 0 .. Len(t) /\ n - 1 \in 0 .. Len(inflight) - 1 /\ (n - 1) + 1 = n
      BY <1>2, <1>3, <2>1
    <3>2. InSteps(inflight, (n - 1) + 1, r) = InStep(h, r) + InSteps(t, n - 1, r)
      BY <1>4, <3>1
    <3>3. QED BY <2>1, <3>1, <3>2
  <2>2. QED BY <1>5, <1>7, <2>1
<1>10. todo' = h /\ inflight' = t /\ request'[r] = p
  BY <1>1 DEF h, t, p
<1>11. QED BY <1>8, <1>9, <1>10 DEF Kept

\* An answered entry is off both counters.
LEMMA AnswerKept ==
  ASSUME Base, NEW r \in Reqs, request[r].status # "FINISHED", request'[r].status # "FINISHED",
         Kept(request[r], r, todo, inflight), AnswersStep
  PROVE  Kept(request'[r], r, todo', inflight')
<1> DEFINE e == Head(todo)
<1>1. /\ OutputTurn /\ todo' = Tail(todo) /\ inflight' = inflight
      /\ r # e.req => request'[r] = request[r]
      /\ r = e.req => request'[r] = Gone(r) \/ AnsweredAt(e, request'[r], request[r])
  BY DEF AnswersStep
<1>2. /\ e = todo[1] /\ 1 \in DOMAIN todo /\ todo \in Seq(StepEntry) /\ e.n > 0
      /\ OncePerStep(todo)
      /\ \A i \in DOMAIN Tail(todo) : Tail(todo)[i].req # e.req
  BY <1>1, TodoFacts DEF StepSound
<1>3. e.n \in Int
  <2>1. \A i \in DOMAIN todo : todo[i] \in StepEntry
    BY <1>2
  <2>2. todo[1] \in StepEntry
    BY <1>2, <2>1
  <2> HIDE DEF e
  <2>3. QED BY <1>2, <2>2 DEF StepEntry
<1>4. /\ Counting(inflight) /\ inflight \in Seq(Seq(StepEntry)) /\ Len(inflight) \in Nat
  BY StepsCount
<1>5. \A n \in 0 .. Len(inflight) : InSteps(inflight, n, r) \in Int /\ InSteps(inflight, n, r) >= 0
  BY <1>4, InStepsFacts
<1> DEFINE p == request[r]
           q == request'[r]
           F(n) == InSteps(inflight, n, r)
<1>7. /\ p.num_in_flight_tokens = InStep(todo, r) + F(Len(inflight))
      /\ \/ p.num_stale_output_tokens = 0
         \/ \E n \in 0 .. Len(inflight) : p.num_stale_output_tokens = InStep(todo, r) + F(n)
  BY DEF Kept
<1>8. CASE r # e.req
  <2>1. InStep(Tail(todo), r) = InStep(todo, r)
    <3>1. CASE \A i \in DOMAIN todo : todo[i].req # r
      <4>1. \A i \in DOMAIN Tail(todo) : i + 1 \in DOMAIN todo /\ Tail(todo)[i] = todo[i + 1]
        BY <1>2
      <4>2. \A i \in DOMAIN Tail(todo) : Tail(todo)[i].req # r
        BY <3>1, <4>1
      <4>3. QED BY <3>1, <4>2, NotInStep
    <3>2. ASSUME NEW i \in DOMAIN todo, todo[i].req = r
          PROVE  InStep(Tail(todo), r) = InStep(todo, r)
      <4> DEFINE t == Tail(todo)
      <4>1. /\ i # 1 /\ i - 1 \in DOMAIN t /\ t[i - 1] = todo[i]
            /\ \A j \in DOMAIN t : j + 1 \in DOMAIN todo /\ t[j] = todo[j + 1]
            /\ DOMAIN t \subseteq Nat
        BY <1>2, <1>8, <3>2
      <4>2. todo[i].n \in Int
        <5>1. todo[i] \in StepEntry
          BY <1>2
        <5>2. QED BY <5>1 DEF StepEntry
      <4>3. OncePerStep(t)
        BY <4>1, <1>2 DEF OncePerStep
      <4> HIDE DEF t
      <4>4. InStep(todo, todo[i].req) = todo[i].n
        BY <1>2, <4>2, OnceInStep
      <4>5. PICK j \in DOMAIN t : t[j] = todo[i]
        BY <4>1
      <4>6. InStep(t, t[j].req) = t[j].n
        BY <4>2, <4>3, <4>5, OnceInStep
      <4>7. QED BY <3>2, <4>4, <4>5, <4>6 DEF t
    <3>3. QED BY <3>1, <3>2
  <2>2. QED BY <1>1, <1>7, <1>8, <2>1 DEF Kept
<1>9. CASE r = e.req
  <2>1. AnsweredAt(e, q, p)
    <3>1. request'[r] # Gone(r)
      BY GoneFields DEF Base, Typed
    <3>2. QED BY <1>1, <1>9, <3>1
  <2>2. InStep(todo, r) = e.n
    BY <1>2, <1>3, <1>9, OnceInStep
  <2>3. InStep(Tail(todo), r) = 0
    BY <1>2, <1>9, NotInStep
  <2>4. /\ q.num_in_flight_tokens = p.num_in_flight_tokens - e.n
        /\ q.num_stale_output_tokens = IF p.num_stale_output_tokens > 0
                                       THEN p.num_stale_output_tokens - e.n
                                       ELSE p.num_stale_output_tokens
    BY <2>1 DEF AnsweredAt
  <2> DEFINE m == Len(inflight)
             n0 == e.n
  <2>5. /\ \A n \in 0 .. m : F(n) \in Int /\ F(n) >= 0
        /\ m \in 0 .. m /\ n0 \in Int /\ n0 > 0
        /\ p.num_in_flight_tokens = n0 + F(m)
        /\ \/ p.num_stale_output_tokens = 0
           \/ \E n \in 0 .. m : p.num_stale_output_tokens = n0 + F(n)
        /\ q.num_in_flight_tokens = p.num_in_flight_tokens - n0
    <3>1. \A n \in 0 .. m : F(n) \in Int /\ F(n) >= 0
      BY <1>5
    <3>2. m \in 0 .. m /\ n0 \in Int /\ n0 > 0
      BY <1>2, <1>3, <1>4
    <3>3. /\ p.num_in_flight_tokens = n0 + F(m)
          /\ \/ p.num_stale_output_tokens = 0
             \/ \E n \in 0 .. m : p.num_stale_output_tokens = n0 + F(n)
      BY <1>7, <2>2
    <3>4. q.num_in_flight_tokens = p.num_in_flight_tokens - n0
      BY <2>4
    <3>5. QED BY <3>1, <3>2, <3>3, <3>4
  <2> HIDE DEF F, p, q, n0, m
  <2>6. q.num_in_flight_tokens = 0 + F(m)
    BY <2>5
  <2>7. \/ q.num_stale_output_tokens = 0
        \/ \E n \in 0 .. m : q.num_stale_output_tokens = 0 + F(n)
    <3>1. CASE p.num_stale_output_tokens = 0
      BY <2>4, <3>1
    <3>2. ASSUME NEW n \in 0 .. m, p.num_stale_output_tokens = n0 + F(n)
          PROVE  q.num_stale_output_tokens = 0 + F(n)
      <4>1. p.num_stale_output_tokens > 0
        BY <2>5, <3>2
      <4>2. q.num_stale_output_tokens = p.num_stale_output_tokens - n0
        BY <2>4, <4>1 DEF n0
      <4>3. QED BY <2>5, <3>2, <4>2
    <3>3. QED BY <2>5, <3>1, <3>2
  <2>8. /\ q.num_in_flight_tokens = InStep(Tail(todo), r) + F(m)
        /\ \/ q.num_stale_output_tokens = 0
           \/ \E n \in 0 .. m : q.num_stale_output_tokens = InStep(Tail(todo), r) + F(n)
    BY <2>3, <2>6, <2>7
  <2>9. QED BY <1>1, <2>8 DEF Kept, F, m, q
<1>10. QED BY <1>8, <1>9

\* Every step keeps the counters.
LEMMA InFlightNext ==
  ASSUME Base, InFlightKept, CounterStep
  PROVE  InFlightKept'
<1>1. config \in Configs
  BY DEF Base, Typed
<1> SUFFICES ASSUME NEW r \in Reqs, request'[r].status # "FINISHED"
             PROVE  Kept(request'[r], r, todo', inflight')
  BY DEF InFlightKept
<1>2. Gone(r).status = "FINISHED"
  BY <1>1, GoneFields
<1>3. request[r].status # "FINISHED" => Kept(request[r], r, todo, inflight)
  BY DEF InFlightKept
<1>4. ASSUME request'[r] = request[r], UNCHANGED <<todo, inflight>>
      PROVE  Kept(request'[r], r, todo', inflight')
  BY <1>3, <1>4
<1>5. CASE Quiet
  <2>1. QuietAt(r, request'[r], request[r]) /\ UNCHANGED <<todo, inflight>>
    BY <1>5 DEF Quiet
  <2>2. request[r].status # "FINISHED" /\ SameCounters(request'[r], request[r])
    BY <2>1 DEF QuietAt
  <2>3. QED BY <1>3, <2>1, <2>2, KeptSame
<1>6. ASSUME NEW e \in BatchEntry, Grows(e) PROVE Kept(request'[r], r, todo', inflight')
  <2>1. UNCHANGED <<todo, inflight>> /\ GrewAt(e, request'[e.req], request[e.req])
        /\ (r # e.req => request'[r] = request[r])
    BY <1>6 DEF Grows
  <2>2. CASE r = e.req
    <3>1. /\ request[r].status # "FINISHED"
          /\ request'[r].num_in_flight_tokens = request[r].num_in_flight_tokens
          /\ request'[r].num_stale_output_tokens = request[r].num_stale_output_tokens
      BY <2>1, <2>2 DEF GrewAt
    <3>2. QED BY <1>3, <2>1, <3>1 DEF Kept
  <2>3. QED BY <1>4, <2>1, <2>2
<1>7. ASSUME NEW S \in SUBSET Reqs, Loses(S) PROVE Kept(request'[r], r, todo', inflight')
  <2>1. UNCHANGED <<todo, inflight>> /\ (r \notin S => request'[r] = request[r])
        /\ (r \in S => LostAt(request'[r], request[r]))
    BY <1>7 DEF Loses
  <2>2. CASE r \in S
    <3>1. LostAt(request'[r], request[r]) /\ request[r].status # "FINISHED"
      BY <2>1, <2>2 DEF LostAt
    <3>2. Kept(request'[r], r, todo, inflight)
      BY <1>3, <3>1, LostKept
    <3>3. QED BY <2>1, <3>2
  <2>3. QED BY <1>4, <2>1, <2>2
<1>8. CASE LaunchesStep
  <2>1. request'[r].status = request[r].status
    <3>1. CASE \A i \in DOMAIN loc.batch : loc.batch[i].req # r
      BY <1>8, <3>1 DEF LaunchesStep
    <3>2. ASSUME NEW i \in DOMAIN loc.batch, loc.batch[i].req = r
          PROVE  request'[r].status = request[r].status
      BY <1>8, <3>2 DEF LaunchesStep, LaunchedAt
    <3>3. QED BY <3>1, <3>2
  <2>2. QED BY <1>3, <1>8, <2>1, LaunchKept
<1>9. CASE TakesStep
  <2>1. request' = request
    BY <1>9 DEF TakesStep
  <2>2. QED BY <1>3, <1>9, <2>1, TakeKept
<1>10. CASE AnswersStep
  <2>1. request[r].status # "FINISHED"
    <3> SUFFICES ASSUME request[r].status = "FINISHED" PROVE FALSE
      OBVIOUS
    <3>1. request'[r] = request[r] \/ request'[r] = Gone(r)
      <4> DEFINE e == Head(todo)
      <4>1. /\ r # e.req => request'[r] = request[r]
            /\ r = e.req => \/ request'[r] = request[r] \/ request'[r] = Gone(r)
                            \/ AnsweredAt(e, request'[r], request[r])
        BY <1>10 DEF AnswersStep
      <4>2. QED BY <4>1 DEF AnsweredAt
    <3>2. QED BY <1>2, <3>1
  <2>2. QED BY <1>3, <1>10, <2>1, AnswerKept
<1>11. ASSUME NEW S \in SUBSET Reqs, EndsAll(S) PROVE Kept(request'[r], r, todo', inflight')
  <2>1. request'[r] = (IF r \in S THEN Gone(r) ELSE request[r]) /\ UNCHANGED <<todo, inflight>>
    BY <1>11 DEF EndsAll
  <2>2. QED BY <1>2, <1>4, <2>1
<1>12. QED BY <1>5, <1>6, <1>7, <1>8, <1>9, <1>10, <1>11 DEF CounterStep

(* num_in_flight_tokens is what the launched steps hold of a request, and     *)
(* num_stale_output_tokens what the oldest of them do, to the step: output    *)
(* computed before a preemption is told from output computed after it, at any *)
(* depth (update_from_output, _preempt_request).                              *)
THEOREM InFlight == Spec => []InFlightAccounting
<1>1. Init => InFlightKept
  BY InFlightInit
<1>2. Base /\ InFlightKept /\ [Next]_vars => InFlightKept'
  BY InFlightNext, CounterNext
<1>3. Base /\ InFlightKept => InFlightAccounting
  <2> SUFFICES ASSUME Base, InFlightKept, pc = "idle", NEW r \in LiveReqs
               PROVE  /\ request[r].num_in_flight_tokens = TokensInSteps(Len(inflight), r)
                      /\ \E n \in 0 .. Len(inflight) :
                           request[r].num_stale_output_tokens = TokensInSteps(n, r)
    BY DEF InFlightAccounting
  <2>1. r \in Reqs /\ request[r].status # "FINISHED"
    BY DEF LiveReqs, Live
  <2>2. Kept(request[r], r, todo, inflight)
    BY <2>1 DEF InFlightKept
  <2>3. todo = <<>>
    BY DEF Base, Phases
  <2>4. InStep(todo, r) = 0
    BY <2>3, NotInStep
  <2>5. /\ Counting(inflight) /\ inflight \in Seq(Seq(StepEntry)) /\ Len(inflight) \in Nat
        /\ 0 \in 0 .. Len(inflight) /\ Len(inflight) \in 0 .. Len(inflight)
    BY StepsCount
  <2>6. /\ \A n \in 0 .. Len(inflight) : InSteps(inflight, n, r) \in Int
        /\ InSteps(inflight, 0, r) = 0
    BY <2>1, <2>5, InStepsFacts
  <2>7. \A n \in 0 .. Len(inflight) : TokensInSteps(n, r) = InSteps(inflight, n, r)
    BY DEF TokensInSteps, StepTokens, InSteps, InStep
  <2>8. QED BY <2>2, <2>4, <2>5, <2>6, <2>7 DEF Kept
<1>4. QED BY <1>1, <1>2, <1>3, BaseInvariant, PTL DEF Spec
---------------------------------------------------------------------------
(* Every token in its place.                                               *)

\* A prompt has a length.
LEMMA PromptLens == ASSUME Base PROVE \A r \in Reqs : PromptLen[r] \in Int
BY ConfigFacts DEF Base, Typed

\* The p-th of the steps in flight, from the one that is being taken back.
Nth(step, steps, p) == IF p = 0 THEN step ELSE steps[p]

\* What an entry adds to its request's count when all its drafts are accepted.
Due(e) == IF e.samples THEN 1 + e.drafts ELSE 0

Absent(step, r) == \A j \in DOMAIN step : step[j].req # r

Adds(step, r, a, b) ==
  /\ Absent(step, r) => a = 0 /\ b = 0
  /\ \A j \in DOMAIN step : step[j].req = r =>
       step[j].drafts >= 0 /\ a = step[j].n /\ b = Due(step[j])

\* t and d add up what the steps hold of r, from the oldest on.
Lane(step, steps, r, t, d) ==
  /\ t \in [0 .. Len(steps) + 1 -> Int] /\ d \in [0 .. Len(steps) + 1 -> Int]
  /\ t[0] = 0 /\ d[0] = 0
  /\ \A i, j \in 0 .. Len(steps) + 1 : i <= j => t[i] <= t[j] /\ d[i] <= d[j]
  /\ \A p \in 0 .. Len(steps) : Adds(Nth(step, steps, p), r, t[p + 1] - t[p], d[p + 1] - d[p])

NewIn(step, r) == \E j \in DOMAIN step : step[j].req = r /\ step[j].prefix > 0

PrefixIs(step, r, count) ==
  \A j \in DOMAIN step : step[j].req = r /\ step[j].prefix > 0 => step[j].prefix = count

\* Of the entries from the c-th step on, only the first tells the runner the
\* request's count; if none does, the runner has it.
InOrder(step, steps, r, c, count, s, fed) ==
  /\ \A p \in c .. Len(steps) : NewIn(Nth(step, steps, p), r) =>
       /\ PrefixIs(Nth(step, steps, p), r, count)
       /\ \A h \in c .. p - 1 : Absent(Nth(step, steps, h), r)
  /\ fed \/ (\E p \in c .. Len(steps) : ~Absent(Nth(step, steps, p), r)) =>
       s = count \/ \E p \in c .. Len(steps) : NewIn(Nth(step, steps, p), r)

Ahead(q, settled) ==
  IF settled /\ ~q.is_prefill_chunk THEN q.num_computed_tokens + 1 - q.num_tokens ELSE 0

Tracked(q, r, step, steps, settled, s) ==
  \E k \in 0 .. Len(steps) + 1 : \E t, d \in [0 .. Len(steps) + 1 -> Int] :
    /\ Lane(step, steps, r, t, d)
    /\ q.num_in_flight_tokens = t[Len(steps) + 1]
    /\ q.num_stale_output_tokens = t[k]
    /\ Ahead(q, settled) = d[Len(steps) + 1] - d[k]
    /\ InOrder(step, steps, r, IF q.drop_stale_output THEN k ELSE 0, q.num_tokens, s, settled)

\* Nothing of r is in flight.
LEMMA TrackedNone ==
  ASSUME NEW q, NEW r, NEW step, NEW s, Absent(step, r),
         q.num_in_flight_tokens = 0, q.num_stale_output_tokens = 0,
         q.drop_stale_output \in BOOLEAN
  PROVE  Tracked(q, r, step, <<>>, FALSE, s)
<1> DEFINE t == [i \in 0 .. 1 |-> 0]
           c == IF q.drop_stale_output THEN 0 ELSE 0
<1>1. Len(<<>>) = 0 /\ 0 .. Len(<<>>) = {0} /\ 0 .. Len(<<>>) + 1 = 0 .. 1 /\ c = 0
  OBVIOUS
<1>2. Nth(step, <<>>, 0) = step
  BY DEF Nth
<1>3. ~NewIn(step, r)
  BY DEF NewIn, Absent
<1>4. Adds(step, r, 0, 0)
  BY DEF Adds, Absent
<1>5. Lane(step, <<>>, r, t, t)
  BY <1>1, <1>2, <1>4 DEF Lane
<1>6. InOrder(step, <<>>, r, c, q.num_tokens, s, FALSE)
  BY <1>1, <1>2, <1>3 DEF InOrder
<1>7. Ahead(q, FALSE) = 0
  BY DEF Ahead
<1>8. 0 \in 0 .. Len(<<>>) + 1 /\ t \in [0 .. Len(<<>>) + 1 -> Int] /\ t[Len(<<>>) + 1] = 0 /\ t[0] = 0
  BY <1>1
<1> HIDE DEF t
<1>9. /\ q.num_in_flight_tokens = t[Len(<<>>) + 1] /\ q.num_stale_output_tokens = t[0]
      /\ Ahead(q, FALSE) = t[Len(<<>>) + 1] - t[0]
  <2> DEFINE x == t[Len(<<>>) + 1]
             y == t[0]
             z == Ahead(q, FALSE)
  <2>1. x = 0 /\ y = 0 /\ z = 0
    BY <1>7, <1>8
  <2> HIDE DEF x, y, z
  <2>2. x = 0 /\ y = 0 /\ z = x - y
    BY <2>1
  <2>3. QED BY <2>2 DEF x, y, z
<1> HIDE DEF c
<1>10. QED BY <1>5, <1>6, <1>8, <1>9, Zenon DEF Tracked, c

\* A step that changes none of the counters.
LEMMA TrackedSame ==
  ASSUME NEW q, NEW p, NEW r, NEW step, NEW steps, NEW a \in BOOLEAN, NEW b \in BOOLEAN, NEW s,
         Tracked(p, r, step, steps, a, s), b => a,
         q.num_in_flight_tokens = p.num_in_flight_tokens,
         q.num_stale_output_tokens = p.num_stale_output_tokens,
         q.num_tokens = p.num_tokens, q.drop_stale_output = p.drop_stale_output,
         Ahead(q, b) = Ahead(p, a)
  PROVE  Tracked(q, r, step, steps, b, s)
<1>1. \A c, n : InOrder(step, steps, r, c, n, s, a) => InOrder(step, steps, r, c, n, s, b)
  BY DEF InOrder
<1>2. QED BY <1>1 DEF Tracked

\* A lane that goes flat goes past no entry.
LEMMA LaneFlat ==
  ASSUME NEW step, NEW steps, Len(steps) \in Nat, NEW r, NEW t, NEW d, Lane(step, steps, r, t, d),
         \A p \in 0 .. Len(steps) : \A j \in DOMAIN Nth(step, steps, p) : Nth(step, steps, p)[j].n > 0,
         NEW i \in 0 .. Len(steps) + 1, NEW j \in 0 .. Len(steps) + 1, t[i] = t[j]
  PROVE  \A p \in i .. j - 1 : Absent(Nth(step, steps, p), r)
<1> SUFFICES ASSUME NEW p \in i .. j - 1 PROVE Absent(Nth(step, steps, p), r)
  OBVIOUS
<1>1. p \in 0 .. Len(steps) /\ p \in 0 .. Len(steps) + 1 /\ p + 1 \in 0 .. Len(steps) + 1
      /\ i <= p /\ p + 1 <= j /\ p <= p + 1
  OBVIOUS
<1>2. t[i] <= t[p] /\ t[p] <= t[p + 1] /\ t[p + 1] <= t[j]
      /\ t[i] \in Int /\ t[p] \in Int /\ t[p + 1] \in Int /\ t[j] \in Int
  BY <1>1 DEF Lane
<1>3. t[p + 1] - t[p] = 0
  BY <1>2
<1>4. Adds(Nth(step, steps, p), r, t[p + 1] - t[p], d[p + 1] - d[p])
  BY <1>1 DEF Lane
<1>5. \A x \in DOMAIN Nth(step, steps, p) : Nth(step, steps, p)[x].n > 0
  BY <1>1
<1>6. QED BY <1>3, <1>4, <1>5 DEF Adds, Absent


Positive(step) == \A j \in DOMAIN step : step[j].n > 0

\* Blank steps in front do not matter.
LEMMA InOrderWider ==
  ASSUME NEW step, NEW steps, Len(steps) \in Nat, NEW r, NEW c \in Nat, NEW count, NEW s, NEW fed \in BOOLEAN,
         InOrder(step, steps, r, c, count, s, fed), c <= Len(steps) + 1,
         \A p \in 0 .. c - 1 : Absent(Nth(step, steps, p), r)
  PROVE  InOrder(step, steps, r, 0, count, s, fed)
<1>1. ASSUME NEW p \in 0 .. Len(steps), ~Absent(Nth(step, steps, p), r) PROVE p \in c .. Len(steps)
  BY <1>1
<1>2. \A p : NewIn(Nth(step, steps, p), r) => ~Absent(Nth(step, steps, p), r)
  BY DEF NewIn, Absent
<1>3. ASSUME NEW p \in 0 .. Len(steps), NewIn(Nth(step, steps, p), r)
      PROVE  /\ PrefixIs(Nth(step, steps, p), r, count)
             /\ \A h \in 0 .. p - 1 : Absent(Nth(step, steps, h), r)
  <2>1. p \in c .. Len(steps)
    BY <1>1, <1>2, <1>3
  <2>2. /\ PrefixIs(Nth(step, steps, p), r, count)
        /\ \A h \in c .. p - 1 : Absent(Nth(step, steps, h), r)
    BY <1>3, <2>1 DEF InOrder
  <2>3. ASSUME NEW h \in 0 .. p - 1 PROVE h \in 0 .. c - 1 \/ h \in c .. p - 1
    BY <2>1
  <2>4. QED BY <2>2, <2>3
<1>4. ASSUME fed \/ \E p \in 0 .. Len(steps) : ~Absent(Nth(step, steps, p), r), s # count
      PROVE  \E p \in 0 .. Len(steps) : NewIn(Nth(step, steps, p), r)
  <2>1. \E p \in c .. Len(steps) : NewIn(Nth(step, steps, p), r)
    BY <1>1, <1>4 DEF InOrder
  <2>2. c .. Len(steps) \subseteq 0 .. Len(steps)
    OBVIOUS
  <2>3. QED BY <2>1, <2>2
<1>5. QED BY <1>3, <1>4 DEF InOrder

\* A preempted request: all its output in flight is stale.
LEMMA TrackedLost ==
  ASSUME NEW q, NEW p, NEW r, NEW step, NEW steps, Len(steps) \in Nat, NEW a \in BOOLEAN, NEW s,
         NEW drop \in BOOLEAN, p.drop_stale_output \in BOOLEAN, q.drop_stale_output \in BOOLEAN,
         Tracked(p, r, step, steps, a, s),
         \A i \in 0 .. Len(steps) : Positive(Nth(step, steps, i)),
         q.num_in_flight_tokens = p.num_in_flight_tokens,
         q.num_stale_output_tokens = p.num_in_flight_tokens,
         q.num_tokens = p.num_tokens,
         q.drop_stale_output <=> drop \/ (p.drop_stale_output /\ p.num_stale_output_tokens > 0)
  PROVE  Tracked(q, r, step, steps, FALSE, s)
<1> DEFINE m == Len(steps) + 1
<1>1. PICK k \in 0 .. m : \E t, d \in [0 .. m -> Int] :
    /\ Lane(step, steps, r, t, d)
    /\ p.num_in_flight_tokens = t[m]
    /\ p.num_stale_output_tokens = t[k]
    /\ Ahead(p, a) = d[m] - d[k]
    /\ InOrder(step, steps, r, IF p.drop_stale_output THEN k ELSE 0, p.num_tokens, s, a)
  BY Zenon DEF Tracked
<1>2. PICK t \in [0 .. m -> Int], d \in [0 .. m -> Int] :
    /\ Lane(step, steps, r, t, d)
    /\ p.num_in_flight_tokens = t[m]
    /\ p.num_stale_output_tokens = t[k]
    /\ Ahead(p, a) = d[m] - d[k]
    /\ InOrder(step, steps, r, IF p.drop_stale_output THEN k ELSE 0, p.num_tokens, s, a)
  BY <1>1
<1>3. /\ \A i, j \in 0 .. m : i <= j => t[i] <= t[j]
      /\ t[0] = 0 /\ 0 \in 0 .. m /\ m \in 0 .. m /\ m \in Nat
      /\ t[k] \in Int /\ t[m] \in Int /\ d[m] \in Int
  BY <1>2 DEF Lane
<1>4. Ahead(q, FALSE) = d[m] - d[m]
  BY <1>3 DEF Ahead
<1>5. CASE q.drop_stale_output
  <2>1. InOrder(step, steps, r, m, q.num_tokens, s, FALSE)
    <3>1. m .. Len(steps) = {}
      OBVIOUS
    <3>2. QED BY <3>1 DEF InOrder
  <2>2. (IF q.drop_stale_output THEN m ELSE 0) = m
    BY <1>5
  <2> HIDE DEF m
  <2>3. QED BY <1>2, <1>3, <1>4, <2>1, <2>2 DEF Tracked, m
<1>6. CASE ~q.drop_stale_output
  <2>1. InOrder(step, steps, r, 0, p.num_tokens, s, a)
    <3>1. CASE ~p.drop_stale_output
      BY <1>2, <3>1
    <3>2. CASE p.drop_stale_output
      <4>1. ~(t[k] > 0)
        BY <1>2, <1>6, <3>2
      <4>2. t[0] <= t[k]
        BY <1>3
      <4>3. t[0] = t[k]
        BY <1>3, <4>1, <4>2
      <4>4. \A i \in 0 .. Len(steps) : \A j \in DOMAIN Nth(step, steps, i) : Nth(step, steps, i)[j].n > 0
        BY DEF Positive
      <4>5. \A i \in 0 .. k - 1 : Absent(Nth(step, steps, i), r)
        BY <1>2, <1>3, <4>3, <4>4, LaneFlat
      <4>6. InOrder(step, steps, r, k, p.num_tokens, s, a)
        BY <1>2, <3>2
      <4>7. k \in Nat /\ k <= Len(steps) + 1
        OBVIOUS
      <4>8. QED BY <4>5, <4>6, <4>7, InOrderWider
    <3>3. QED BY <3>1, <3>2
  <2>2. InOrder(step, steps, r, 0, q.num_tokens, s, FALSE)
    BY <2>1 DEF InOrder
  <2>3. (IF q.drop_stale_output THEN m ELSE 0) = 0
    BY <1>6
  <2> HIDE DEF m
  <2>4. QED BY <1>2, <1>3, <1>4, <2>2, <2>3 DEF Tracked, m
<1>7. QED BY <1>5, <1>6


\* A step that is launched comes last.
LEMMA LaunchTracked ==
  ASSUME NEW A, NEW steps \in Seq(A), NEW f, NEW q, NEW p, NEW r, NEW step, NEW s,
         NEW u \in BOOLEAN, NEW v \in BOOLEAN, NEW a \in Nat, NEW b \in Nat, Adds(f, r, a, b),
         Tracked(p, r, step, steps, u, s), p.drop_stale_output \in BOOLEAN,
         \A i \in 0 .. Len(steps) : Positive(Nth(step, steps, i)),
         q.num_in_flight_tokens = p.num_in_flight_tokens + a,
         q.num_stale_output_tokens = p.num_stale_output_tokens,
         q.num_tokens = p.num_tokens, q.drop_stale_output = p.drop_stale_output,
         Ahead(q, v) = Ahead(p, u) + b,
         \/ Absent(f, r) /\ (v => u)
         \/ ~NewIn(f, r) /\ u
         \/ /\ NewIn(f, r) /\ PrefixIs(f, r, p.num_tokens)
            /\ p.num_stale_output_tokens = p.num_in_flight_tokens
            /\ p.drop_stale_output \/ p.num_stale_output_tokens = 0
            /\ Ahead(p, u) = 0
  PROVE  Tracked(q, r, step, Append(steps, f), v, s)
<1> DEFINE m == Len(steps) + 1
           g == Append(steps, f)
<1>1. PICK k \in 0 .. m : \E t, d \in [0 .. m -> Int] :
    /\ Lane(step, steps, r, t, d)
    /\ p.num_in_flight_tokens = t[m]
    /\ p.num_stale_output_tokens = t[k]
    /\ Ahead(p, u) = d[m] - d[k]
    /\ InOrder(step, steps, r, IF p.drop_stale_output THEN k ELSE 0, p.num_tokens, s, u)
  BY Zenon DEF Tracked
<1>2. PICK t \in [0 .. m -> Int], d \in [0 .. m -> Int] :
    /\ Lane(step, steps, r, t, d)
    /\ p.num_in_flight_tokens = t[m]
    /\ p.num_stale_output_tokens = t[k]
    /\ Ahead(p, u) = d[m] - d[k]
    /\ InOrder(step, steps, r, IF p.drop_stale_output THEN k ELSE 0, p.num_tokens, s, u)
  BY <1>1
<1>3. /\ Len(g) = m /\ Len(steps) \in Nat /\ m \in Nat \ {0}
      /\ \A i \in 0 .. Len(steps) : Nth(step, g, i) = Nth(step, steps, i)
      /\ Nth(step, g, m) = f
  <2>1. Len(g) = m /\ Len(steps) \in Nat /\ m \in Nat \ {0} /\ g[m] = f
        /\ \A i \in 1 .. Len(steps) : g[i] = steps[i]
    OBVIOUS
  <2> HIDE DEF g
  <2>2. QED BY <2>1 DEF Nth
<1>30. /\ m = Len(steps) + 1 /\ m \in 0 .. m /\ k \in 0 .. m
       /\ \A i \in 0 .. m : t[i] \in Int /\ d[i] \in Int /\ i # m + 1
  <2>1. m = Len(steps) + 1 /\ m \in 0 .. m
    BY <1>3
  <2>2. k \in 0 .. m /\ t \in [0 .. m -> Int] /\ d \in [0 .. m -> Int]
    OBVIOUS
  <2> HIDE DEF m
  <2>3. \A i \in 0 .. m : i # m + 1
    BY <1>3
  <2>4. QED BY <2>1, <2>2, <2>3
<1>4. /\ t[0] = 0 /\ d[0] = 0
      /\ \A i, j \in 0 .. m : i <= j => t[i] <= t[j] /\ d[i] <= d[j]
      /\ \A i \in 0 .. Len(steps) : Adds(Nth(step, steps, i), r, t[i + 1] - t[i], d[i + 1] - d[i])
  BY <1>2 DEF Lane
<1> HIDE DEF m
<1> DEFINE t2 == [i \in 0 .. m + 1 |-> IF i = m + 1 THEN t[m] + a ELSE t[i]]
           d2 == [i \in 0 .. m + 1 |-> IF i = m + 1 THEN d[m] + b ELSE d[i]]
<1>5. /\ t2 \in [0 .. m + 1 -> Int] /\ d2 \in [0 .. m + 1 -> Int]
      /\ t2[m + 1] = t[m] + a /\ d2[m + 1] = d[m] + b
      /\ \A i \in 0 .. m : t2[i] = t[i] /\ d2[i] = d[i]
  <2>1. m + 1 \in 0 .. m + 1 /\ \A i \in 0 .. m : i \in 0 .. m + 1
    BY <1>3
  <2>2. t[m] + a \in Int /\ d[m] + b \in Int
    <3>1. t[m] \in Int /\ d[m] \in Int
      BY <1>30
    <3>2. QED BY <3>1
  <2>3. \A i \in 0 .. m + 1 : i = m + 1 \/ i \in 0 .. m
    BY <1>3
  <2>4. QED BY <2>1, <2>2, <2>3, <1>30
<1> HIDE DEF t2, d2, g
<1>6. Lane(step, g, r, t2, d2)
  <2>1. ASSUME NEW i \in 0 .. m + 1, NEW j \in 0 .. m + 1, i <= j
        PROVE  t2[i] <= t2[j] /\ d2[i] <= d2[j]
    <3>1. CASE j \in 0 .. m
      <4>1. i \in 0 .. m
        BY <2>1, <3>1, <1>3
      <4>2. QED BY <4>1, <3>1, <2>1, <1>4, <1>5
    <3>2. CASE i = m + 1
      <4>1. j = m + 1
        BY <2>1, <3>2, <1>3
      <4>2. t2[m + 1] \in Int /\ d2[m + 1] \in Int
        BY <1>5, <1>3
      <4>3. QED BY <4>1, <4>2, <3>2
    <3>3. CASE i \in 0 .. m /\ j = m + 1
      <4>1. t[i] <= t[m] /\ d[i] <= d[m] /\ m \in 0 .. m /\ t[i] \in Int /\ d[i] \in Int
            /\ t[m] \in Int /\ d[m] \in Int
        BY <1>4, <1>30, <1>3, <3>3
      <4>2. t2[i] = t[i] /\ d2[i] = d[i] /\ t2[j] = t[m] + a /\ d2[j] = d[m] + b
        BY <3>3, <1>5
      <4>3. QED BY <4>1, <4>2
    <3>4. QED BY <3>1, <3>2, <3>3, <1>3
  <2>2. ASSUME NEW i \in 0 .. m
        PROVE  Adds(Nth(step, g, i), r, t2[i + 1] - t2[i], d2[i + 1] - d2[i])
    <3>1. CASE i \in 0 .. Len(steps)
      <4>1. i + 1 \in 0 .. m /\ i \in 0 .. m
        BY <3>1, <1>3, <1>30
      <4>2. t2[i + 1] = t[i + 1] /\ t2[i] = t[i] /\ d2[i + 1] = d[i + 1] /\ d2[i] = d[i]
        BY <4>1, <1>5
      <4>3. QED BY <4>2, <3>1, <1>3, <1>4
    <3>2. CASE i = m
      <4>1. t2[m + 1] = t[m] + a /\ t2[m] = t[m] /\ d2[m + 1] = d[m] + b /\ d2[m] = d[m]
            /\ t[m] \in Int /\ d[m] \in Int
        BY <1>5, <1>30
      <4>2. t2[m + 1] - t2[m] = a /\ d2[m + 1] - d2[m] = b
        BY <4>1
      <4>3. QED BY <4>2, <3>2, <1>3
    <3>3. QED BY <3>1, <3>2, <1>3, <1>30
  <2>3. t2[0] = 0 /\ d2[0] = 0
    BY <1>4, <1>5, <1>3
  <2>4. Len(g) + 1 = m + 1 /\ 0 .. Len(g) = 0 .. m
    BY <1>3
  <2>5. QED BY <2>1, <2>2, <2>3, <2>4, <1>5 DEF Lane
<1> DEFINE k2 == IF NewIn(f, r) THEN m ELSE k
<1>7. k2 \in 0 .. m /\ t[k2] = t[k] /\ Ahead(q, v) = d2[m + 1] - d2[k2]
  <2>1. CASE NewIn(f, r)
    <3>1. ~Absent(f, r)
      BY <2>1 DEF Absent, NewIn
    <3>2. p.num_stale_output_tokens = p.num_in_flight_tokens /\ Ahead(p, u) = 0
      BY <2>1, <3>1
    <3>3. m \in 0 .. m /\ d[m] \in Int
      BY <1>3
    <3>4. k2 = m
      BY <2>1
    <3>5. t[k2] = t[k]
      BY <3>2, <3>4, <1>2
    <3>6. d2[m + 1] = d[m] + b /\ d2[m] = d[m] /\ Ahead(q, v) = 0 + b
      BY <1>5, <3>2, <3>3
    <3>7. d2[m + 1] - d2[m] = b
      BY <3>6, <3>3
    <3>8. QED BY <3>3, <3>4, <3>5, <3>6, <3>7
  <2>2. CASE ~NewIn(f, r)
    <3>1. k2 = k
      BY <2>2
    <3>2. d2[m + 1] = d[m] + b /\ d2[k] = d[k] /\ Ahead(q, v) = (d[m] - d[k]) + b
          /\ d[m] \in Int /\ d[k] \in Int
      BY <1>5, <1>2, <1>30
    <3>3. QED BY <3>1, <3>2
  <2>3. QED BY <2>1, <2>2
<1> DEFINE c == IF p.drop_stale_output THEN k ELSE 0
           c2 == IF q.drop_stale_output THEN k2 ELSE 0
<1>8. InOrder(step, g, r, c2, q.num_tokens, s, v)
  <2>1. \A i : NewIn(Nth(step, g, i), r) => ~Absent(Nth(step, g, i), r)
    BY DEF NewIn, Absent
  <2>2. CASE ~NewIn(f, r)
    <3>1. c2 = c /\ c \in Nat /\ c <= m
      BY <2>2, <1>3
    <3> HIDE DEF c, c2, m
    <3>2. InOrder(step, steps, r, c, p.num_tokens, s, u)
      BY <1>2 DEF c
    <3>3. \A i \in c .. m : i \in c .. Len(steps) \/ i = m
      BY <3>1, <1>3 DEF m
    <3>4. c .. Len(steps) \subseteq c .. m /\ c .. Len(steps) \subseteq 0 .. Len(steps)
      BY <3>1, <1>3 DEF m
    <3>5. ASSUME NEW i \in c .. m, NewIn(Nth(step, g, i), r)
          PROVE  /\ PrefixIs(Nth(step, g, i), r, q.num_tokens)
                 /\ \A h \in c .. i - 1 : Absent(Nth(step, g, h), r)
      <4>1. i \in c .. Len(steps)
        BY <3>3, <3>5, <2>2, <1>3
      <4>2. \A h \in c .. i - 1 : h \in 0 .. Len(steps)
        BY <4>1, <3>1, <1>3
      <4>3. Nth(step, g, i) = Nth(step, steps, i)
        BY <4>1, <3>4, <1>3
      <4>4. QED BY <4>1, <4>2, <4>3, <3>2, <3>5, <1>3 DEF InOrder
    <3>6. ASSUME v \/ \E i \in c .. m : ~Absent(Nth(step, g, i), r), s # q.num_tokens
          PROVE  \E i \in c .. m : NewIn(Nth(step, g, i), r)
      <4>1. u \/ \E i \in c .. Len(steps) : ~Absent(Nth(step, steps, i), r)
        <5>1. CASE u
          BY <5>1
        <5>2. CASE ~u
          <6>1. Absent(f, r) /\ ~v
            BY <5>2, <2>2
          <6>2. PICK i \in c .. m : ~Absent(Nth(step, g, i), r)
            BY <3>6, <6>1
          <6>3. i \in c .. Len(steps)
            BY <6>1, <6>2, <3>3, <1>3
          <6>4. Nth(step, g, i) = Nth(step, steps, i)
            BY <6>3, <3>4, <1>3
          <6>5. QED BY <6>2, <6>3, <6>4
        <5>3. QED BY <5>1, <5>2
      <4>2. \E i \in c .. Len(steps) : NewIn(Nth(step, steps, i), r)
        BY <4>1, <3>2, <3>6 DEF InOrder
      <4>3. PICK i \in c .. Len(steps) : NewIn(Nth(step, steps, i), r)
        BY <4>2
      <4>4. Nth(step, g, i) = Nth(step, steps, i)
        BY <3>4, <1>3
      <4>5. QED BY <4>3, <4>4, <3>4
    <3>7. Len(g) = m
      BY <1>3
    <3>8. QED BY <3>1, <3>5, <3>6, <3>7 DEF InOrder
  <2>3. CASE NewIn(f, r)
    <3>1. /\ PrefixIs(f, r, p.num_tokens) /\ p.num_stale_output_tokens = p.num_in_flight_tokens
          /\ p.drop_stale_output \/ p.num_stale_output_tokens = 0
      BY <2>3 DEF NewIn, Absent
    <3>2. c2 \in 0 .. m
      BY <1>7, <1>3
    <3>3. \A h \in c2 .. m - 1 : Absent(Nth(step, g, h), r)
      <4>1. CASE p.drop_stale_output
        <5>1. c2 = m
          BY <4>1, <2>3
        <5>2. m .. m - 1 = {}
          BY <1>3
        <5> HIDE DEF m, c2
        <5>3. QED BY <5>1, <5>2
      <4>2. CASE ~p.drop_stale_output
        <5>1. t[m] = t[0]
          BY <3>1, <4>2, <1>2, <1>4
        <5>2. m \in 0 .. m /\ 0 \in 0 .. m
          BY <1>3
        <5>3. \A i \in 0 .. Len(steps) : \A j \in DOMAIN Nth(step, steps, i) : Nth(step, steps, i)[j].n > 0
          BY DEF Positive
        <5>4. \A h \in 0 .. m - 1 : Absent(Nth(step, steps, h), r)
          BY <1>2, <1>3, <1>30, <5>1, <5>2, <5>3, LaneFlat
        <5>5. c2 = 0
          BY <4>2
        <5>6. 0 .. m - 1 = 0 .. Len(steps)
          BY <1>3, <1>30
        <5> HIDE DEF m, c2
        <5>7. QED BY <5>4, <5>5, <5>6, <1>3
      <4>3. QED BY <4>1, <4>2
    <3> HIDE DEF c2, k2, m
    <3>4. ASSUME NEW i \in c2 .. m, NewIn(Nth(step, g, i), r) PROVE i = m
      <4>1. ~Absent(Nth(step, g, i), r)
        BY <2>1, <3>4
      <4>2. i \in c2 .. m - 1 \/ i = m
        BY <3>2, <1>3
      <4>3. QED BY <4>1, <4>2, <3>3
    <3>5. m \in c2 .. m /\ NewIn(Nth(step, g, m), r)
      BY <3>2, <2>3, <1>3
    <3>6. PrefixIs(Nth(step, g, m), r, q.num_tokens)
      BY <3>1, <1>3
    <3>7. Len(g) = m
      BY <1>3
    <3>8. QED BY <3>3, <3>4, <3>5, <3>6, <3>7 DEF InOrder
  <2>4. QED BY <2>2, <2>3
<1>9. /\ k2 \in 0 .. Len(g) + 1 /\ t2 \in [0 .. Len(g) + 1 -> Int] /\ d2 \in [0 .. Len(g) + 1 -> Int]
      /\ q.num_in_flight_tokens = t2[Len(g) + 1]
      /\ q.num_stale_output_tokens = t2[k2]
      /\ Ahead(q, v) = d2[Len(g) + 1] - d2[k2]
  <2>1. k2 \in 0 .. m + 1 /\ t2[k2] = t[k2]
    BY <1>7, <1>5, <1>3
  <2>2. p.num_in_flight_tokens + a = t2[m + 1] /\ p.num_stale_output_tokens = t2[k2]
    BY <2>1, <1>2, <1>5, <1>7
  <2>3. Len(g) + 1 = m + 1
    BY <1>3
  <2> HIDE DEF k2, m
  <2>4. QED BY <2>1, <2>2, <2>3, <1>5, <1>7
<1> HIDE DEF k2, m
<1>10. QED BY <1>6, <1>8, <1>9, Zenon DEF Tracked, c2, g


\* The oldest step is taken up, once nothing is left of the one before.
LEMMA TakeTracked ==
  ASSUME NEW A, NEW steps \in Seq(A), steps # <<>>, NEW p, NEW r, NEW step, NEW s,
         NEW u \in BOOLEAN, Absent(step, r), Tracked(p, r, step, steps, u, s),
         p.drop_stale_output \in BOOLEAN
  PROVE  Tracked(p, r, Head(steps), Tail(steps), u, s)
<1> DEFINE m == Len(steps)
           x == Head(steps)
           g == Tail(steps)
<1>1. PICK k \in 0 .. Len(steps) + 1 : \E t, d \in [0 .. Len(steps) + 1 -> Int] :
    /\ Lane(step, steps, r, t, d)
    /\ p.num_in_flight_tokens = t[Len(steps) + 1]
    /\ p.num_stale_output_tokens = t[k]
    /\ Ahead(p, u) = d[Len(steps) + 1] - d[k]
    /\ InOrder(step, steps, r, IF p.drop_stale_output THEN k ELSE 0, p.num_tokens, s, u)
  BY Zenon DEF Tracked
<1>2. PICK t \in [0 .. Len(steps) + 1 -> Int], d \in [0 .. Len(steps) + 1 -> Int] :
    /\ Lane(step, steps, r, t, d)
    /\ p.num_in_flight_tokens = t[Len(steps) + 1]
    /\ p.num_stale_output_tokens = t[k]
    /\ Ahead(p, u) = d[Len(steps) + 1] - d[k]
    /\ InOrder(step, steps, r, IF p.drop_stale_output THEN k ELSE 0, p.num_tokens, s, u)
  BY <1>1
<1>3. /\ m \in Nat \ {0} /\ Len(g) = m - 1
      /\ \A i \in 0 .. m - 1 : Nth(x, g, i) = Nth(step, steps, i + 1)
  <2>1. m \in Nat \ {0} /\ Len(g) = m - 1 /\ x = steps[1]
        /\ \A i \in 1 .. m - 1 : g[i] = steps[i + 1]
    OBVIOUS
  <2> HIDE DEF g, x
  <2>2. QED BY <2>1 DEF Nth
<1>4. /\ \A i \in 0 .. m + 1 : t[i] \in Int /\ d[i] \in Int
      /\ t[0] = 0 /\ d[0] = 0
      /\ \A i, j \in 0 .. m + 1 : i <= j => t[i] <= t[j] /\ d[i] <= d[j]
      /\ \A i \in 0 .. m : Adds(Nth(step, steps, i), r, t[i + 1] - t[i], d[i + 1] - d[i])
  BY <1>2 DEF Lane
<1>5. t[1] = 0 /\ d[1] = 0
  <2>1. 0 \in 0 .. m /\ 0 + 1 = 1 /\ 1 \in 0 .. m + 1
    BY <1>3
  <2>2. Adds(step, r, t[1] - t[0], d[1] - d[0])
    BY <2>1, <1>4 DEF Nth
  <2>3. t[1] - t[0] = 0 /\ d[1] - d[0] = 0
    BY <2>2 DEF Adds
  <2>4. t[1] \in Int /\ d[1] \in Int
    BY <2>1, <1>4
  <2>5. QED BY <2>3, <2>4, <1>4
<1> DEFINE t2 == [i \in 0 .. m |-> t[i + 1]]
           d2 == [i \in 0 .. m |-> d[i + 1]]
           k2 == IF k = 0 THEN 0 ELSE k - 1
           c == IF p.drop_stale_output THEN k ELSE 0
           c2 == IF p.drop_stale_output THEN k2 ELSE 0
<1>6. k \in 0 .. m + 1 /\ k2 \in 0 .. m /\ c2 \in Nat
      /\ (c = c2 + 1 \/ (c = 0 /\ c2 = 0))
      /\ ((k = 0 /\ k2 + 1 = 1) \/ k = k2 + 1)
  BY <1>3
<1>7. InOrder(step, steps, r, c, p.num_tokens, s, u)
  BY <1>2
<1>8. /\ t2 \in [0 .. m -> Int] /\ d2 \in [0 .. m -> Int]
      /\ \A i \in 0 .. m : t2[i] = t[i + 1] /\ d2[i] = d[i + 1] /\ i + 1 \in 0 .. m + 1
  <2>1. \A i \in 0 .. m : i + 1 \in 0 .. m + 1
    BY <1>3
  <2> HIDE DEF m
  <2>2. QED BY <2>1, <1>4
<1>9. p.num_in_flight_tokens = t[m + 1] /\ p.num_stale_output_tokens = t[k]
      /\ Ahead(p, u) = d[m + 1] - d[k]
  BY <1>2
<1> HIDE DEF t2, d2, k2, c, c2, m, g, x
<1>10. Lane(x, g, r, t2, d2)
  <2>1. \A i \in 0 .. m - 1 : i \in 0 .. m /\ i + 1 \in 0 .. m
    BY <1>3
  <2>2. \A i \in 0 .. m - 1 : Adds(Nth(x, g, i), r, t2[i + 1] - t2[i], d2[i + 1] - d2[i])
    BY <2>1, <1>3, <1>4, <1>8
  <2>3. \A i, j \in 0 .. m : i <= j => i + 1 <= j + 1
    BY <1>3
  <2>4. \A i, j \in 0 .. m : i <= j => t2[i] <= t2[j] /\ d2[i] <= d2[j]
    BY <2>3, <1>4, <1>8
  <2>5. 0 \in 0 .. m /\ 0 + 1 = 1
    BY <1>3
  <2>6. t2[0] = 0 /\ d2[0] = 0
    BY <2>5, <1>5, <1>8
  <2>7. Len(g) + 1 = m /\ Len(g) = m - 1
    BY <1>3
  <2>8. QED BY <2>2, <2>4, <2>6, <2>7, <1>8 DEF Lane
<1>11. InOrder(x, g, r, c2, p.num_tokens, s, u)
  <2>1. \A i \in c2 .. m - 1 : i + 1 \in c .. m /\ i \in 0 .. m - 1
        /\ \A h \in c2 .. i - 1 : h + 1 \in c .. (i + 1) - 1 /\ h \in 0 .. m - 1
    BY <1>3, <1>6
  <2>2. Len(g) = m - 1 /\ Len(steps) = m
    BY <1>3 DEF m
  <2>3. ASSUME NEW i \in c2 .. m - 1, NewIn(Nth(x, g, i), r)
        PROVE  /\ PrefixIs(Nth(x, g, i), r, p.num_tokens)
               /\ \A h \in c2 .. i - 1 : Absent(Nth(x, g, h), r)
    <3>1. Nth(x, g, i) = Nth(step, steps, i + 1) /\ i + 1 \in c .. m
          /\ \A h \in c2 .. i - 1 : Nth(x, g, h) = Nth(step, steps, h + 1)
      BY <2>1, <1>3
    <3>2. /\ PrefixIs(Nth(step, steps, i + 1), r, p.num_tokens)
          /\ \A h \in c .. (i + 1) - 1 : Absent(Nth(step, steps, h), r)
      BY <3>1, <2>2, <2>3, <1>7 DEF InOrder
    <3>3. QED BY <2>1, <3>1, <3>2
  <2>4. ASSUME u \/ \E i \in c2 .. m - 1 : ~Absent(Nth(x, g, i), r), s # p.num_tokens
        PROVE  \E i \in c2 .. m - 1 : NewIn(Nth(x, g, i), r)
    <3>1. u \/ \E i \in c .. m : ~Absent(Nth(step, steps, i), r)
      BY <2>1, <2>4, <1>3
    <3>2. PICK i \in c .. m : NewIn(Nth(step, steps, i), r)
      BY <3>1, <2>2, <2>4, <1>7 DEF InOrder
    <3>3. i # 0
      <4>1. ~NewIn(step, r)
        BY DEF NewIn, Absent
      <4>2. QED BY <4>1, <3>2 DEF Nth
    <3>4. i - 1 \in c2 .. m - 1 /\ i - 1 \in 0 .. m - 1 /\ (i - 1) + 1 = i
      BY <3>3, <1>3, <1>6
    <3>5. Nth(x, g, i - 1) = Nth(step, steps, i)
      BY <3>4, <1>3
    <3>6. QED BY <3>2, <3>4, <3>5
  <2>5. QED BY <2>2, <2>3, <2>4 DEF InOrder
<1>12. /\ p.num_in_flight_tokens = t2[m] /\ p.num_stale_output_tokens = t2[k2]
       /\ Ahead(p, u) = d2[m] - d2[k2]
  <2>1. m \in 0 .. m
    BY <1>3
  <2>2. t2[m] = t[m + 1] /\ d2[m] = d[m + 1] /\ t2[k2] = t[k2 + 1] /\ d2[k2] = d[k2 + 1]
    BY <2>1, <1>6, <1>8
  <2>3. t[k2 + 1] = t[k] /\ d[k2 + 1] = d[k]
    BY <1>4, <1>5, <1>6
  <2>4. QED BY <2>2, <2>3, <1>9
<1>13. Len(g) + 1 = m
  BY <1>3
<1>14. QED BY <1>6, <1>8, <1>10, <1>11, <1>12, <1>13, Zenon DEF Tracked, c2, g, x


\* A step that holds the same of r.
LEMMA TrackedBeside ==
  ASSUME NEW steps, Len(steps) \in Nat, NEW p, NEW r, NEW step, NEW step2, NEW s, NEW u \in BOOLEAN,
         Tracked(p, r, step, steps, u, s),
         \A j \in DOMAIN step2 : step2[j].req = r => \E i \in DOMAIN step : step[i] = step2[j],
         \A j \in DOMAIN step : step[j].req = r => \E i \in DOMAIN step2 : step2[i] = step[j]
  PROVE  Tracked(p, r, step2, steps, u, s)
<1>1. /\ Absent(step2, r) <=> Absent(step, r)
      /\ NewIn(step2, r) <=> NewIn(step, r)
      /\ \A n : PrefixIs(step, r, n) => PrefixIs(step2, r, n)
      /\ \A a, b : Adds(step, r, a, b) => Adds(step2, r, a, b)
  <2>1. Absent(step2, r) <=> Absent(step, r)
    BY DEF Absent
  <2>2. NewIn(step2, r) <=> NewIn(step, r)
    BY DEF NewIn
  <2>3. \A n : PrefixIs(step, r, n) => PrefixIs(step2, r, n)
    BY DEF PrefixIs
  <2>4. ASSUME NEW a, NEW b, Adds(step, r, a, b) PROVE Adds(step2, r, a, b)
    BY <2>1, <2>4 DEF Adds
  <2>5. QED BY <2>1, <2>2, <2>3, <2>4
<1>2. \A i : i # 0 => Nth(step2, steps, i) = Nth(step, steps, i)
  BY DEF Nth
<1>3. Nth(step2, steps, 0) = step2 /\ Nth(step, steps, 0) = step
  BY DEF Nth
<1>4. \A i : /\ Absent(Nth(step2, steps, i), r) <=> Absent(Nth(step, steps, i), r)
             /\ NewIn(Nth(step2, steps, i), r) <=> NewIn(Nth(step, steps, i), r)
             /\ \A n : PrefixIs(Nth(step, steps, i), r, n) => PrefixIs(Nth(step2, steps, i), r, n)
             /\ \A a, b : Adds(Nth(step, steps, i), r, a, b) => Adds(Nth(step2, steps, i), r, a, b)
  BY <1>1, <1>2, <1>3
<1>5. \A t, d : Lane(step, steps, r, t, d) => Lane(step2, steps, r, t, d)
  BY <1>4 DEF Lane
<1>6. \A c, n : InOrder(step, steps, r, c, n, s, u) => InOrder(step2, steps, r, c, n, s, u)
  BY <1>4, SMTT(30) DEF InOrder
<1>7. QED BY <1>5, <1>6, ZenonT(60) DEF Tracked

\* An entry of the oldest step is the first that is in flight of its request.
LEMMA FirstInFlight ==
  ASSUME NEW steps, Len(steps) \in Nat, NEW p, NEW r, NEW step, NEW s, NEW u \in BOOLEAN,
         Tracked(p, r, step, steps, u, s), p.drop_stale_output \in BOOLEAN,
         NEW j \in DOMAIN step, step[j].req = r, step[j].n > 0, step[j].n \in Int
  PROVE  \E k \in 0 .. Len(steps) + 1 : \E t, d \in [0 .. Len(steps) + 1 -> Int] :
           /\ Lane(step, steps, r, t, d)
           /\ p.num_in_flight_tokens = t[Len(steps) + 1]
           /\ p.num_stale_output_tokens = t[k]
           /\ Ahead(p, u) = d[Len(steps) + 1] - d[k]
           /\ InOrder(step, steps, r, IF p.drop_stale_output THEN k ELSE 0, p.num_tokens, s, u)
           /\ t[1] = step[j].n /\ d[1] = Due(step[j]) /\ t[0] = 0 /\ d[0] = 0
           /\ p.num_stale_output_tokens \in Int /\ p.num_stale_output_tokens >= 0
           /\ p.num_stale_output_tokens > 0 => k >= 1 /\ p.num_stale_output_tokens >= step[j].n
           /\ ~(p.num_stale_output_tokens > 0) => k = 0
           /\ step[j].drafts >= 0 /\ p.num_in_flight_tokens >= step[j].n
<1>1. PICK k \in 0 .. Len(steps) + 1 : \E t, d \in [0 .. Len(steps) + 1 -> Int] :
    /\ Lane(step, steps, r, t, d)
    /\ p.num_in_flight_tokens = t[Len(steps) + 1]
    /\ p.num_stale_output_tokens = t[k]
    /\ Ahead(p, u) = d[Len(steps) + 1] - d[k]
    /\ InOrder(step, steps, r, IF p.drop_stale_output THEN k ELSE 0, p.num_tokens, s, u)
  BY Zenon DEF Tracked
<1>2. PICK t \in [0 .. Len(steps) + 1 -> Int], d \in [0 .. Len(steps) + 1 -> Int] :
    /\ Lane(step, steps, r, t, d)
    /\ p.num_in_flight_tokens = t[Len(steps) + 1]
    /\ p.num_stale_output_tokens = t[k]
    /\ Ahead(p, u) = d[Len(steps) + 1] - d[k]
    /\ InOrder(step, steps, r, IF p.drop_stale_output THEN k ELSE 0, p.num_tokens, s, u)
  BY <1>1
<1>3. /\ t[0] = 0 /\ d[0] = 0
      /\ \A i, h \in 0 .. Len(steps) + 1 : i <= h => t[i] <= t[h]
      /\ Adds(Nth(step, steps, 0), r, t[0 + 1] - t[0], d[0 + 1] - d[0])
  BY <1>2 DEF Lane
<1>4. t[1] \in Int /\ d[1] \in Int /\ t[k] \in Int /\ 1 \in 0 .. Len(steps) + 1 /\ 0 \in 0 .. Len(steps) + 1
  BY <1>2
<1>5. t[1] = step[j].n /\ d[1] = Due(step[j])
  <2>1. t[1] - t[0] = step[j].n /\ d[1] - d[0] = Due(step[j])
    BY <1>3 DEF Adds, Nth
  <2>2. QED BY <2>1, <1>3, <1>4
<1>6. p.num_stale_output_tokens = t[k] /\ t[0] <= t[k] /\ (k >= 1 => t[1] <= t[k]) /\ k \in Nat
  BY <1>2, <1>3, <1>4
<1>7. /\ p.num_stale_output_tokens \in Int /\ p.num_stale_output_tokens >= 0
      /\ p.num_stale_output_tokens > 0 => k >= 1 /\ p.num_stale_output_tokens >= step[j].n
      /\ ~(p.num_stale_output_tokens > 0) => k = 0
  BY <1>3, <1>4, <1>5, <1>6
<1>8. step[j].drafts >= 0
  BY <1>3 DEF Adds, Nth
<1>9. p.num_in_flight_tokens >= step[j].n
  <2>1. 1 <= Len(steps) + 1 /\ Len(steps) + 1 \in 0 .. Len(steps) + 1
    OBVIOUS
  <2>2. t[1] <= t[Len(steps) + 1] /\ t[Len(steps) + 1] \in Int
    BY <2>1, <1>3, <1>4
  <2>3. p.num_in_flight_tokens = t[Len(steps) + 1]
    BY <1>2
  <2> DEFINE x == t[Len(steps) + 1]
             n == step[j].n
  <2>4. n <= x /\ x \in Int /\ n \in Int
    BY <2>2, <1>5
  <2>5. p.num_in_flight_tokens = x
    BY <2>3
  <2> HIDE DEF x, n
  <2>6. p.num_in_flight_tokens >= n
    BY <2>4, <2>5
  <2>7. QED BY <2>6 DEF n
<1>10. QED BY <1>2, <1>3, <1>5, <1>7, <1>8, <1>9, Zenon

Less(t2, t, m) == t2[0] = 0 /\ \A i \in 1 .. m : t2[i] = t[i] - t[1]

\* The entry is taken out of the lane.
LEMMA LaneShorter ==
  ASSUME NEW steps, Len(steps) \in Nat, NEW r, NEW step, NEW step2, Absent(step2, r),
         NEW t, NEW d, Lane(step, steps, r, t, d)
  PROVE  \E t2, d2 :
           /\ Lane(step2, steps, r, t2, d2)
           /\ Less(t2, t, Len(steps) + 1) /\ Less(d2, d, Len(steps) + 1)
<1> DEFINE m == Len(steps)
           t2 == [i \in 0 .. m + 1 |-> IF i = 0 THEN 0 ELSE t[i] - t[1]]
           d2 == [i \in 0 .. m + 1 |-> IF i = 0 THEN 0 ELSE d[i] - d[1]]
<1>1. /\ \A i \in 0 .. m + 1 : t[i] \in Int /\ d[i] \in Int
      /\ t[0] = 0 /\ d[0] = 0
      /\ \A i, j \in 0 .. m + 1 : i <= j => t[i] <= t[j] /\ d[i] <= d[j]
      /\ \A i \in 0 .. m : Adds(Nth(step, steps, i), r, t[i + 1] - t[i], d[i + 1] - d[i])
  BY DEF Lane
<1>2. 1 \in 0 .. m + 1 /\ 0 \in 0 .. m + 1 /\ m + 1 \in 0 .. m + 1 /\ m \in Nat
      /\ t[1] \in Int /\ d[1] \in Int
  BY <1>1
<1>3. /\ t2 \in [0 .. m + 1 -> Int] /\ d2 \in [0 .. m + 1 -> Int]
      /\ t2[0] = 0 /\ d2[0] = 0
      /\ \A i \in 1 .. m + 1 : t2[i] = t[i] - t[1] /\ d2[i] = d[i] - d[1] /\ i \in 0 .. m + 1
  <2>1. \A i \in 0 .. m + 1 : t[i] - t[1] \in Int /\ d[i] - d[1] \in Int
    BY <1>1, <1>2
  <2>2. \A i \in 1 .. m + 1 : i \in 0 .. m + 1 /\ i # 0
    BY <1>2
  <2> HIDE DEF m
  <2>3. QED BY <2>1, <2>2, <1>2
<1> HIDE DEF t2, d2, m
<1>4. \A i \in 0 .. m + 1 : i = 0 \/ i \in 1 .. m + 1
  BY <1>2
<1>5. \A i, j \in 0 .. m + 1 : i <= j => t2[i] <= t2[j] /\ d2[i] <= d2[j]
  <2> TAKE i, j \in 0 .. m + 1
  <2> HAVE i <= j
  <2>1. CASE i \in 1 .. m + 1
    <3>1. j \in 1 .. m + 1
      BY <2>1, <1>2
    <3>2. t[i] <= t[j] /\ d[i] <= d[j] /\ t[i] \in Int /\ t[j] \in Int /\ d[i] \in Int /\ d[j] \in Int
      BY <1>1
    <3>3. t2[i] = t[i] - t[1] /\ t2[j] = t[j] - t[1] /\ d2[i] = d[i] - d[1] /\ d2[j] = d[j] - d[1]
      BY <2>1, <3>1, <1>3
    <3>4. QED BY <3>2, <3>3, <1>2
  <2>2. CASE i = 0 /\ j \in 1 .. m + 1
    <3>1. t[1] <= t[j] /\ d[1] <= d[j] /\ t[j] \in Int /\ d[j] \in Int
      BY <2>2, <1>1, <1>2
    <3>2. t2[j] = t[j] - t[1] /\ d2[j] = d[j] - d[1]
      BY <2>2, <1>3
    <3>3. 0 <= t2[j] /\ 0 <= d2[j]
      BY <3>1, <3>2, <1>2
    <3>4. t2[i] = 0 /\ d2[i] = 0
      BY <2>2, <1>3
    <3>5. QED BY <3>3, <3>4
  <2>3. CASE i = 0 /\ j = 0
    BY <2>3, <1>3
  <2>4. QED BY <2>1, <2>2, <2>3, <1>4
<1>6. ASSUME NEW i \in 0 .. m
      PROVE  Adds(Nth(step2, steps, i), r, t2[i + 1] - t2[i], d2[i + 1] - d2[i])
  <2>1. CASE i = 0
    <3>1. t2[1] = t[1] - t[1] /\ d2[1] = d[1] - d[1] /\ 0 + 1 = 1
      BY <1>2, <1>3
    <3>2. t2[0 + 1] - t2[0] = 0 /\ d2[0 + 1] - d2[0] = 0
      BY <3>1, <1>2, <1>3
    <3>3. Adds(step2, r, 0, 0)
      BY DEF Adds, Absent
    <3>4. Nth(step2, steps, 0) = step2
      BY DEF Nth
    <3>5. QED BY <2>1, <3>2, <3>3, <3>4
  <2>2. CASE i # 0
    <3>1. i \in 1 .. m + 1 /\ i + 1 \in 1 .. m + 1 /\ i \in 0 .. m + 1 /\ i + 1 \in 0 .. m + 1
      BY <2>2, <1>2
    <3>2. t2[i] = t[i] - t[1] /\ t2[i + 1] = t[i + 1] - t[1]
          /\ d2[i] = d[i] - d[1] /\ d2[i + 1] = d[i + 1] - d[1]
      BY <3>1, <1>3
    <3>6. t[i] \in Int /\ t[i + 1] \in Int /\ d[i] \in Int /\ d[i + 1] \in Int
      BY <3>1, <1>1
    <3>3. t2[i + 1] - t2[i] = t[i + 1] - t[i] /\ d2[i + 1] - d2[i] = d[i + 1] - d[i]
      <4> DEFINE x1 == t[i]  x2 == t[i + 1]  y1 == d[i]  y2 == d[i + 1]  z1 == t[1]  z2 == d[1]
      <4>1. x1 \in Int /\ x2 \in Int /\ y1 \in Int /\ y2 \in Int /\ z1 \in Int /\ z2 \in Int
        BY <3>6, <1>2
      <4>2. t2[i] = x1 - z1 /\ t2[i + 1] = x2 - z1 /\ d2[i] = y1 - z2 /\ d2[i + 1] = y2 - z2
        BY <3>2
      <4> HIDE DEF x1, x2, y1, y2, z1, z2
      <4>3. (x2 - z1) - (x1 - z1) = x2 - x1 /\ (y2 - z2) - (y1 - z2) = y2 - y1
        BY <4>1
      <4>4. t2[i + 1] - t2[i] = x2 - x1 /\ d2[i + 1] - d2[i] = y2 - y1
        BY <4>2, <4>3
      <4>5. QED BY <4>4 DEF x1, x2, y1, y2
    <3>4. Nth(step2, steps, i) = Nth(step, steps, i)
      BY <2>2 DEF Nth
    <3>5. QED BY <3>3, <3>4, <1>1
  <2>3. QED BY <2>1, <2>2
<1>7. Lane(step2, steps, r, t2, d2)
  BY <1>3, <1>5, <1>6 DEF Lane, m
<1>8. Less(t2, t, m + 1) /\ Less(d2, d, m + 1)
  BY <1>3 DEF Less
<1>9. QED BY <1>7, <1>8 DEF m


\* What an entry of the oldest step meets: its tokens are in flight; if they
\* are stale, all of them are; else what it can add is awaited.  And unless its
\* output is to be dropped, the runner samples it from the request's count on.
LEMMA EntryMeets ==
  ASSUME NEW steps, Len(steps) \in Nat, NEW p, NEW r, NEW step, NEW s, NEW u \in BOOLEAN,
         Tracked(p, r, step, steps, u, s), p.drop_stale_output \in BOOLEAN,
         NEW j \in DOMAIN step, step[j].req = r, step[j].n > 0, step[j].n \in Int,
         \A i \in DOMAIN step : step[i].req = r => i = j
  PROVE  /\ step[j].drafts >= 0 /\ p.num_in_flight_tokens >= step[j].n
         /\ ~(p.num_stale_output_tokens > 0) /\ Due(step[j]) \in Int => Ahead(p, u) >= Due(step[j])
         /\ ~(p.num_stale_output_tokens > 0 /\ p.drop_stale_output) =>
              /\ p.num_tokens = IF step[j].prefix > 0 THEN step[j].prefix ELSE s
              /\ \A i \in 1 .. Len(steps) : ~NewIn(Nth(step, steps, i), r)
<1>10. PICK k \in 0 .. Len(steps) + 1 : \E t, d \in [0 .. Len(steps) + 1 -> Int] :
           /\ Lane(step, steps, r, t, d)
           /\ p.num_in_flight_tokens = t[Len(steps) + 1]
           /\ p.num_stale_output_tokens = t[k]
           /\ Ahead(p, u) = d[Len(steps) + 1] - d[k]
           /\ InOrder(step, steps, r, IF p.drop_stale_output THEN k ELSE 0, p.num_tokens, s, u)
           /\ t[1] = step[j].n /\ d[1] = Due(step[j]) /\ t[0] = 0 /\ d[0] = 0
           /\ p.num_stale_output_tokens \in Int /\ p.num_stale_output_tokens >= 0
           /\ p.num_stale_output_tokens > 0 => k >= 1 /\ p.num_stale_output_tokens >= step[j].n
           /\ ~(p.num_stale_output_tokens > 0) => k = 0
           /\ step[j].drafts >= 0 /\ p.num_in_flight_tokens >= step[j].n
  BY FirstInFlight
<1>1. PICK t \in [0 .. Len(steps) + 1 -> Int], d \in [0 .. Len(steps) + 1 -> Int] :
           /\ Lane(step, steps, r, t, d)
           /\ p.num_in_flight_tokens = t[Len(steps) + 1]
           /\ p.num_stale_output_tokens = t[k]
           /\ Ahead(p, u) = d[Len(steps) + 1] - d[k]
           /\ InOrder(step, steps, r, IF p.drop_stale_output THEN k ELSE 0, p.num_tokens, s, u)
           /\ t[1] = step[j].n /\ d[1] = Due(step[j]) /\ t[0] = 0 /\ d[0] = 0
           /\ p.num_stale_output_tokens \in Int /\ p.num_stale_output_tokens >= 0
           /\ p.num_stale_output_tokens > 0 => k >= 1 /\ p.num_stale_output_tokens >= step[j].n
           /\ ~(p.num_stale_output_tokens > 0) => k = 0
           /\ step[j].drafts >= 0 /\ p.num_in_flight_tokens >= step[j].n
  BY <1>10
<1>2. ASSUME ~(p.num_stale_output_tokens > 0), Due(step[j]) \in Int
      PROVE  Ahead(p, u) >= Due(step[j])
  <2>1. 1 \in 0 .. Len(steps) + 1 /\ Len(steps) + 1 \in 0 .. Len(steps) + 1 /\ 1 <= Len(steps) + 1
    OBVIOUS
  <2>2. d[1] <= d[Len(steps) + 1] /\ d[Len(steps) + 1] \in Int
    BY <2>1, <1>1 DEF Lane
  <2>3. Ahead(p, u) = d[Len(steps) + 1] - d[0] /\ d[0] = 0 /\ d[1] = Due(step[j])
    BY <1>1, <1>2
  <2> DEFINE x == d[Len(steps) + 1]
             y == Due(step[j])
             z == Ahead(p, u)
  <2>4. z = x - 0 /\ y <= x /\ x \in Int /\ y \in Int
    BY <2>2, <2>3, <1>2
  <2> HIDE DEF x, y, z
  <2>5. z >= y
    BY <2>4
  <2>6. QED BY <2>5 DEF y, z
<1>3. ASSUME ~(p.num_stale_output_tokens > 0 /\ p.drop_stale_output)
      PROVE  /\ p.num_tokens = IF step[j].prefix > 0 THEN step[j].prefix ELSE s
             /\ \A i \in 1 .. Len(steps) : ~NewIn(Nth(step, steps, i), r)
  <2>1. InOrder(step, steps, r, 0, p.num_tokens, s, u)
    <3>1. (IF p.drop_stale_output THEN k ELSE 0) = 0
      BY <1>1, <1>3
    <3>2. InOrder(step, steps, r, IF p.drop_stale_output THEN k ELSE 0, p.num_tokens, s, u)
      BY <1>1
    <3>3. QED BY <3>1, <3>2
  <2>2. ~Absent(Nth(step, steps, 0), r) /\ Nth(step, steps, 0) = step /\ 0 \in 0 .. Len(steps)
    BY DEF Absent, Nth
  <2>3. \A i \in 1 .. Len(steps) : ~NewIn(Nth(step, steps, i), r)
    <3> SUFFICES ASSUME NEW i \in 1 .. Len(steps), NewIn(Nth(step, steps, i), r) PROVE FALSE
      OBVIOUS
    <3>1. i \in 0 .. Len(steps) /\ 0 \in 0 .. i - 1
      OBVIOUS
    <3>2. Absent(Nth(step, steps, 0), r)
      BY <3>1, <2>1 DEF InOrder
    <3>3. QED BY <3>2, <2>2
  <2>4. s = p.num_tokens \/ NewIn(step, r)
    <3>1. s = p.num_tokens \/ \E i \in 0 .. Len(steps) : NewIn(Nth(step, steps, i), r)
      BY <2>1, <2>2 DEF InOrder
    <3>2. \A i \in 0 .. Len(steps) : i = 0 \/ i \in 1 .. Len(steps)
      OBVIOUS
    <3>3. QED BY <3>1, <3>2, <2>2, <2>3
  <2>5. CASE step[j].prefix > 0
    <3>1. NewIn(step, r)
      BY <2>5 DEF NewIn
    <3>2. PrefixIs(step, r, p.num_tokens)
      BY <3>1, <2>1, <2>2 DEF InOrder
    <3>3. step[j].prefix = p.num_tokens
      BY <3>2, <2>5 DEF PrefixIs
    <3>4. QED BY <3>3, <2>3, <2>5
  <2>6. CASE ~(step[j].prefix > 0)
    <3>1. ~NewIn(step, r)
      BY <2>6 DEF NewIn
    <3>2. QED BY <3>1, <2>3, <2>4, <2>6
  <2>7. QED BY <2>5, <2>6
<1>4. QED BY <1>1, <1>2, <1>3

\* The entry is answered: its stale output is dropped, or its tokens given.
LEMMA AnswerTracked ==
  ASSUME NEW steps, Len(steps) \in Nat, NEW p, NEW q, NEW r, NEW step, NEW step2, NEW s, NEW s2,
         NEW u \in BOOLEAN,
         Tracked(p, r, step, steps, u, s), p.drop_stale_output \in BOOLEAN,
         NEW j \in DOMAIN step, step[j].req = r, step[j].n > 0, step[j].n \in Int,
         \A i \in DOMAIN step : step[i].req = r => i = j, Absent(step2, r),
         Due(step[j]) \in Int,
         q.num_in_flight_tokens = p.num_in_flight_tokens - step[j].n,
         q.num_stale_output_tokens = IF p.num_stale_output_tokens > 0
           THEN p.num_stale_output_tokens - step[j].n ELSE p.num_stale_output_tokens,
         q.drop_stale_output = p.drop_stale_output,
         Ahead(q, u) = IF p.num_stale_output_tokens > 0 THEN Ahead(p, u)
                       ELSE Ahead(p, u) - Due(step[j]),
         IF p.num_stale_output_tokens > 0 /\ p.drop_stale_output
         THEN s2 = s /\ q.num_tokens = p.num_tokens ELSE s2 = q.num_tokens
  PROVE  Tracked(q, r, step2, steps, u, s2)
<1> DEFINE m == Len(steps) + 1
           n == step[j].n
           due == Due(step[j])
           stale == p.num_stale_output_tokens > 0
<1>10. PICK k \in 0 .. Len(steps) + 1 : \E t, d \in [0 .. Len(steps) + 1 -> Int] :
           /\ Lane(step, steps, r, t, d)
           /\ p.num_in_flight_tokens = t[Len(steps) + 1]
           /\ p.num_stale_output_tokens = t[k]
           /\ Ahead(p, u) = d[Len(steps) + 1] - d[k]
           /\ InOrder(step, steps, r, IF p.drop_stale_output THEN k ELSE 0, p.num_tokens, s, u)
           /\ t[1] = step[j].n /\ d[1] = Due(step[j]) /\ t[0] = 0 /\ d[0] = 0
           /\ p.num_stale_output_tokens \in Int /\ p.num_stale_output_tokens >= 0
           /\ p.num_stale_output_tokens > 0 => k >= 1 /\ p.num_stale_output_tokens >= step[j].n
           /\ ~(p.num_stale_output_tokens > 0) => k = 0
           /\ step[j].drafts >= 0 /\ p.num_in_flight_tokens >= step[j].n
  BY FirstInFlight
<1>1. PICK t \in [0 .. Len(steps) + 1 -> Int], d \in [0 .. Len(steps) + 1 -> Int] :
           /\ Lane(step, steps, r, t, d)
           /\ p.num_in_flight_tokens = t[Len(steps) + 1]
           /\ p.num_stale_output_tokens = t[k]
           /\ Ahead(p, u) = d[Len(steps) + 1] - d[k]
           /\ InOrder(step, steps, r, IF p.drop_stale_output THEN k ELSE 0, p.num_tokens, s, u)
           /\ t[1] = step[j].n /\ d[1] = Due(step[j]) /\ t[0] = 0 /\ d[0] = 0
           /\ p.num_stale_output_tokens \in Int /\ p.num_stale_output_tokens >= 0
           /\ p.num_stale_output_tokens > 0 => k >= 1 /\ p.num_stale_output_tokens >= step[j].n
           /\ ~(p.num_stale_output_tokens > 0) => k = 0
           /\ step[j].drafts >= 0 /\ p.num_in_flight_tokens >= step[j].n
  BY <1>10
<1>20. Lane(step, steps, r, t, d)
  BY <1>1
<1>21. PICK t2, d2 : /\ Lane(step2, steps, r, t2, d2)
                     /\ Less(t2, t, Len(steps) + 1) /\ Less(d2, d, Len(steps) + 1)
  BY <1>20, LaneShorter
<1>2. /\ Lane(step2, steps, r, t2, d2) /\ t2 \in [0 .. m -> Int] /\ d2 \in [0 .. m -> Int]
      /\ t2[0] = 0 /\ d2[0] = 0
      /\ \A i \in 1 .. m : t2[i] = t[i] - t[1] /\ d2[i] = d[i] - d[1]
  BY <1>21 DEF Less, Lane
<1>3. m \in 1 .. m /\ m \in 0 .. m /\ t[m] \in Int /\ d[m] \in Int /\ t[k] \in Int /\ d[k] \in Int
  OBVIOUS
<1>4. t2[m] = t[m] - n /\ d2[m] = d[m] - due
  BY <1>1, <1>2, <1>3
<1>5. /\ q.num_in_flight_tokens = t2[m] /\ q.num_stale_output_tokens = t2[k]
      /\ Ahead(q, u) = d2[m] - d2[k]
  <2>1. CASE stale
    <3>1. k \in 1 .. m
      BY <1>1, <2>1
    <3>2. t2[k] = t[k] - n /\ d2[k] = d[k] - due
      BY <3>1, <1>1, <1>2
    <3>3. Ahead(q, u) = d[m] - d[k] /\ q.num_stale_output_tokens = t[k] - n
      BY <2>1, <1>1
    <3>4. due \in Int
      OBVIOUS
    <3> HIDE DEF due, n, m
    <3>5. (d[m] - due) - (d[k] - due) = d[m] - d[k]
      BY <3>4, <1>3
    <3>6. d2[m] - d2[k] = d[m] - d[k]
      BY <3>2, <3>5, <1>4
    <3>7. q.num_in_flight_tokens = t[m] - n
      BY <1>1 DEF n, m
    <3>8. QED BY <3>2, <3>3, <3>6, <3>7, <1>4
  <2>2. CASE ~stale
    <3>1. k = 0 /\ t[k] = 0 /\ d[k] = 0
      BY <1>1, <2>2
    <3>2. Ahead(q, u) = (d[m] - 0) - due /\ q.num_stale_output_tokens = 0
      BY <3>1, <2>2, <1>1
    <3>3. due \in Int
      OBVIOUS
    <3>4. q.num_in_flight_tokens = t[m] - n
      BY <1>1
    <3> HIDE DEF due, n, m
    <3>5. (d[m] - 0) - due = (d[m] - due) - 0
      BY <3>3, <1>3
    <3>6. t2[k] = 0 /\ d2[k] = 0
      BY <3>1, <1>2
    <3>7. QED BY <3>2, <3>4, <3>5, <3>6, <1>4
  <2>3. QED BY <2>1, <2>2
<1> DEFINE c == IF q.drop_stale_output THEN k ELSE 0
<1>6. InOrder(step2, steps, r, c, q.num_tokens, s2, u)
  <2>1. \A i : i # 0 => Nth(step2, steps, i) = Nth(step, steps, i)
    BY DEF Nth
  <2>2. CASE stale /\ p.drop_stale_output
    <3>1. c = k /\ k >= 1 /\ k \in Nat
      BY <2>2, <1>1
    <3>2. InOrder(step, steps, r, k, p.num_tokens, s, u)
      BY <2>2, <1>1
    <3>3. s2 = s /\ q.num_tokens = p.num_tokens
      BY <2>2
    <3>4. \A i \in k .. Len(steps) : i # 0 /\ \A h \in k .. i - 1 : h # 0
      BY <3>1
    <3>5. \A i \in k .. Len(steps) : Nth(step2, steps, i) = Nth(step, steps, i)
                                     /\ \A h \in k .. i - 1 : Nth(step2, steps, h) = Nth(step, steps, h)
      BY <3>4, <2>1
    <3> HIDE DEF c
    <3>6. QED BY <3>1, <3>2, <3>3, <3>5, SMTT(30) DEF InOrder
  <2>3. CASE ~(stale /\ p.drop_stale_output)
    <3>1. \A i \in 1 .. Len(steps) : ~NewIn(Nth(step, steps, i), r)
      BY <2>3, EntryMeets
    <3>2. ~NewIn(Nth(step2, steps, 0), r)
      BY DEF NewIn, Absent, Nth
    <3>3. c = 0
      BY <2>3, <1>1
    <3>4. \A i \in 0 .. Len(steps) : i = 0 \/ i \in 1 .. Len(steps)
      OBVIOUS
    <3>5. \A i \in 0 .. Len(steps) : ~NewIn(Nth(step2, steps, i), r)
      BY <3>1, <3>2, <3>4, <2>1
    <3>6. s2 = q.num_tokens
      BY <2>3
    <3> HIDE DEF c
    <3>7. QED BY <3>3, <3>5, <3>6 DEF InOrder
  <2>4. QED BY <2>2, <2>3
<1> HIDE DEF n, due, stale
<1>7. QED BY <1>2, <1>5, <1>6, Zenon DEF Tracked

\* What is in flight, stale and awaited is never less than nothing.
LEMMA TrackedBounds ==
  ASSUME NEW steps, Len(steps) \in Nat, NEW p, NEW r, NEW step, NEW s, NEW u \in BOOLEAN,
         Tracked(p, r, step, steps, u, s)
  PROVE  /\ p.num_in_flight_tokens \in Nat /\ p.num_stale_output_tokens \in Nat
         /\ Ahead(p, u) \in Nat
<1> DEFINE m == Len(steps) + 1
<1>1. PICK k \in 0 .. m : \E t, d \in [0 .. m -> Int] :
    /\ Lane(step, steps, r, t, d)
    /\ p.num_in_flight_tokens = t[m]
    /\ p.num_stale_output_tokens = t[k]
    /\ Ahead(p, u) = d[m] - d[k]
  BY Zenon DEF Tracked
<1>2. PICK t \in [0 .. m -> Int], d \in [0 .. m -> Int] :
    /\ Lane(step, steps, r, t, d)
    /\ p.num_in_flight_tokens = t[m]
    /\ p.num_stale_output_tokens = t[k]
    /\ Ahead(p, u) = d[m] - d[k]
  BY <1>1
<1>3. /\ t[0] = 0 /\ \A i, h \in 0 .. m : i <= h => t[i] <= t[h] /\ d[i] <= d[h]
  BY <1>2 DEF Lane
<1>4. 0 \in 0 .. m /\ m \in 0 .. m /\ 0 <= m /\ 0 <= k /\ k <= m
      /\ t[m] \in Int /\ t[k] \in Int /\ d[m] \in Int /\ d[k] \in Int
  OBVIOUS
<1>5. 0 <= t[m] /\ 0 <= t[k] /\ d[k] <= d[m]
  BY <1>3, <1>4
<1>6. QED BY <1>2, <1>4, <1>5


\* The running requests whose admission is behind them: launched before, or
\* scheduled in this step from `running`.
Settled(r) ==
  /\ request[r].status = "RUNNING"
  /\ \A j \in DOMAIN loc.batch : loc.batch[j].req = r => ~loc.batch[j].new

Steady(q, r, settled) ==
  /\ q.num_output_placeholders = IF Depth > 1 THEN Ahead(q, settled) ELSE 0
  /\ q.status = "RUNNING" /\ q.num_stale_output_tokens > 0 => q.drop_stale_output
  /\ ~settled => q.num_stale_output_tokens = q.num_in_flight_tokens
  /\ q.num_spec >= 0 /\ q.num_tokens >= PromptLen[r]
  /\ r \notin Sessions => /\ q.num_prompt_tokens = PromptLen[r]
                          /\ q.status # "RUNNING" => q.num_computed_tokens = 0
  /\ q.status = "WAITING_FOR_STREAMING_REQ" => r \in Sessions /\ q.num_computed_tokens + 1 >= q.num_tokens

Fine(q, r, step, steps, settled, s) ==
  /\ Steady(q, r, settled)
  /\ q.status # "FINISHED" => Tracked(q, r, step, steps, settled, s)

AllFine == \A r \in Reqs : Fine(request[r], r, todo, inflight, Settled(r), sampled[r])

FinishedToldOnce == \A r \in finished_req_ids : request[r].status = "FINISHED"

\* The tokens past a request's own and its placeholders are drafts.
DraftsRight(e) ==
  LET q == request[e.req]
  IN  e.drafts = AtLeast(q.num_computed_tokens + e.n - q.num_tokens - q.num_output_placeholders, 0)

Wanted(q, n) ==
  n <= q.num_tokens + q.num_spec + q.num_output_placeholders - q.num_computed_tokens

WantRight ==
  pc = "running" /\ loc.want > 0 =>
    loc.idx \in DOMAIN running /\ Wanted(request[running[loc.idx]], loc.want)

Tokens ==
  /\ AllFine /\ FinishedToldOnce /\ WantRight
  /\ \A j \in DOMAIN loc.batch : DraftsRight(loc.batch[j])

SameTokens(q, p) ==
  /\ q.num_tokens = p.num_tokens /\ q.num_prompt_tokens = p.num_prompt_tokens
  /\ q.num_computed_tokens = p.num_computed_tokens
  /\ q.num_output_placeholders = p.num_output_placeholders
  /\ q.num_in_flight_tokens = p.num_in_flight_tokens
  /\ q.num_stale_output_tokens = p.num_stale_output_tokens
  /\ q.drop_stale_output = p.drop_stale_output /\ q.is_prefill_chunk = p.is_prefill_chunk

\* A step that changes none of the counters.
LEMMA FineSame ==
  ASSUME NEW q, NEW p, NEW r, NEW step, NEW steps, NEW a \in BOOLEAN, NEW s,
         Fine(p, r, step, steps, a, s), SameTokens(q, p), q.num_spec >= 0,
         p.status = "FINISHED" => q.status = "FINISHED",
         q.status = "RUNNING" => p.status = "RUNNING",
         p.status = "RUNNING" => q.status = "RUNNING",
         q.status = "WAITING_FOR_STREAMING_REQ" => p.status = "WAITING_FOR_STREAMING_REQ"
  PROVE  Fine(q, r, step, steps, a, s)
<1>1. Ahead(q, a) = Ahead(p, a)
  BY DEF Ahead, SameTokens
<1>2. q.status # "FINISHED" => Tracked(q, r, step, steps, a, s)
  BY <1>1, TrackedSame DEF Fine, SameTokens
<1>3. Steady(q, r, a)
  BY <1>1, Zenon DEF Fine, Steady, SameTokens
<1>4. QED BY <1>2, <1>3 DEF Fine

\* Nothing of a finished request counts.
LEMMA FineGone ==
  ASSUME config \in Configs, NEW r \in Reqs, NEW step, NEW steps, NEW s
  PROVE  Fine(Gone(r), r, step, steps, FALSE, s)
<1> DEFINE q == Gone(r)
<1>1. /\ q.status = "FINISHED" /\ q.num_tokens = PromptLen[r] /\ q.num_prompt_tokens = PromptLen[r]
      /\ q.num_computed_tokens = 0 /\ q.num_output_placeholders = 0 /\ q.num_spec = 0
      /\ q.num_in_flight_tokens = 0 /\ q.num_stale_output_tokens = 0
  BY DEF Gone, NewRequest
<1>2. PromptLen[r] \in Int
  BY ConfigFacts
<1> HIDE DEF q
<1>3. Steady(q, r, FALSE)
  BY <1>1, <1>2 DEF Steady, Ahead
<1>4. Fine(q, r, step, steps, FALSE, s)
  BY <1>1, <1>3 DEF Fine
<1>5. QED BY <1>4 DEF q

\* With no step in flight, nothing is.
LEMMA TrackedEmpty ==
  ASSUME NEW p, NEW r, NEW step, NEW s, NEW u \in BOOLEAN, Absent(step, r),
         Tracked(p, r, step, <<>>, u, s)
  PROVE  p.num_in_flight_tokens = 0 /\ p.num_stale_output_tokens = 0 /\ Ahead(p, u) = 0
<1>1. Len(<<>>) = 0 /\ 0 .. Len(<<>>) = {0} /\ 0 .. Len(<<>>) + 1 = 0 .. 1 /\ Len(<<>>) + 1 = 1
  OBVIOUS
<1> DEFINE m == Len(<<>>) + 1
<1>10. \E k \in 0 .. m : \E t, d \in [0 .. m -> Int] :
        /\ Lane(step, <<>>, r, t, d)
        /\ p.num_in_flight_tokens = t[m]
        /\ p.num_stale_output_tokens = t[k]
        /\ Ahead(p, u) = d[m] - d[k]
  BY Zenon DEF Tracked
<1>11. m = 1
  BY <1>1
<1> HIDE DEF m
<1>2. PICK k \in 0 .. 1 : \E t, d \in [0 .. 1 -> Int] :
        /\ Lane(step, <<>>, r, t, d)
        /\ p.num_in_flight_tokens = t[1]
        /\ p.num_stale_output_tokens = t[k]
        /\ Ahead(p, u) = d[1] - d[k]
  BY <1>10, <1>11, Zenon
<1>3. PICK t \in [0 .. 1 -> Int], d \in [0 .. 1 -> Int] :
        /\ Lane(step, <<>>, r, t, d)
        /\ p.num_in_flight_tokens = t[1]
        /\ p.num_stale_output_tokens = t[k]
        /\ Ahead(p, u) = d[1] - d[k]
  BY <1>2
<1>4. t[0] = 0 /\ d[0] = 0 /\ Adds(Nth(step, <<>>, 0), r, t[0 + 1] - t[0], d[0 + 1] - d[0])
  BY <1>1, <1>3 DEF Lane
<1>5. Nth(step, <<>>, 0) = step
  BY DEF Nth
<1>6. t[1] - t[0] = 0 /\ d[1] - d[0] = 0 /\ t[1] \in Int /\ d[1] \in Int /\ t[0] \in Int /\ d[0] \in Int
  BY <1>4, <1>5 DEF Adds
<1>7. t[1] = 0 /\ d[1] = 0
  BY <1>4, <1>6
<1>8. k = 0 \/ k = 1
  OBVIOUS
<1>9. QED BY <1>3, <1>4, <1>7, <1>8

\* With only the oldest step left, what is in flight is its entry.
LEMMA OnlyInFlight ==
  ASSUME NEW p, NEW r, NEW step, NEW s, NEW u \in BOOLEAN, Tracked(p, r, step, <<>>, u, s),
         NEW j \in DOMAIN step, step[j].req = r, step[j].n \in Int
  PROVE  p.num_in_flight_tokens = step[j].n
<1>1. Len(<<>>) = 0 /\ 0 .. Len(<<>>) = {0} /\ 0 .. Len(<<>>) + 1 = 0 .. 1 /\ Len(<<>>) + 1 = 1
  OBVIOUS
<1>2. PICK t \in [0 .. 1 -> Int], d \in [0 .. 1 -> Int] :
        Lane(step, <<>>, r, t, d) /\ p.num_in_flight_tokens = t[1]
  BY <1>1, Zenon DEF Tracked
<1>4. t[0] = 0 /\ Adds(Nth(step, <<>>, 0), r, t[0 + 1] - t[0], d[0 + 1] - d[0])
  BY <1>1, <1>2 DEF Lane
<1>5. Nth(step, <<>>, 0) = step
  BY DEF Nth
<1>6. t[1] - t[0] = step[j].n /\ t[1] \in Int /\ t[0] \in Int
  BY <1>4, <1>5 DEF Adds
<1>7. QED BY <1>2, <1>4, <1>6

\* The steps in flight hold no empty entries.
LEMMA AllPositive ==
  ASSUME Base
  PROVE  /\ \A i \in 0 .. Len(inflight) : Positive(Nth(todo, inflight, i))
         /\ Len(inflight) \in Nat /\ inflight \in Seq(Seq(StepEntry))
<1>1. inflight \in Seq(Seq(StepEntry)) /\ Len(inflight) \in Nat
  BY DEF Base, Typed
<1>2. ASSUME NEW i \in 0 .. Len(inflight) PROVE Positive(Nth(todo, inflight, i))
  <2>1. Nth(todo, inflight, i) \in Steps
    BY <1>1 DEF Nth, Steps
  <2>2. QED BY <2>1 DEF Base, StepsSound, StepSound, Positive
<1>3. QED BY <1>1, <1>2

\* The properties hold at the start.
LEMMA TokensInit == ASSUME Init PROVE Tokens
<1>1. config \in Configs /\ request = [r \in Reqs |-> NewRequest(r)] /\ loc = Idle /\ pc = "idle"
      /\ inflight = <<>> /\ todo = <<>> /\ finished_req_ids = {} /\ sampled = [r \in Reqs |-> 0]
  BY DEF Init
<1>2. ASSUME NEW r \in Reqs PROVE Fine(request[r], r, todo, inflight, Settled(r), sampled[r])
  <2> DEFINE q == request[r]
  <2>1. /\ q.status = "NEW" /\ q.num_tokens = PromptLen[r] /\ q.num_prompt_tokens = PromptLen[r]
        /\ q.num_computed_tokens = 0 /\ q.num_output_placeholders = 0 /\ q.num_spec = 0
        /\ q.num_in_flight_tokens = 0 /\ q.num_stale_output_tokens = 0 /\ q.drop_stale_output = FALSE
    BY <1>1 DEF NewRequest
  <2>2. PromptLen[r] \in Int
    BY <1>1, ConfigFacts
  <2>3. ~Settled(r)
    BY <2>1 DEF Settled
  <2> HIDE DEF q
  <2>4. Steady(q, r, FALSE)
    BY <2>1, <2>2 DEF Steady, Ahead
  <2>5. Absent(todo, r)
    BY <1>1 DEF Absent
  <2>6. Tracked(q, r, todo, inflight, FALSE, sampled[r])
    BY <2>1, <2>5, <1>1, TrackedNone
  <2>7. Fine(q, r, todo, inflight, FALSE, sampled[r])
    BY <2>4, <2>6 DEF Fine
  <2>8. Settled(r) = FALSE
    BY <2>3 DEF Settled
  <2>9. QED BY <2>7, <2>8 DEF q
<1>3. loc.batch = <<>>
  BY <1>1 DEF Idle
<1>4. AllFine
  BY <1>2 DEF AllFine
<1>5. \A j \in DOMAIN loc.batch : DraftsRight(loc.batch[j])
  BY <1>3
<1>6. QED BY <1>1, <1>4, <1>5 DEF Tokens, FinishedToldOnce, WantRight

\* A request that is told finished stays so.
LEMMA FinishedNext ==
  ASSUME Base, Slots, FinishedToldOnce, [Next]_vars
  PROVE  FinishedToldOnce'
<1>1. CounterStep
  BY CounterNext
<1>2. StatusStep
  BY StatusNext DEF Slots, SessionsCounted
<1>3. config \in Configs /\ finished_req_ids \in SUBSET Reqs
  BY DEF Base, Typed
<1>4. ASSUME NEW r \in Reqs, request[r].status = "FINISHED" PROVE request'[r].status = "FINISHED"
  <2>1. CASE Quiet
    BY <2>1, <1>4 DEF Quiet, QuietAt
  <2>2. ASSUME NEW e \in BatchEntry, Grows(e) PROVE request'[r].status = "FINISHED"
    BY <2>2, <1>4 DEF Grows, GrewAt
  <2>3. ASSUME NEW S \in SUBSET Reqs, Loses(S) PROVE request'[r].status = "FINISHED"
    <3>1. r \notin S
      BY <2>3, <1>4 DEF Loses, LostAt
    <3>2. QED BY <3>1, <2>3, <1>4 DEF Loses
  <2>4. CASE LaunchesStep
    <3>1. CASE \E i \in DOMAIN loc.batch : loc.batch[i].req = r
      BY <3>1, <2>4, <1>4 DEF LaunchesStep, LaunchedAt
    <3>2. QED BY <3>1, <2>4, <1>4 DEF LaunchesStep
  <2>5. CASE TakesStep
    BY <2>5, <1>4 DEF TakesStep
  <2>6. CASE AnswersStep
    <3>1. Gone(r).status = "FINISHED"
      BY <1>3, GoneFields
    <3>2. CASE r = Head(todo).req
      BY <3>1, <3>2, <2>6, <1>4 DEF AnswersStep, AnsweredAt
    <3>3. CASE r # Head(todo).req
      BY <3>3, <2>6, <1>4 DEF AnswersStep
    <3>4. QED BY <3>2, <3>3
  <2>7. ASSUME NEW S \in SUBSET Reqs, EndsAll(S) PROVE request'[r].status = "FINISHED"
    <3>1. Gone(r).status = "FINISHED"
      BY <1>3, GoneFields
    <3>2. QED BY <3>1, <2>7, <1>4 DEF EndsAll
  <2>8. QED BY <2>1, <2>2, <2>3, <2>4, <2>5, <2>6, <2>7, <1>1 DEF CounterStep
<1>5. finished_req_ids' \subseteq finished_req_ids \cup {r \in Reqs : request'[r].status = "FINISHED"}
  <2>1. CASE finished_req_ids' = finished_req_ids \/ finished_req_ids' = {}
    BY <2>1
  <2>2. ASSUME NEW S \in SUBSET Reqs, Finishes(S)
        PROVE  finished_req_ids' \subseteq finished_req_ids \cup {r \in Reqs : request'[r].status = "FINISHED"}
    BY <2>2 DEF Finishes, NowStatus
  <2>3. QED BY <2>1, <2>2, <1>2
          DEF StatusStep, Calm, Preempts, Admits, Launches, SessionTurns, notices
<1>6. QED BY <1>3, <1>4, <1>5 DEF FinishedToldOnce


FineNow(r) == Fine(request[r], r, todo, inflight, Settled(r), sampled[r])

\* What holds of the next counters holds in the next state.
LEMMA FinePrimed ==
  ASSUME UNCHANGED config, NEW r, Fine(request'[r], r, todo', inflight', Settled(r)', sampled'[r])
  PROVE  FineNow(r)'
BY DEF FineNow, Fine, Steady, Depth, Sessions, PromptLen

\* The fields that FineSame asks for.
Unmoved(q, p) ==
  /\ SameTokens(q, p) /\ q.num_spec >= 0
  /\ p.status = "FINISHED" => q.status = "FINISHED"
  /\ q.status = "RUNNING" => p.status = "RUNNING"
  /\ p.status = "RUNNING" => q.status = "RUNNING"
  /\ q.status = "WAITING_FOR_STREAMING_REQ" => p.status = "WAITING_FOR_STREAMING_REQ"

\* A request that keeps its counters and its entries.
LEMMA FineStays ==
  ASSUME UNCHANGED <<config, todo, inflight>>, NEW r \in Reqs, FineNow(r), sampled'[r] = sampled[r],
         Unmoved(request'[r], request[r]),
         \A j \in DOMAIN loc.batch : loc.batch[j].req = r =>
           \E i \in DOMAIN loc'.batch : loc'.batch[i].req = r /\ loc'.batch[i].new = loc.batch[j].new,
         \A i \in DOMAIN loc'.batch : loc'.batch[i].req = r =>
           (\E j \in DOMAIN loc.batch : loc.batch[j].req = r /\ loc'.batch[i].new = loc.batch[j].new)
           \/ ~loc'.batch[i].new
  PROVE  FineNow(r)'
<1>1. Settled(r)' <=> Settled(r)
  BY DEF Settled, Unmoved
<1>2. Settled(r)' \in BOOLEAN /\ Settled(r) \in BOOLEAN /\ Settled(r)' = Settled(r)
  BY <1>1 DEF Settled
<1>3. Fine(request'[r], r, todo, inflight, Settled(r), sampled[r])
  BY <1>2, FineSame DEF FineNow, Unmoved
<1>4. Fine(request'[r], r, todo', inflight', Settled(r)', sampled'[r])
  BY <1>2, <1>3
<1>5. QED BY <1>4, FinePrimed

\* A request that a step does not touch.
LEMMA UnmovedSame ==
  ASSUME NEW r \in Reqs, FineNow(r) PROVE Unmoved(request[r], request[r])
BY DEF Unmoved, SameTokens, FineNow, Fine, Steady

\* A step that changes none of the counters of c, and nothing of the others.
LEMMA FineChange ==
  ASSUME Base, AllFine, UNCHANGED <<config, todo, inflight, sampled>>, loc'.batch = loc.batch,
         NEW c \in Reqs, NEW q, request' = [request EXCEPT ![c] = q], Unmoved(q, request[c])
  PROVE  AllFine'
<1>1. request \in [Reqs -> AnyRequest]
  BY DEF Base, Typed
<1>2. ASSUME NEW r \in Reqs PROVE FineNow(r)'
  <2>1. FineNow(r)
    BY DEF AllFine, FineNow
  <2>2. Unmoved(request'[r], request[r])
    BY <1>1, <2>1, UnmovedSame
  <2>3. QED BY <2>1, <2>2, FineStays
<1>3. QED BY <1>2 DEF AllFine, FineNow

\* A step that changes no request.
LEMMA FineQuiet ==
  ASSUME Base, AllFine, UNCHANGED <<config, todo, inflight, sampled, request>>,
         loc'.batch = loc.batch
  PROVE  AllFine'
<1>2. ASSUME NEW r \in Reqs PROVE FineNow(r)'
  <2>1. FineNow(r)
    BY DEF AllFine, FineNow
  <2>2. Unmoved(request'[r], request[r])
    BY <2>1, UnmovedSame
  <2>3. QED BY <2>1, <2>2, FineStays
<1>3. QED BY <1>2 DEF AllFine, FineNow

\* The steps of schedule() that only look, and those that end a loop.
LEMMA FineLooks ==
  ASSUME Base, AllFine, BeginSchedule \/ SkipRunning \/ EndRunning \/ EndWaiting
  PROVE  AllFine'
<1>1. UNCHANGED <<config, todo, inflight, sampled, request>>
  BY DEF BeginSchedule, SkipRunning, EndRunning, EndWaiting, Requeue, env, worker, output
<1>2. (loc.batch = <<>> /\ Idle.batch = <<>>) \/ pc # "idle"
  BY IdleFacts DEF Idle
<1>3. loc \in Locals
  BY DEF Base, Typed
<1>4. loc'.batch = loc.batch
  <2>1. CASE BeginSchedule
    BY <2>1, <1>2 DEF BeginSchedule, Idle
  <2>2. CASE SkipRunning
    BY <2>2, <1>3 DEF SkipRunning, Locals
  <2>3. CASE EndRunning
    BY <2>3, <1>3 DEF EndRunning, Locals
  <2>4. CASE EndWaiting
    BY <2>4, <1>3 DEF EndWaiting, Requeue, Locals
  <2>5. QED BY <2>1, <2>2, <2>3, <2>4
<1>5. QED BY <1>1, <1>4, FineQuiet

\* The fields of a candidate after its promotion and its lookup.
LEMMA CandidateUnmoved ==
  ASSUME Base, AllFine, WaitingTurn
  PROVE  /\ Candidate \in Reqs /\ Unmoved(Promoted(Candidate), request[Candidate])
         /\ \A found \in Lookups(Promoted(Candidate)) : Unmoved(found.q, request[Candidate])
<1> DEFINE r == Candidate
           p == request[r]
           q == Promoted(r)
<1>1. r \in Reqs /\ p \in AnyRequest /\ config \in Configs
  BY CandidateFacts DEF Base, Typed
<1>2. /\ q \in AnyRequest /\ q = [p EXCEPT !.status = q.status]
      /\ \/ q.status = p.status
         \/ p.status = "WAITING_FOR_STRUCTURED_OUTPUT_GRAMMAR" /\ q.status = "WAITING"
  BY <1>1, PromotedFacts DEF Base
<1>3. p.num_spec >= 0
  BY <1>1 DEF AllFine, Fine, Steady
<1>4. SameTokens(q, p) /\ q.num_spec = p.num_spec
  <2> HIDE DEF q, p
  <2>1. QED BY <1>1, <1>2, StatusFields DEF SameTokens
<1>5. Unmoved(q, p)
  BY <1>2, <1>3, <1>4 DEF Unmoved
<1>6. ASSUME NEW found \in Lookups(q) PROVE Unmoved(found.q, p)
  <2>1. found.q = [q EXCEPT !.shared_prefix_boundary = found.q.shared_prefix_boundary]
    BY <1>1, <1>2, LookupFacts
  <2> HIDE DEF q, p
  <2>2. /\ SameTokens(found.q, q) /\ found.q.num_spec = q.num_spec /\ found.q.status = q.status
    BY <1>2, <2>1, LookupFields DEF SameTokens
  <2>3. QED BY <1>5, <2>2 DEF Unmoved, SameTokens
<1>7. QED BY <1>1, <1>5, <1>6

\* The waiting requests that are passed over.
LEMMA FinePasses ==
  ASSUME Base, AllFine,
         SkipWaiting \/ \E found \in Lookups(Promoted(Candidate)) : StopWaiting(found)
  PROVE  AllFine'
<1>1. WaitingTurn /\ UNCHANGED <<config, todo, inflight, sampled>>
  BY DEF SkipWaiting, StopWaiting, Requeue, env, worker, output
<1>2. loc'.batch = loc.batch
  BY DEF SkipWaiting, StopWaiting, Requeue, Base, Typed, Locals
<1>3. PICK q : request' = [request EXCEPT ![Candidate] = q] /\ Unmoved(q, request[Candidate])
  BY <1>1, CandidateUnmoved DEF SkipWaiting, StopWaiting
<1>4. Candidate \in Reqs
  BY <1>1, CandidateUnmoved
<1>5. QED BY <1>1, <1>2, <1>3, <1>4, FineChange

\* A running request is scheduled.
LEMMA FineSchedules ==
  ASSUME Base, AllFine, ScheduleRunning
  PROVE  AllFine'
<1> DEFINE r == running[loc.idx]
<1>1. PICK e : Scheduled(e, r)
  BY ScheduledFacts
<1>2. /\ r \in Reqs /\ request[r] \in AnyRequest
      /\ request' = [request EXCEPT ![r] = [request[r] EXCEPT !.num_spec = 0]]
      /\ e.req = r /\ loc'.batch = Append(loc.batch, e)
      /\ \A i \in DOMAIN loc.batch : loc.batch[i].req # r
  BY <1>1 DEF Scheduled
<1>10. e \in BatchEntry
  BY <1>1 DEF Scheduled
<1>3. UNCHANGED <<config, todo, inflight, sampled>>
  BY DEF ScheduleRunning, env, worker, output
<1>4. loc.batch \in Seq(BatchEntry) /\ request \in [Reqs -> AnyRequest] /\ loc \in Locals
  BY DEF Base, Typed, Locals
<1>5. ~e.new
  <2>1. loc'.batch = Append(loc.batch, [req |-> r, n |-> NumNewTokens(request[r]), new |-> FALSE,
                                   drafts |-> NumDrafts(request[r], NumNewTokens(request[r])), padded |-> FALSE])
    BY <1>4 DEF ScheduleRunning, Locals
  <2> DEFINE x == [req |-> r, n |-> NumNewTokens(request[r]), new |-> FALSE,
                   drafts |-> NumDrafts(request[r], NumNewTokens(request[r])), padded |-> FALSE]
  <2>2. ~x.new /\ loc'.batch = Append(loc.batch, x)
    BY <2>1
  <2> HIDE DEF x
  <2>3. e = loc'.batch[Len(loc.batch) + 1]
    BY <1>2, <1>4, <1>10
  <2>4. x = loc'.batch[Len(loc.batch) + 1]
    BY <2>2, <1>4
  <2>5. QED BY <2>2, <2>3, <2>4
<1> HIDE DEF r
<1>6. Unmoved(request'[r], request[r])
  <2>1. FineNow(r)
    BY <1>2 DEF AllFine, FineNow
  <2> DEFINE p == request[r]
             q == [p EXCEPT !.num_spec = 0]
  <2>2. /\ SameTokens(q, p) /\ q.num_spec = 0 /\ q.status = p.status
    BY <1>2 DEF SameTokens, AnyRequest
  <2>3. request'[r] = q
    BY <1>2, <1>4
  <2> HIDE DEF q, p
  <2>4. Unmoved(q, p)
    BY <2>2 DEF Unmoved
  <2>5. QED BY <2>3, <2>4 DEF p
<1>7. /\ DOMAIN loc'.batch = 1 .. Len(loc.batch) + 1 /\ loc'.batch[Len(loc.batch) + 1] = e
      /\ DOMAIN loc.batch = 1 .. Len(loc.batch) /\ Len(loc.batch) \in Nat
      /\ \A i \in 1 .. Len(loc.batch) : loc'.batch[i] = loc.batch[i]
  BY <1>2, <1>4
<1>8. ASSUME NEW s \in Reqs PROVE FineNow(s)'
  <2>1. FineNow(s)
    BY DEF AllFine, FineNow
  <2>2. Unmoved(request'[s], request[s])
    BY <1>2, <1>4, <1>6, <2>1, UnmovedSame
  <2>3. \A j \in DOMAIN loc.batch : loc.batch[j].req = s =>
          \E i \in DOMAIN loc'.batch : loc'.batch[i].req = s /\ loc'.batch[i].new = loc.batch[j].new
    BY <1>7
  <2>4. ASSUME NEW i \in DOMAIN loc'.batch, loc'.batch[i].req = s
        PROVE  (\E j \in DOMAIN loc.batch : loc.batch[j].req = s /\ loc'.batch[i].new = loc.batch[j].new)
               \/ ~loc'.batch[i].new
    <3>1. i \in 1 .. Len(loc.batch) \/ i = Len(loc.batch) + 1
      BY <1>7
    <3>2. QED BY <3>1, <2>4, <1>5, <1>7
  <2>5. QED BY <2>1, <2>2, <2>3, <2>4, <1>3, FineStays
<1>9. QED BY <1>8 DEF AllFine, FineNow


\* A running request loses its place.
LEMMA FineLost ==
  ASSUME Base, NEW v \in Reqs, FineNow(v), request[v].status = "RUNNING", NEW drop \in BOOLEAN
  PROVE  Fine(Preempted(request[v], drop), v, todo, inflight, FALSE, sampled[v])
<1> DEFINE p == request[v]
           q == Preempted(p, drop)
           x == drop \/ (p.drop_stale_output /\ p.num_stale_output_tokens > 0)
<1>1. p \in AnyRequest /\ config \in Configs
  BY DEF Base, Typed
<1>2. x \in BOOLEAN
  BY <1>1 DEF AnyRequest
<1>3. Tracked(p, v, todo, inflight, Settled(v), sampled[v]) /\ Steady(p, v, Settled(v)) /\ p.status = "RUNNING"
  BY DEF FineNow, Fine
<1>4. Settled(v) \in BOOLEAN
  BY DEF Settled
<1> HIDE DEF p
<1>5. q = [p EXCEPT !.status = "PREEMPTED", !.num_computed_tokens = 0, !.num_spec = 0,
                    !.drop_stale_output = x, !.num_stale_output_tokens = p.num_in_flight_tokens,
                    !.num_output_placeholders = 0]
  BY Zenon DEF Preempted
<1> HIDE DEF q
<1>6. x <=> drop \/ (p.drop_stale_output /\ p.num_stale_output_tokens > 0)
  OBVIOUS
<1> HIDE DEF x
<1>7. /\ q.status = "PREEMPTED" /\ q.num_computed_tokens = 0 /\ q.num_spec = 0
      /\ q.num_stale_output_tokens = p.num_in_flight_tokens
      /\ q.num_output_placeholders = 0 /\ q.num_in_flight_tokens = p.num_in_flight_tokens
      /\ q.num_tokens = p.num_tokens /\ q.num_prompt_tokens = p.num_prompt_tokens
  BY <1>1, <1>5 DEF AnyRequest
<1>8. q.drop_stale_output = x
  BY <1>1, <1>5, Zenon DEF AnyRequest
<1>9. Steady(q, v, FALSE)
  BY <1>3, <1>7 DEF Steady, Ahead
<1>10. p.drop_stale_output \in BOOLEAN /\ q.drop_stale_output \in BOOLEAN
  BY <1>1, <1>2, <1>8 DEF AnyRequest
<1>11. Tracked(q, v, todo, inflight, FALSE, sampled[v])
  BY <1>3, <1>4, <1>6, <1>7, <1>8, <1>10, AllPositive, TrackedLost
<1>12. QED BY <1>9, <1>11 DEF Fine, q, p

\* A running request is preempted for another.
LEMMA FinePreempts ==
  ASSUME Base, AllFine, PreemptForRunning
  PROVE  AllFine'
<1>0. PICK v \in Reqs : v = Victim
  BY EvictedFacts DEF Evicted
<1>1. Evicted(v, running[loc.idx])
  BY <1>0, EvictedFacts
<1>2. /\ v \in Reqs /\ v \in ToSet(running)
      /\ request' = [request EXCEPT ![v] = Preempted(request[v], KvDelivery)]
      /\ loc'.batch = BatchWithout(v) /\ pc = "running"
  BY <1>1 DEF Evicted
<1>3. UNCHANGED <<config, todo, inflight, sampled>>
  BY DEF PreemptForRunning, env, worker, output
<1>4. request[v].status = "RUNNING"
  BY <1>2, RunningOnes DEF WithStatus
<1>5. request \in [Reqs -> AnyRequest] /\ loc.batch \in Seq(BatchEntry) /\ config \in Configs
      /\ KvDelivery \in BOOLEAN
  BY ConfigFacts DEF Base, Typed, Locals
<1>6. ToSet(loc'.batch) = ToSet(loc.batch) \ {loc.batch[j] : j \in Restored(v)}
  BY <1>2, <1>5, RemoveFacts DEF BatchWithout
<1>7. FineNow(v)'
  <2>1. Fine(Preempted(request[v], KvDelivery), v, todo, inflight, FALSE, sampled[v])
    BY <1>2, <1>4, <1>5, FineLost DEF AllFine, FineNow
  <2>2. request'[v] = Preempted(request[v], KvDelivery)
    BY <1>2, <1>5
  <2>3. request'[v].status = "PREEMPTED"
    BY <2>2, <1>2, <1>5, PreemptedFields
  <2>4. Settled(v)' = FALSE
    BY <2>3 DEF Settled
  <2>5. QED BY <2>1, <2>2, <2>4, <1>3, FinePrimed
<1>8. ASSUME NEW s \in Reqs, s # v PROVE FineNow(s)'
  <2>1. FineNow(s)
    BY DEF AllFine, FineNow
  <2>2. request'[s] = request[s]
    BY <1>2, <1>5, <1>8
  <2>3. Unmoved(request'[s], request[s])
    BY <2>1, <2>2, UnmovedSame
  <2>4. ASSUME NEW j \in DOMAIN loc.batch, loc.batch[j].req = s
        PROVE  \E i \in DOMAIN loc'.batch : loc'.batch[i] = loc.batch[j]
    <3>1. loc.batch[j] \in ToSet(loc'.batch)
      BY <1>6, <1>8, <2>4 DEF ToSet, Restored
    <3>2. QED BY <3>1 DEF ToSet
  <2>5. ASSUME NEW i \in DOMAIN loc'.batch
        PROVE  \E j \in DOMAIN loc.batch : loc'.batch[i] = loc.batch[j]
    <3>1. loc'.batch[i] \in ToSet(loc.batch)
      BY <1>6 DEF ToSet
    <3>2. QED BY <3>1 DEF ToSet
  <2>6. QED BY <2>1, <2>3, <2>4, <2>5, <1>3, FineStays
<1>9. QED BY <1>7, <1>8 DEF AllFine, FineNow

\* Every running request is preempted.
LEMMA FineResets ==
  ASSUME Base, AllFine, ResetPrefixCache
  PROVE  AllFine'
<1>1. /\ request' = [r \in Reqs |-> IF r \in ToSet(running) THEN Preempted(request[r], TRUE)
                                ELSE request[r]]
      /\ UNCHANGED <<config, todo, inflight, sampled, loc>> /\ pc = "idle"
  BY DEF ResetPrefixCache, BetweenSteps, env, worker, output
<1>2. ToSet(running) = WithStatus("RUNNING")
  BY <1>1, IdleFacts
<1>3. ASSUME NEW s \in Reqs PROVE FineNow(s)'
  <2>1. FineNow(s)
    BY DEF AllFine, FineNow
  <2>2. CASE s \in ToSet(running)
    <3>1. request'[s] = Preempted(request[s], TRUE) /\ request[s].status = "RUNNING"
      BY <1>1, <1>2, <2>2 DEF WithStatus
    <3>2. Fine(Preempted(request[s], TRUE), s, todo, inflight, FALSE, sampled[s])
      BY <2>1, <3>1, FineLost
    <3>3. request[s] \in AnyRequest
      BY DEF Base, Typed
    <3>4. request'[s].status = "PREEMPTED"
      BY <3>1, <3>3, PreemptedFields
    <3>5. Settled(s)' = FALSE
      BY <3>4 DEF Settled
    <3>6. QED BY <3>1, <3>2, <3>5, <1>1, FinePrimed
  <2>3. CASE s \notin ToSet(running)
    <3>1. Unmoved(request'[s], request[s])
      BY <1>1, <2>1, <2>3, UnmovedSame
    <3>2. QED BY <3>1, <2>1, <1>1, FineStays
  <2>4. QED BY <2>2, <2>3
<1>4. QED BY <1>3 DEF AllFine, FineNow

\* A waiting request is admitted: nothing of it in flight is to be delivered.
LEMMA FineAdmits ==
  ASSUME Base, AllFine, WaitingTurn, NEW found \in Lookups(Promoted(Candidate)), Admit(found)
  PROVE  AllFine'
<1>0. PICK r \in Reqs : r = Candidate
  BY CandidateFacts DEF Base
<1> DEFINE q == found.q
           z == [q EXCEPT !.status = "RUNNING", !.num_computed_tokens = found.computed]
           n == AdmitTokens(q, found.computed)
           pad == Padded(q.num_tokens - found.computed)
           e == [req |-> r, n |-> n, new |-> TRUE,
                 drafts |-> IF pad THEN NumSpec ELSE 0, padded |-> pad]
<1>1. /\ r \in Reqs /\ q \in AnyRequest /\ found.computed \in Int
      /\ MayResume(q) /\ request' = [request EXCEPT ![r] = z]
  BY <1>0, AdmitFacts DEF Base
<1>2. loc'.batch = Append(loc.batch, e) /\ UNCHANGED <<config, todo, inflight, sampled>>
  <2>1. loc \in Locals
    BY DEF Base, Typed
  <2>2. QED BY <2>1, <1>0, Zenon DEF Admit, Locals, env, worker, output
<1>3. e.req = r /\ e.new
  OBVIOUS
<1>4. request \in [Reqs -> AnyRequest] /\ loc.batch \in Seq(BatchEntry) /\ config \in Configs
  BY DEF Base, Typed, Locals
<1>5. Unmoved(q, request[r])
  BY <1>0, CandidateUnmoved
<1>6. request[r].status # "RUNNING" /\ request[r].status # "FINISHED"
  <2>1. PopCandidate
    BY DEF Admit
  <2>2. QED BY <2>1, <1>0, PopEffect DEF LiveReqs, Live
<1>7. ~Settled(r) /\ Settled(r) = FALSE
  BY <1>6 DEF Settled
<1> HIDE DEF e
<1>8. Fine(z, r, todo, inflight, FALSE, sampled[r])
  <2> DEFINE p == request[r]
  <2>1. Steady(p, r, FALSE) /\ Tracked(p, r, todo, inflight, FALSE, sampled[r])
    BY <1>1, <1>6, <1>7 DEF AllFine, Fine
  <2>2. /\ z.status = "RUNNING" /\ z.num_tokens = q.num_tokens /\ z.num_prompt_tokens = q.num_prompt_tokens
        /\ z.num_output_placeholders = q.num_output_placeholders /\ z.num_spec = q.num_spec
        /\ z.num_in_flight_tokens = q.num_in_flight_tokens
        /\ z.num_stale_output_tokens = q.num_stale_output_tokens
        /\ z.drop_stale_output = q.drop_stale_output
    BY <1>1 DEF AnyRequest
  <2>3. q.num_stale_output_tokens > 0 => q.drop_stale_output
    BY <1>1 DEF MayResume
  <2> HIDE DEF z, q, p
  <2>4. /\ z.status = "RUNNING" /\ z.num_tokens = p.num_tokens /\ z.num_prompt_tokens = p.num_prompt_tokens
        /\ z.num_output_placeholders = p.num_output_placeholders /\ z.num_spec >= 0
        /\ z.num_in_flight_tokens = p.num_in_flight_tokens
        /\ z.num_stale_output_tokens = p.num_stale_output_tokens
        /\ z.drop_stale_output = p.drop_stale_output
    BY <2>2, <1>5 DEF p, Unmoved, SameTokens
  <2>5. Steady(z, r, FALSE)
    <3>1. z.num_stale_output_tokens > 0 => z.drop_stale_output
      BY <2>2, <2>3
    <3>2. QED BY <2>1, <2>4, <3>1 DEF Steady, Ahead
  <2>6. Ahead(z, FALSE) = Ahead(p, FALSE)
    BY DEF Ahead
  <2>7. Tracked(z, r, todo, inflight, FALSE, sampled[r])
    BY <2>1, <2>4, <2>6, TrackedSame
  <2>8. QED BY <2>5, <2>7 DEF Fine
<1>9. /\ DOMAIN loc'.batch = 1 .. Len(loc.batch) + 1 /\ loc'.batch[Len(loc.batch) + 1] = e
      /\ DOMAIN loc.batch = 1 .. Len(loc.batch) /\ Len(loc.batch) \in Nat
      /\ \A i \in 1 .. Len(loc.batch) : loc'.batch[i] = loc.batch[i]
  BY <1>2, <1>4
<1> HIDE DEF z, q
<1>10. FineNow(r)'
  <2>1. request'[r] = z
    BY <1>1, <1>4
  <2>2. Len(loc.batch) + 1 \in DOMAIN loc'.batch
    BY <1>9
  <2>3. Settled(r)' = FALSE
    BY <1>3, <1>9, <2>2 DEF Settled
  <2>4. QED BY <1>2, <1>8, <2>1, <2>3, FinePrimed
<1>11. ASSUME NEW s \in Reqs, s # r PROVE FineNow(s)'
  <2>1. FineNow(s)
    BY DEF AllFine, FineNow
  <2>2. request'[s] = request[s]
    BY <1>1, <1>4, <1>11
  <2>3. Unmoved(request'[s], request[s])
    BY <2>1, <2>2, UnmovedSame
  <2>4. ASSUME NEW j \in DOMAIN loc.batch
        PROVE  j \in DOMAIN loc'.batch /\ loc'.batch[j] = loc.batch[j]
    BY <1>9
  <2>5. ASSUME NEW i \in DOMAIN loc'.batch, loc'.batch[i].req = s
        PROVE  i \in DOMAIN loc.batch /\ loc'.batch[i] = loc.batch[i]
    BY <1>3, <1>9, <1>11, <2>5
  <2>6. QED BY <2>1, <2>3, <2>4, <2>5, <1>2, FineStays
<1>12. QED BY <1>10, <1>11 DEF AllFine, FineNow


\* What a launch does to the counters that `Advanced` sets.
LEMMA AdvancedCounters ==
  ASSUME config \in Configs, NEW q \in AnyRequest, NEW n \in Int, NEW drafts \in Int,
         q.num_spec >= 0
  PROVE  LET a == Advanced(q, n, drafts)
         IN  /\ a.num_prompt_tokens = q.num_prompt_tokens /\ a.num_spec >= 0
             /\ a.is_prefill_chunk <=> q.num_computed_tokens + n < q.num_tokens + q.num_output_placeholders
             /\ a.num_output_placeholders = IF Depth > 1 /\ ~a.is_prefill_chunk
                  THEN q.num_output_placeholders + 1 + drafts ELSE q.num_output_placeholders
<1> DEFINE computed == q.num_computed_tokens + n
           chunk == computed < q.num_tokens + q.num_output_placeholders
           async == Depth > 1 /\ ~chunk
           ph == IF async THEN q.num_output_placeholders + 1 + drafts
                 ELSE q.num_output_placeholders
           sp == IF async THEN NumSpec ELSE q.num_spec
           fl == q.num_in_flight_tokens + n
           a == Advanced(q, n, drafts)
<1>1. a = [q EXCEPT !.num_computed_tokens = computed, !.num_in_flight_tokens = fl,
                    !.is_prefill_chunk = chunk, !.num_output_placeholders = ph, !.num_spec = sp]
  BY DEF Advanced
<1>2. sp >= 0
  BY ConfigFacts
<1> HIDE DEF sp, fl, a
<1>3. ph = IF Depth > 1 /\ ~chunk THEN q.num_output_placeholders + 1 + drafts
           ELSE q.num_output_placeholders
  OBVIOUS
<1> HIDE DEF ph
<1>4. chunk \in BOOLEAN /\ (chunk <=> computed < q.num_tokens + q.num_output_placeholders)
  OBVIOUS
<1> HIDE DEF chunk
<1>5. a.num_prompt_tokens = q.num_prompt_tokens /\ a.num_spec = sp /\ a.num_output_placeholders = ph
  BY <1>1 DEF AnyRequest
<1>6. a.is_prefill_chunk = chunk
  BY <1>1, Zenon DEF AnyRequest
<1>7. QED BY <1>2, <1>3, <1>4, <1>5, <1>6 DEF a

\* A request is behind by nothing, or by what its steps in flight will add.
LEMMA LaunchCounts ==
  ASSUME config \in Configs, NEW q \in AnyRequest, NEW n \in Int, n > 0, NEW drafts \in Int,
         q.num_spec >= 0, NEW u \in BOOLEAN,
         drafts = AtLeast(q.num_computed_tokens + n - q.num_tokens - q.num_output_placeholders, 0),
         q.num_output_placeholders = IF Depth > 1 THEN Ahead(q, u) ELSE 0,
         Depth = 1 => Ahead(q, u) = 0
  PROVE  LET a == Advanced(q, n, drafts)
         IN  /\ drafts >= 0
             /\ Ahead(a, TRUE) = Ahead(q, u) + IF a.is_prefill_chunk THEN 0 ELSE 1 + drafts
             /\ a.num_output_placeholders = IF Depth > 1 THEN Ahead(a, TRUE) ELSE 0
<1> DEFINE a == Advanced(q, n, drafts)
           C == q.num_computed_tokens
           T == q.num_tokens
           P == q.num_output_placeholders
           h == Ahead(q, u)
           k == Ahead(a, TRUE)
           P2 == a.num_output_placeholders
           chunk == a.is_prefill_chunk
           deep == Depth > 1
<1>1. C \in Int /\ T \in Int /\ P \in Int
  BY DEF AnyRequest
<1>2. a.num_computed_tokens = C + n /\ a.num_tokens = T
  BY AdvancedFacts
<1>3. (chunk <=> C + n < T + P) /\ P2 = IF deep /\ ~chunk THEN P + 1 + drafts ELSE P
  BY AdvancedCounters
<1>4. k = IF chunk THEN 0 ELSE C + n + 1 - T
  BY <1>2, Zenon DEF Ahead
<1>5. h = 0 \/ h = C + 1 - T
  BY DEF Ahead
<1>6. P = (IF deep THEN h ELSE 0) /\ (~deep => h = 0) /\ deep \in BOOLEAN
  BY ConfigFacts
<1>7. drafts = IF C + n - T - P < 0 THEN 0 ELSE C + n - T - P
  BY DEF AtLeast
<1> HIDE DEF C, T, P, h, k, P2, chunk, deep
<1>8. drafts >= 0 /\ k = h + (IF chunk THEN 0 ELSE 1 + drafts) /\ P2 = IF deep THEN k ELSE 0
  <2>1. CASE chunk
    <3>1. h = 0
      BY <1>1, <1>3, <1>5, <1>6, <2>1
    <3>2. QED BY <3>1, <1>1, <1>3, <1>4, <1>6, <1>7, <2>1
  <2>2. CASE ~chunk
    BY <1>1, <1>3, <1>4, <1>5, <1>6, <1>7, <2>2
  <2>3. QED BY <2>1, <2>2
<1>9. QED BY <1>8 DEF k, h, P2, chunk, deep

\* The entries of the step that is launched.
LEMMA LaunchEntry ==
  ASSUME Base, Commit, NEW i \in DOMAIN loc.batch
  PROVE  LET b == loc.batch[i]
             f == LaunchedStep[i]
         IN  /\ b.req \in Reqs /\ b.n \in Int /\ b.n > 0 /\ b.drafts \in Int
             /\ request[b.req] \in AnyRequest /\ request[b.req].status = "RUNNING"
             /\ request'[b.req] = Advanced(request[b.req], b.n, b.drafts)
             /\ f.req = b.req /\ f.n = b.n /\ f.drafts = b.drafts
             /\ f.samples = ~request'[b.req].is_prefill_chunk
             /\ f.prefix = IF b.new THEN request[b.req].num_tokens ELSE 0
<1>1. /\ loc.batch \in Seq(BatchEntry) /\ config \in Configs /\ OncePerStep(loc.batch)
      /\ request \in [Reqs -> AnyRequest]
  BY DEF Base, Typed, Locals, BatchSound
<1>2. request' = Launched /\ inflight' = Append(inflight, LaunchedStep)
  BY CommitFacts DEF Base
<1> DEFINE b == loc.batch[i]
           r == b.req
           f == LaunchedStep[i]
<1>3. b \in BatchEntry
  BY <1>1
<1>4. r \in Reqs /\ b.n \in Int /\ b.drafts \in Int
  BY <1>3 DEF BatchEntry
<1>5. r \in {e.req : e \in ToSet(loc.batch)}
  BY DEF ToSet
<1>6. Entry(r) \in ToSet(loc.batch) /\ Entry(r).req = r
  BY <1>5, EntryFacts DEF Base
<1>7. Entry(r) = b
  <2>1. PICK j \in DOMAIN loc.batch : Entry(r) = loc.batch[j]
    BY <1>6 DEF ToSet
  <2>2. loc.batch[j].req = loc.batch[i].req
    BY <2>1, <1>6
  <2>3. QED BY <2>1, <2>2, <1>1 DEF OncePerStep
<1>8. request'[r] = Advanced(request[r], b.n, b.drafts)
  BY <1>2, <1>4, <1>5, <1>7 DEF Launched
<1>9. request[r] \in AnyRequest /\ request[r].status = "RUNNING" /\ b.n > 0
  BY <1>1, <1>4 DEF Base, BatchSound
<1>10. /\ f.req = r /\ f.n = b.n /\ f.drafts = b.drafts
       /\ f.samples = ~Launched[r].is_prefill_chunk
       /\ f.prefix = IF b.new THEN request[r].num_tokens ELSE 0
  BY Zenon DEF LaunchedStep
<1> HIDE DEF f, b
<1>11. f.samples = ~request'[r].is_prefill_chunk
  BY <1>2, <1>10
<1>12. QED BY <1>4, <1>8, <1>9, <1>10, <1>11 DEF f, b

\* A step is launched.
LEMMA FineLaunches ==
  ASSUME Base, Tokens, Commit PROVE AllFine'
<1>1. /\ loc.batch \in Seq(BatchEntry) /\ config \in Configs /\ OncePerStep(loc.batch)
      /\ request \in [Reqs -> AnyRequest] /\ finished_req_ids \in SUBSET Reqs
      /\ \A i \in DOMAIN loc.batch : request[loc.batch[i].req].status = "RUNNING"
  BY DEF Base, Typed, Locals, BatchSound
<1>2. request' = Launched /\ inflight' = Append(inflight, LaunchedStep) /\ DOMAIN LaunchedStep = DOMAIN loc.batch
  BY CommitFacts, LaunchedFacts DEF Base
<1>3. /\ loc'.batch = <<>> /\ UNCHANGED <<config, todo>>
      /\ sampled' = [r \in Reqs |-> IF r \in finished_req_ids THEN 0 ELSE sampled[r]]
  BY DEF Commit, Idle, output, env
<1>4. inflight \in Seq(Seq(StepEntry)) /\ \A i \in 0 .. Len(inflight) : Positive(Nth(todo, inflight, i))
  BY AllPositive
<1>5. Depth = 1 => inflight = <<>> /\ todo = <<>>
  <2>1. InSchedule
    BY DEF Commit, InSchedule
  <2>2. QED BY <2>1, NoSteps DEF Base
<1>6. ASSUME NEW r \in Reqs PROVE FineNow(r)'
  <2> DEFINE p == request[r]
             q == request'[r]
             u == Settled(r)
             s == sampled[r]
             f == LaunchedStep
  <2>1. /\ u \in BOOLEAN /\ Steady(p, r, u) /\ p \in AnyRequest
        /\ p.status # "FINISHED" => Tracked(p, r, todo, inflight, u, s)
    BY <1>1 DEF Tokens, AllFine, Fine, Settled
  <2>2. p.drop_stale_output \in BOOLEAN
    BY <2>1 DEF AnyRequest
  <2>3. p.status # "FINISHED" => sampled'[r] = s
    BY <1>1, <1>3 DEF Tokens, FinishedToldOnce
  <2>4. CASE \A i \in DOMAIN loc.batch : loc.batch[i].req # r
    <3>1. q = p
      <4>1. r \notin {e.req : e \in ToSet(loc.batch)}
        BY <2>4 DEF ToSet
      <4>2. QED BY <1>2, <4>1 DEF Launched
    <3>2. Settled(r)' = u
      <4>1. Settled(r)' <=> u
        BY <1>3, <2>4, <3>1 DEF Settled
      <4>2. QED BY <4>1 DEF Settled
    <3>3. Absent(f, r)
      <4>1. \A j \in DOMAIN loc.batch : LaunchedStep[j].req = loc.batch[j].req
        BY LaunchedFacts DEF Base
      <4>2. QED BY <4>1, <1>2, <2>4 DEF Absent
    <3>4. Adds(f, r, 0, 0)
      BY <3>3 DEF Adds, Absent
    <3> HIDE DEF f, p, u, s
    <3>5. ASSUME p.status # "FINISHED" PROVE Tracked(p, r, todo, Append(inflight, f), u, s)
      <4>1. Tracked(p, r, todo, inflight, u, s)
        BY <2>1, <3>5
      <4>2. p.num_in_flight_tokens \in Nat /\ Ahead(p, u) \in Nat
        BY <4>1, <2>1, <1>4, TrackedBounds
      <4>3. p.num_in_flight_tokens = p.num_in_flight_tokens + 0 /\ Ahead(p, u) = Ahead(p, u) + 0
        BY <4>2
      <4>4. QED BY <4>1, <4>3, <3>3, <3>4, <2>1, <2>2, <1>4, LaunchTracked
    <3>6. Fine(p, r, todo, Append(inflight, f), u, s)
      BY <2>1, <3>5 DEF Fine
    <3>7. Fine(request'[r], r, todo', inflight', Settled(r)', sampled'[r])
      <4>1. CASE p.status # "FINISHED"
        BY <3>6, <4>1, <3>1, <3>2, <2>3, <1>2, <1>3 DEF f
      <4>2. CASE p.status = "FINISHED"
        <5>1. Fine(p, r, todo', inflight', u, sampled'[r])
          BY <2>1, <4>2 DEF Fine
        <5>2. QED BY <5>1, <3>1, <3>2
      <4>3. QED BY <4>1, <4>2
    <3>8. QED BY <3>7, <1>3, FinePrimed
  <2>5. ASSUME NEW i \in DOMAIN loc.batch, loc.batch[i].req = r PROVE FineNow(r)'
    <3> DEFINE b == loc.batch[i]
               g == LaunchedStep[i]
               n == b.n
               drafts == b.drafts
               due == IF q.is_prefill_chunk THEN 0 ELSE 1 + drafts
    <3>1. /\ n \in Int /\ n > 0 /\ drafts \in Int /\ p.status = "RUNNING"
          /\ q = Advanced(p, n, drafts)
          /\ g.req = r /\ g.n = n /\ g.drafts = drafts /\ g.samples = ~q.is_prefill_chunk
          /\ g.prefix = IF b.new THEN p.num_tokens ELSE 0
      BY <2>5, LaunchEntry
    <3>2. drafts = AtLeast(p.num_computed_tokens + n - p.num_tokens - p.num_output_placeholders, 0)
      BY <2>5 DEF Tokens, DraftsRight
    <3>3. \A j \in DOMAIN LaunchedStep : LaunchedStep[j].req = r => j = i
      <4>1. \A j \in DOMAIN loc.batch : LaunchedStep[j].req = loc.batch[j].req
        BY LaunchedFacts DEF Base
      <4>2. QED BY <4>1, <1>1, <1>2, <2>5 DEF OncePerStep
    <3>4. u <=> ~b.new
      <4>1. \A j \in DOMAIN loc.batch : loc.batch[j].req = r => j = i
        BY <1>1, <2>5 DEF OncePerStep
      <4>2. QED BY <4>1, <3>1, <2>5 DEF Settled
    <3>5. b.new \in BOOLEAN
      <4>1. b \in BatchEntry
        BY <1>1
      <4>2. QED BY <4>1 DEF BatchEntry
    <3>6. Settled(r)' = TRUE
      <4>1. q.status = "RUNNING"
        BY <3>1, <2>1, <1>1, AdvancedFacts
      <4>2. QED BY <4>1, <1>3 DEF Settled
    <3> HIDE DEF b, g, n, drafts, p, u, s, q, f
    <3>7. Tracked(p, r, todo, inflight, u, s)
      BY <2>1, <3>1
    <3>8. Depth = 1 => Ahead(p, u) = 0
      <4>1. ASSUME Depth = 1 PROVE Ahead(p, u) = 0
        <5>1. inflight = <<>> /\ Absent(todo, r)
          BY <1>5, <4>1 DEF Absent
        <5>2. QED BY <5>1, <3>7, <2>1, TrackedEmpty
      <4>2. QED BY <4>1
    <3>9. p.num_spec >= 0 /\ p.num_output_placeholders = IF Depth > 1 THEN Ahead(p, u) ELSE 0
      BY <2>1 DEF Steady
    <3>10. /\ drafts >= 0 /\ Ahead(q, TRUE) = Ahead(p, u) + due
           /\ q.num_output_placeholders = IF Depth > 1 THEN Ahead(q, TRUE) ELSE 0
      <4> DEFINE a == Advanced(p, n, drafts)
      <4>1. p \in AnyRequest /\ n \in Int /\ n > 0 /\ drafts \in Int /\ u \in BOOLEAN /\ config \in Configs
        BY <3>1, <2>1, <1>1
      <4>2. /\ drafts >= 0
            /\ Ahead(a, TRUE) = Ahead(p, u) + IF a.is_prefill_chunk THEN 0 ELSE 1 + drafts
            /\ a.num_output_placeholders = IF Depth > 1 THEN Ahead(a, TRUE) ELSE 0
        BY <4>1, <3>2, <3>8, <3>9, LaunchCounts
      <4>3. q = a
        BY <3>1
      <4> HIDE DEF a
      <4>4. QED BY <4>2, <4>3
    <3>11. /\ q.num_in_flight_tokens = p.num_in_flight_tokens + n
           /\ q.num_stale_output_tokens = p.num_stale_output_tokens
           /\ q.num_tokens = p.num_tokens /\ q.drop_stale_output = p.drop_stale_output
           /\ q.num_computed_tokens = p.num_computed_tokens + n /\ q.status = p.status
           /\ q.num_prompt_tokens = p.num_prompt_tokens /\ q.num_spec >= 0
      BY <3>1, <3>9, <2>1, <1>1, AdvancedFacts, AdvancedCounters
    <3>12. due \in Nat /\ n \in Nat
      BY <3>1, <3>10
    <3>13. Due(g) = due
      <4>1. g.samples <=> ~q.is_prefill_chunk
        BY <3>1, Zenon
      <4>2. QED BY <4>1, <3>1, Zenon DEF Due
    <3> HIDE DEF due
    <3>14. Adds(f, r, n, due)
      <4>1. f[i] = g /\ i \in DOMAIN f /\ \A j \in DOMAIN f : f[j].req = r => j = i
        BY <3>3, <1>2 DEF f, g
      <4>2. QED BY <4>1, <3>1, <3>10, <3>13 DEF Adds, Absent
    <3>15. \/ ~NewIn(f, r) /\ u
           \/ /\ NewIn(f, r) /\ PrefixIs(f, r, p.num_tokens)
              /\ p.num_stale_output_tokens = p.num_in_flight_tokens
              /\ p.drop_stale_output \/ p.num_stale_output_tokens = 0
              /\ Ahead(p, u) = 0
      <4>1. f[i] = g /\ i \in DOMAIN f /\ \A j \in DOMAIN f : f[j].req = r => j = i
        BY <3>3, <1>2 DEF f, g
      <4>2. CASE ~b.new
        BY <4>1, <4>2, <3>1, <3>4 DEF NewIn
      <4>3. CASE b.new
        <5>1. ~u /\ g.prefix = p.num_tokens
          BY <3>1, <3>4, <4>3
        <5>2. p.num_tokens > 0
          <6>1. PromptLen[r] >= 1 /\ PromptLen[r] \in Int
            BY <1>1, ConfigFacts
          <6>2. p.num_tokens >= PromptLen[r] /\ p.num_tokens \in Int
            BY <2>1 DEF Steady, AnyRequest
          <6>3. QED BY <6>1, <6>2
        <5>3. NewIn(f, r) /\ PrefixIs(f, r, p.num_tokens)
          BY <4>1, <5>1, <5>2, <3>1 DEF NewIn, PrefixIs
        <5>4. /\ p.num_stale_output_tokens = p.num_in_flight_tokens
              /\ p.num_stale_output_tokens > 0 => p.drop_stale_output
          BY <5>1, <2>1, <3>1 DEF Steady
        <5>5. p.num_stale_output_tokens \in Nat
          BY <3>7, <2>1, <1>4, TrackedBounds
        <5>6. Ahead(p, u) = 0
          BY <5>1 DEF Ahead
        <5>7. QED BY <5>3, <5>4, <5>5, <5>6
      <4>4. QED BY <4>2, <4>3, <3>5
    <3>16. Tracked(q, r, todo, Append(inflight, f), TRUE, s)
      BY <3>7, <3>10, <3>11, <3>12, <3>14, <3>15, <2>1, <2>2, <1>4, LaunchTracked
    <3>17. Steady(q, r, TRUE)
      BY <3>1, <3>10, <3>11, <2>1 DEF Steady
    <3>18. Fine(q, r, todo, Append(inflight, f), TRUE, s)
      BY <3>16, <3>17 DEF Fine
    <3>19. sampled'[r] = s
      BY <2>3, <3>1
    <3>20. QED BY <3>6, <3>18, <3>19, <1>2, <1>3, FinePrimed DEF q, f
  <2>6. QED BY <2>4, <2>5
<1>7. QED BY <1>6 DEF AllFine, FineNow


\* The counters of a request that takes back rejected drafts.
LEMMA RejectedCounters ==
  ASSUME Typed, OutputTurn, NEW accepted \in Int
  PROVE  LET e == Head(todo)
             p == request[e.req]
             q == Rejected(e, accepted)
         IN  /\ q \in AnyRequest /\ q.num_tokens = p.num_tokens
             /\ q.num_prompt_tokens = p.num_prompt_tokens /\ q.num_spec = p.num_spec
             /\ q.num_output_placeholders =
                  IF /\ e.drafts > 0 /\ Took(e, accepted) > 0 /\ ~(p.num_stale_output_tokens > 0)
                     /\ p.num_output_placeholders > 0
                  THEN p.num_output_placeholders - (e.drafts - accepted) ELSE p.num_output_placeholders
             /\ q.drop_stale_output = p.drop_stale_output /\ q.is_prefill_chunk = p.is_prefill_chunk
             /\ q.shared_prefix_boundary = p.shared_prefix_boundary
<1> DEFINE e == Head(todo)
           p == request[e.req]
           t == Took(e, accepted)
           q1 == Returned(p, e.n)
           stale == IsStale(p)
           q == Rejected(e, accepted)
           k == e.drafts - accepted
<1>1. p \in AnyRequest /\ e.n \in Int /\ e.drafts \in Int
  BY HeadFacts
<1> HIDE DEF p, e
<1>2. k \in Int /\ t \in Int
  BY <1>1 DEF Took
<1>3. /\ q1 \in AnyRequest
      /\ q1.num_tokens = p.num_tokens /\ q1.num_output_placeholders = p.num_output_placeholders
      /\ q1.num_prompt_tokens = p.num_prompt_tokens /\ q1.num_spec = p.num_spec
      /\ q1.drop_stale_output = p.drop_stale_output /\ q1.is_prefill_chunk = p.is_prefill_chunk
      /\ q1.shared_prefix_boundary = p.shared_prefix_boundary
  <2> DEFINE a == p.num_in_flight_tokens - e.n
             b == IF p.num_stale_output_tokens > 0
                   THEN p.num_stale_output_tokens - e.n ELSE p.num_stale_output_tokens
  <2>1. q1 \in AnyRequest /\ q1 = [p EXCEPT !.num_in_flight_tokens = a,
                !.num_stale_output_tokens = b]
    BY <1>1, ReturnedTyped
  <2> HIDE DEF a, b, q1
  <2>2. QED BY <2>1, <1>1 DEF AnyRequest
<1>4. stale \in BOOLEAN /\ (stale <=> p.num_stale_output_tokens > 0)
  BY DEF IsStale
<1>5. q = IF e.drafts > 0 /\ t > 0 THEN RolledBack(q1, k, stale) ELSE q1
  BY Zenon DEF Rejected, p
<1> HIDE DEF q1, q, t, stale, k
<1> DEFINE rolled == e.drafts > 0 /\ t > 0 /\ ~stale
           x == IF q1.num_computed_tokens > 0 THEN q1.num_computed_tokens - k
                ELSE q1.num_computed_tokens
           y == IF q1.num_output_placeholders > 0 THEN q1.num_output_placeholders - k
                ELSE q1.num_output_placeholders
<1>6. CASE rolled
  <2>1. q = [q1 EXCEPT !.num_computed_tokens = x, !.num_output_placeholders = y]
    BY <1>5, <1>6, Zenon DEF RolledBack
  <2>2. x \in Int /\ y \in Int
    BY <1>2, <1>3 DEF AnyRequest
  <2> HIDE DEF x, y
  <2>3. /\ q \in AnyRequest /\ q.num_tokens = q1.num_tokens /\ q.num_output_placeholders = y
        /\ q.num_prompt_tokens = q1.num_prompt_tokens /\ q.num_spec = q1.num_spec
        /\ q.drop_stale_output = q1.drop_stale_output /\ q.is_prefill_chunk = q1.is_prefill_chunk
        /\ q.shared_prefix_boundary = q1.shared_prefix_boundary
    BY <2>1, <2>2, <1>3 DEF AnyRequest
  <2>4. y = IF p.num_output_placeholders > 0 THEN p.num_output_placeholders - k
            ELSE p.num_output_placeholders
    BY <1>3 DEF y
  <2>5. QED BY <2>3, <2>4, <1>3, <1>4, <1>6 DEF q, p, e, k, t
<1>7. CASE ~rolled
  <2>1. q = q1
    BY <1>5, <1>7, <1>4, Zenon DEF RolledBack
  <2>2. QED BY <2>1, <1>3, <1>4, <1>7 DEF q, p, e, k, t
<1>8. QED BY <1>6, <1>7

\* How many of the tokens a request keeps: all of them unless it stops.
LEMMA KeepsFacts ==
  ASSUME Typed, OutputTurn, NEW accepted \in Int, NEW eos \in Int, 0 <= accepted, 0 <= eos,
         eos <= Took(Head(todo), accepted), NEW error
  PROVE  LET kept == Keeps(Head(todo), accepted, eos)
             t == Took(Head(todo), accepted)
         IN  /\ kept \in Nat /\ t \in Nat /\ kept <= t
             /\ ~StopsWith(Head(todo), accepted, eos, error) => kept = t
<1> DEFINE e == Head(todo)
           t == Took(e, accepted)
           q == Rejected(e, accepted)
           a == Allowance(q)
           kept == Keeps(e, accepted, eos)
           stops == StopsWith(e, accepted, eos, error)
<1>1. t \in Nat
  BY DEF Took
<1>2. a \in Int
  <2>1. q \in AnyRequest /\ config \in Configs
    BY RejectedCounters DEF Typed
  <2>2. q.num_tokens \in Int /\ q.num_prompt_tokens \in Int
    BY <2>1 DEF AnyRequest
  <2>3. MaxModelLen \in Int /\ MaxTokens \in Int
    BY <2>1, ConfigFacts
  <2> HIDE DEF q, MaxModelLen, MaxTokens
  <2>4. QED BY <2>2, <2>3 DEF Allowance, AtMost
<1>3. kept = AtMost(AtMost(t, AtLeast(a, 1)), IF eos > 0 THEN eos ELSE t)
  BY DEF Keeps
<1>4. ~stops => ~(t > 0 /\ (kept = eos \/ kept >= a))
  BY DEF StopsWith
<1>5. eos <= t
  OBVIOUS
<1> HIDE DEF a, kept, t, stops, e
<1>6. kept \in Nat /\ kept <= t /\ (~stops => kept = t)
  BY <1>1, <1>2, <1>3, <1>4, <1>5 DEF AtMost, AtLeast
<1>7. QED BY <1>1, <1>6 DEF kept, t, stops, e

\* The other counters after the output of a step.
LEMMA OutputCounters ==
  ASSUME Typed, OutputTurn, NEW accepted \in Int, NEW eos \in Int, NEW drafts \in Int,
         0 <= accepted, 0 <= eos, eos <= Took(Head(todo), accepted)
  PROVE  LET e == Head(todo)
             p == request[e.req]
             kept == Keeps(e, accepted, eos)
             q == Output(e, accepted, eos, drafts)
             stale == p.num_stale_output_tokens > 0
         IN  /\ q.num_tokens = p.num_tokens + kept
             /\ q.num_prompt_tokens = p.num_prompt_tokens
             /\ q.num_output_placeholders =
                  (IF e.drafts > 0 /\ Took(e, accepted) > 0 /\ ~stale /\ p.num_output_placeholders > 0
                   THEN p.num_output_placeholders - (e.drafts - accepted) ELSE p.num_output_placeholders)
                  - IF Depth > 1 /\ ~stale THEN kept ELSE 0
             /\ q.num_spec = IF Depth = 1 THEN (IF e.samples THEN drafts ELSE 0) ELSE p.num_spec
             /\ q.drop_stale_output = p.drop_stale_output /\ q.is_prefill_chunk = p.is_prefill_chunk
             /\ q.shared_prefix_boundary = p.shared_prefix_boundary
<1> DEFINE e == Head(todo)
           p == request[e.req]
           stale == IsStale(p)
           q2 == Rejected(e, accepted)
           kept == Keeps(e, accepted, eos)
           nt == q2.num_tokens + kept
           ph == IF Depth > 1 /\ ~stale THEN q2.num_output_placeholders - kept
                 ELSE q2.num_output_placeholders
           ns == IF Depth = 1 THEN (IF e.samples THEN drafts ELSE 0) ELSE q2.num_spec
           q == Output(e, accepted, eos, drafts)
           w == WithOutput(q2, kept, stale)
           ms == IF Depth = 1 THEN (IF e.samples THEN drafts ELSE 0) ELSE w.num_spec
           old == IF /\ e.drafts > 0 /\ Took(e, accepted) > 0 /\ ~(p.num_stale_output_tokens > 0)
                     /\ p.num_output_placeholders > 0
                  THEN p.num_output_placeholders - (e.drafts - accepted) ELSE p.num_output_placeholders
<1>1. p \in AnyRequest /\ e.drafts \in Int
  BY HeadFacts
<1>2. /\ q2 \in AnyRequest /\ q2.num_tokens = p.num_tokens
      /\ q2.num_prompt_tokens = p.num_prompt_tokens /\ q2.num_spec = p.num_spec
      /\ q2.num_output_placeholders = old
      /\ q2.drop_stale_output = p.drop_stale_output /\ q2.is_prefill_chunk = p.is_prefill_chunk
      /\ q2.shared_prefix_boundary = p.shared_prefix_boundary
  BY RejectedCounters
<1>3. kept \in Nat
  BY KeepsFacts
<1>4. q = [w EXCEPT !.num_spec = ms]
  BY Zenon DEF Output
<1>5. w = [q2 EXCEPT !.num_tokens = nt, !.num_output_placeholders = ph]
  BY Zenon DEF WithOutput
<1>6. stale <=> p.num_stale_output_tokens > 0
  BY DEF IsStale
<1> HIDE DEF p, e, old, q2, kept, w, q, stale
<1>7. nt \in Int /\ ph \in Int
  BY <1>2, <1>3 DEF AnyRequest
<1>8. ph = old - IF Depth > 1 /\ ~stale THEN kept ELSE 0
  <2>1. old \in Int
    BY <1>2 DEF AnyRequest
  <2>2. QED BY <2>1, <1>2, <1>3
<1>9. nt = p.num_tokens + kept
  BY <1>2
<1> HIDE DEF nt, ph
<1>10. /\ w.num_spec = q2.num_spec /\ w.num_tokens = nt /\ w.num_output_placeholders = ph
       /\ w.num_prompt_tokens = q2.num_prompt_tokens
       /\ w.drop_stale_output = q2.drop_stale_output /\ w.is_prefill_chunk = q2.is_prefill_chunk
       /\ w.shared_prefix_boundary = q2.shared_prefix_boundary
       /\ w \in AnyRequest
  BY <1>5, <1>2, <1>7 DEF AnyRequest
<1>11. ms = ns
  BY <1>10
<1> HIDE DEF ms
<1>12. /\ q.num_spec = ms /\ q.num_tokens = w.num_tokens
       /\ q.num_output_placeholders = w.num_output_placeholders
       /\ q.num_prompt_tokens = w.num_prompt_tokens
       /\ q.drop_stale_output = w.drop_stale_output /\ q.is_prefill_chunk = w.is_prefill_chunk
       /\ q.shared_prefix_boundary = w.shared_prefix_boundary
  BY <1>4, <1>10 DEF AnyRequest
<1>13. q.num_spec = IF Depth = 1 THEN (IF e.samples THEN drafts ELSE 0) ELSE p.num_spec
  BY <1>11, <1>12, <1>2
<1>14. QED BY <1>2, <1>6, <1>8, <1>9, <1>10, <1>12, <1>13 DEF q, p, e, kept, old, stale


\* The requests that the answered entry is not about.
LEMMA OthersAnswer ==
  ASSUME Base, AllFine, OutputTurn, UNCHANGED <<config, inflight>>, todo' = Tail(todo),
         loc'.batch = loc.batch, NEW s \in Reqs, s # Head(todo).req, request'[s] = request[s],
         sampled'[s] = sampled[s]
  PROVE  FineNow(s)'
<1> DEFINE u == Settled(s)
<1>1. Settled(s)' = u /\ u \in BOOLEAN
  <2>1. Settled(s)' <=> u
    BY DEF Settled
  <2>2. QED BY <2>1 DEF Settled
<1>2. todo \in Seq(StepEntry) /\ todo # <<>> /\ OncePerStep(todo) /\ Head(todo) = todo[1]
  BY TodoFacts DEF OutputTurn, StepSound
<1>3. Tail(todo) \in Seq(StepEntry) /\ \A i \in DOMAIN Tail(todo) : i + 1 \in DOMAIN todo /\ Tail(todo)[i] = todo[i + 1]
  BY <1>2, TailOnce
<1>4. \A j \in DOMAIN Tail(todo) : Tail(todo)[j].req = s => \E i \in DOMAIN todo : todo[i] = Tail(todo)[j]
  BY <1>3
<1>5. ASSUME NEW j \in DOMAIN todo, todo[j].req = s PROVE \E i \in DOMAIN Tail(todo) : Tail(todo)[i] = todo[j]
  <2>1. j # 1
    BY <1>2, <1>5
  <2>2. DOMAIN todo = 1 .. Len(todo) /\ DOMAIN Tail(todo) = 1 .. Len(todo) - 1 /\ Len(todo) \in Nat
    BY <1>2
  <2>3. j - 1 \in DOMAIN Tail(todo) /\ j - 1 + 1 = j
    BY <2>1, <2>2
  <2>4. QED BY <2>3, <1>3
<1>6. Fine(request[s], s, todo, inflight, u, sampled[s]) /\ Len(inflight) \in Nat
  BY AllPositive DEF AllFine
<1> HIDE DEF u
<1>7. Fine(request[s], s, Tail(todo), inflight, u, sampled[s])
  <2>1. request[s].status # "FINISHED" => Tracked(request[s], s, Tail(todo), inflight, u, sampled[s])
    <3>1. \A j \in DOMAIN todo : todo[j].req = s => \E i \in DOMAIN Tail(todo) : Tail(todo)[i] = todo[j]
      BY <1>5
    <3> SUFFICES ASSUME request[s].status # "FINISHED"
                 PROVE  Tracked(request[s], s, Tail(todo), inflight, u, sampled[s])
      OBVIOUS
    <3>2. Tracked(request[s], s, todo, inflight, u, sampled[s]) /\ u \in BOOLEAN
      BY <1>1, <1>6 DEF Fine
    <3> DEFINE p == request[s]
               t == Tail(todo)
               n == sampled[s]
    <3>3. /\ Tracked(p, s, todo, inflight, u, n) /\ u \in BOOLEAN /\ Len(inflight) \in Nat
          /\ \A j \in DOMAIN t : t[j].req = s => \E i \in DOMAIN todo : todo[i] = t[j]
          /\ \A j \in DOMAIN todo : todo[j].req = s => \E i \in DOMAIN t : t[i] = todo[j]
      BY <3>1, <3>2, <1>4, <1>6
    <3> HIDE DEF p, t, n
    <3>4. Tracked(p, s, t, inflight, u, n)
      BY <3>3, TrackedBeside
    <3>5. QED BY <3>4 DEF p, t, n
  <2>2. QED BY <2>1, <1>6 DEF Fine
<1>8. Fine(request'[s], s, todo', inflight', Settled(s)', sampled'[s])
  BY <1>1, <1>7
<1>9. QED BY <1>8, FinePrimed

\* What the next entry meets: its tokens are in flight, and if they are not
\* stale its request runs and awaits what the entry adds.
LEMMA HeadMeets ==
  ASSUME Base, AllFine, OutputTurn, Live(Head(todo).req)
  PROVE  LET e == Head(todo)
             r == e.req
             p == request[r]
             u == Settled(r)
         IN  /\ r \in Reqs /\ p \in AnyRequest /\ p.status \notin {"NEW", "FINISHED"}
             /\ e.n \in Int /\ e.n > 0 /\ e.drafts \in Nat /\ e.samples \in BOOLEAN /\ Due(e) \in Int
             /\ u \in BOOLEAN /\ (u <=> p.status = "RUNNING")
             /\ Steady(p, r, u) /\ Tracked(p, r, todo, inflight, u, sampled[r])
             /\ 1 \in DOMAIN todo /\ todo[1] = e /\ (\A i \in DOMAIN todo : todo[i].req = r => i = 1)
             /\ Absent(Tail(todo), r) /\ Len(inflight) \in Nat
             /\ p.num_tokens \in Int /\ p.num_tokens >= 1
             /\ p.num_stale_output_tokens \in Nat
             /\ ~(p.num_stale_output_tokens > 0) => u /\ Ahead(p, u) >= Due(e)
             /\ ~(p.num_stale_output_tokens > 0 /\ p.drop_stale_output) => p.num_tokens = SampledBefore(e)
<1> DEFINE e == Head(todo)
           r == e.req
           p == request[r]
           u == Settled(r)
<1>1. /\ r \in Reqs /\ e.n \in Int /\ p \in AnyRequest /\ e.drafts \in Int /\ e.samples \in BOOLEAN
      /\ config \in Configs
  BY HeadFacts DEF Base
<1>2. /\ e = todo[1] /\ 1 \in DOMAIN todo /\ e.n > 0 /\ OncePerStep(todo)
      /\ \A i \in DOMAIN Tail(todo) : Tail(todo)[i].req # r
  BY TodoFacts DEF StepSound
<1>3. p.status \notin {"NEW", "FINISHED"}
  BY DEF Live
<1>4. u \in BOOLEAN /\ (u <=> p.status = "RUNNING")
  <2>1. loc.batch = <<>>
    BY DEF OutputTurn, Base, Phases, Idle
  <2>2. QED BY <2>1 DEF Settled
<1>5. Fine(p, r, todo, inflight, u, sampled[r]) /\ Len(inflight) \in Nat
  BY <1>1, AllPositive DEF AllFine
<1>6. Steady(p, r, u) /\ Tracked(p, r, todo, inflight, u, sampled[r])
  BY <1>3, <1>5 DEF Fine
<1>7. \A i \in DOMAIN todo : todo[i].req = r => i = 1
  BY <1>2 DEF OncePerStep
<1>8. p.num_tokens \in Int /\ p.num_tokens >= 1 /\ p.drop_stale_output \in BOOLEAN
  <2>1. PromptLen[r] \in Int /\ PromptLen[r] >= 1
    BY <1>1, ConfigFacts
  <2>2. p.num_tokens \in Int /\ p.num_tokens >= PromptLen[r] /\ p.drop_stale_output \in BOOLEAN
    BY <1>1, <1>6 DEF Steady, AnyRequest
  <2>3. QED BY <2>1, <2>2
<1>9. SampledBefore(e) = IF e.prefix > 0 THEN e.prefix ELSE sampled[r]
  BY DEF SampledBefore
<1> HIDE DEF u, p, r, e
<1>10. p.num_stale_output_tokens \in Nat
  BY <1>4, <1>5, <1>6, TrackedBounds
<1>11. Due(e) \in Int
  BY <1>1 DEF Due
<1>12. /\ e.drafts >= 0 /\ p.num_in_flight_tokens >= e.n
       /\ ~(p.num_stale_output_tokens > 0) /\ Due(e) \in Int => Ahead(p, u) >= Due(e)
       /\ ~(p.num_stale_output_tokens > 0 /\ p.drop_stale_output) =>
            p.num_tokens = IF e.prefix > 0 THEN e.prefix ELSE sampled[r]
  <2>1. todo[1].req = r /\ todo[1].n > 0 /\ todo[1].n \in Int
    BY <1>1, <1>2 DEF r
  <2>2. /\ todo[1].drafts >= 0 /\ p.num_in_flight_tokens >= todo[1].n
        /\ ~(p.num_stale_output_tokens > 0) /\ Due(todo[1]) \in Int => Ahead(p, u) >= Due(todo[1])
        /\ ~(p.num_stale_output_tokens > 0 /\ p.drop_stale_output) =>
             p.num_tokens = IF todo[1].prefix > 0 THEN todo[1].prefix ELSE sampled[r]
    BY <1>2, <1>4, <1>5, <1>6, <1>7, <1>8, <2>1, EntryMeets
  <2>3. QED BY <2>2, <1>2
<1>13. ~(p.num_stale_output_tokens > 0) => u
  <2>1. ~u => p.num_stale_output_tokens = p.num_in_flight_tokens
    BY <1>6 DEF Steady
  <2>2. p.num_in_flight_tokens \in Int
    BY <1>1 DEF AnyRequest
  <2>3. QED BY <2>1, <2>2, <1>1, <1>2, <1>12
<1>14. Absent(Tail(todo), r)
  BY <1>2 DEF Absent
<1>15. QED BY <1>1, <1>2, <1>3, <1>4, <1>5, <1>6, <1>7, <1>8, <1>9, <1>10, <1>11, <1>12, <1>13, <1>14
          DEF u, p, r, e

\* Stale output is dropped.
LEMMA FineDrops ==
  ASSUME Base, AllFine, DropOutput PROVE AllFine'
<1>0. PICK r \in Reqs : r = Head(todo).req
  BY HeadFacts DEF Base, DropOutput
<1> DEFINE e == Head(todo)
           p == request[r]
           q == Returned(p, e.n)
           u == Settled(r)
           s == sampled[r]
<1>1. /\ OutputTurn /\ todo' = Tail(todo) /\ UNCHANGED <<config, inflight, loc, sampled>>
      /\ ~Live(r) \/ (p.num_stale_output_tokens > 0 /\ p.drop_stale_output)
      /\ request' = IF Live(r) THEN [request EXCEPT ![r] = q] ELSE request
  BY <1>0 DEF DropOutput, env, worker, IsStale
<1>2. request \in [Reqs -> AnyRequest] /\ config \in Configs
  BY DEF Base, Typed
<1>3. ASSUME NEW x \in Reqs, x # r PROVE FineNow(x)'
  <2>1. request'[x] = request[x]
    BY <1>1, <1>2, <1>3
  <2>2. QED BY <2>1, <1>0, <1>1, <1>3, OthersAnswer
<1>4. FineNow(r)'
  <2>1. u \in BOOLEAN /\ Fine(p, r, todo, inflight, u, s)
    BY DEF AllFine, Settled
  <2>2. CASE ~Live(r)
    <3>1. p.status \in {"NEW", "FINISHED"} /\ request'[r] = p
      BY <1>1, <2>2 DEF Live
    <3>2. p.status # "NEW"
      BY <1>0, <1>1, TodoFacts
    <3>3. Settled(r)' = u
      <4>1. ~Settled(r)' /\ ~u
        BY <3>1 DEF Settled
      <4>2. QED BY <4>1 DEF Settled
    <3> HIDE DEF p, u
    <3>4. Fine(p, r, todo', inflight', u, sampled'[r])
      BY <3>1, <3>2, <2>1 DEF Fine
    <3>5. QED BY <3>1, <3>3, <3>4, <1>1, FinePrimed
  <2>3. CASE Live(r)
    <3>1. request'[r] = q
      BY <1>1, <1>2, <2>3
    <3>2. /\ r \in Reqs /\ p \in AnyRequest /\ p.status \notin {"NEW", "FINISHED"}
          /\ e.n \in Int /\ e.n > 0 /\ Due(e) \in Int
          /\ u \in BOOLEAN /\ Steady(p, r, u) /\ Tracked(p, r, todo, inflight, u, s)
          /\ 1 \in DOMAIN todo /\ todo[1] = e /\ (\A i \in DOMAIN todo : todo[i].req = r => i = 1)
          /\ Absent(Tail(todo), r) /\ Len(inflight) \in Nat
      BY <1>0, <1>1, <2>3, HeadMeets
    <3>3. e.req = r
      BY <1>0
    <3>4. p.num_stale_output_tokens > 0 /\ p.drop_stale_output
      BY <1>1, <2>3
    <3>5. /\ q.num_in_flight_tokens = p.num_in_flight_tokens - e.n
          /\ q.num_stale_output_tokens = p.num_stale_output_tokens - e.n
          /\ q.num_tokens = p.num_tokens /\ q.num_prompt_tokens = p.num_prompt_tokens
          /\ q.num_computed_tokens = p.num_computed_tokens /\ q.num_spec = p.num_spec
          /\ q.num_output_placeholders = p.num_output_placeholders /\ q.status = p.status
          /\ q.drop_stale_output = p.drop_stale_output /\ q.is_prefill_chunk = p.is_prefill_chunk
      <4> DEFINE a == p.num_in_flight_tokens - e.n
                 b == IF p.num_stale_output_tokens > 0
                      THEN p.num_stale_output_tokens - e.n ELSE p.num_stale_output_tokens
      <4>1. q \in AnyRequest /\ q = [p EXCEPT !.num_in_flight_tokens = a, !.num_stale_output_tokens = b]
        BY <3>2, ReturnedTyped
      <4>2. b = p.num_stale_output_tokens - e.n
        BY <3>4
      <4> HIDE DEF a, b, q, p
      <4>3. QED BY <4>1, <4>2, <3>2 DEF AnyRequest, a
    <3>6. Settled(r)' = u
      <4>1. Settled(r)' <=> u
        BY <3>1, <3>5, <1>1 DEF Settled
      <4>2. QED BY <4>1 DEF Settled
    <3> HIDE DEF p, q, u, s, e
    <3>7. Ahead(q, u) = Ahead(p, u)
      BY <3>5 DEF Ahead
    <3>8. Steady(q, r, u)
      BY <3>2, <3>4, <3>5, <3>7 DEF Steady
    <3>9. p.drop_stale_output \in BOOLEAN
      BY <3>2 DEF AnyRequest
    <3>10. Tracked(q, r, Tail(todo), inflight, u, s)
      <4>1. todo[1].req = r /\ todo[1].n > 0 /\ todo[1].n \in Int /\ Due(todo[1]) \in Int
        BY <3>2, <3>3
      <4>2. q.num_in_flight_tokens = p.num_in_flight_tokens - todo[1].n
        BY <3>2, <3>5
      <4>3. /\ q.num_stale_output_tokens = IF p.num_stale_output_tokens > 0
                 THEN p.num_stale_output_tokens - todo[1].n ELSE p.num_stale_output_tokens
            /\ Ahead(q, u) = IF p.num_stale_output_tokens > 0 THEN Ahead(p, u)
                       ELSE Ahead(p, u) - Due(todo[1])
            /\ IF p.num_stale_output_tokens > 0 /\ p.drop_stale_output
               THEN s = s /\ q.num_tokens = p.num_tokens ELSE s = q.num_tokens
        BY <3>2, <3>4, <3>5, <3>7
      <4>4. q.drop_stale_output = p.drop_stale_output
        BY <3>5
      <4>5. QED BY <4>1, <4>2, <4>3, <4>4, <3>2, <3>9, AnswerTracked
    <3>11. Fine(q, r, Tail(todo), inflight, u, s)
      BY <3>8, <3>10 DEF Fine
    <3>12. Fine(request'[r], r, todo', inflight', Settled(r)', sampled'[r])
      BY <3>1, <3>6, <3>11, <1>1 DEF s
    <3>13. QED BY <3>12, <1>1, FinePrimed
  <2>4. QED BY <2>2, <2>3
<1>5. QED BY <1>3, <1>4 DEF AllFine, FineNow

\* The oldest step is taken up.
LEMMA FineTakes ==
  ASSUME Base, AllFine, BeginOutput PROVE AllFine'
<1>1. /\ inflight # <<>> /\ todo' = Head(inflight) /\ inflight' = Tail(inflight)
      /\ UNCHANGED <<config, request, loc, sampled>> /\ pc = "idle"
  BY DEF BeginOutput, env
<1>2. todo = <<>> /\ inflight \in Seq(Seq(StepEntry))
  BY <1>1, IdleFacts DEF Base, Typed
<1>3. ASSUME NEW r \in Reqs PROVE FineNow(r)'
  <2> DEFINE p == request[r]
             u == Settled(r)
             s == sampled[r]
  <2>1. u \in BOOLEAN /\ Fine(p, r, todo, inflight, u, s) /\ Settled(r)' = u
    <3>1. Settled(r)' <=> u
      BY <1>1 DEF Settled
    <3>2. QED BY <3>1 DEF AllFine, Settled
  <2>2. p.drop_stale_output \in BOOLEAN
    BY DEF Base, Typed, AnyRequest
  <2>3. Absent(todo, r)
    BY <1>2 DEF Absent
  <2> HIDE DEF p, u, s
  <2>4. p.status # "FINISHED" => Tracked(p, r, Head(inflight), Tail(inflight), u, s)
    BY <1>1, <1>2, <2>1, <2>2, <2>3, TakeTracked DEF Fine
  <2>5. Fine(p, r, Head(inflight), Tail(inflight), u, s)
    BY <2>1, <2>4 DEF Fine
  <2>6. Fine(request'[r], r, todo', inflight', Settled(r)', sampled'[r])
    BY <2>1, <2>5, <1>1 DEF p, s
  <2>7. QED BY <2>6, <1>1, FinePrimed
<1>4. QED BY <1>3 DEF AllFine, FineNow


\* A session between two chunks, with no step in flight.
LEMMA FineBetween ==
  ASSUME NEW r \in Sessions, NEW q \in AnyRequest, NEW step, NEW s, Absent(step, r),
         q.status \in {"WAITING", "WAITING_FOR_STREAMING_REQ"}, q.num_in_flight_tokens = 0,
         q.num_stale_output_tokens = 0, q.num_output_placeholders = 0, q.num_spec >= 0,
         q.num_tokens >= PromptLen[r],
         q.status = "WAITING_FOR_STREAMING_REQ" => q.num_computed_tokens + 1 >= q.num_tokens
  PROVE  Fine(q, r, step, <<>>, FALSE, s)
<1>1. Steady(q, r, FALSE)
  BY DEF Steady, Ahead
<1>2. q.drop_stale_output \in BOOLEAN
  BY DEF AnyRequest
<1>3. Tracked(q, r, step, <<>>, FALSE, s)
  BY <1>2, TrackedNone
<1>4. QED BY <1>1, <1>3 DEF Fine

\* The counters of a session that goes on with its next chunk.
LEMMA SessionCounters ==
  ASSUME NEW q \in AnyRequest
  PROVE  /\ UpdatedSession(q).num_spec = q.num_spec /\ Popped(q).num_spec = q.num_spec
         /\ UpdatedSession(q).num_output_placeholders = q.num_output_placeholders
BY DEF UpdatedSession, Popped, AnyRequest

\* What the output of an entry that is not stale takes from what is awaited.
LEMMA OutputAhead ==
  ASSUME Base, AllFine, OutputTurn, NEW r \in Reqs, r = Head(todo).req, Live(r),
         NEW accepted \in Int, NEW eos \in Int, NEW drafts \in Int,
         accepted \in 0 .. (IF Head(todo).samples /\ ~Head(todo).padded THEN Head(todo).drafts ELSE 0),
         eos \in 0 .. Took(Head(todo), accepted), ~(request[r].num_stale_output_tokens > 0)
  PROVE  LET e == Head(todo)
             p == request[r]
             t == Took(e, accepted)
             kept == Keeps(e, accepted, eos)
             q == Output(e, accepted, eos, drafts)
         IN  /\ t > 0 => /\ ~p.is_prefill_chunk /\ q.num_computed_tokens + 1 >= p.num_tokens + t
                         /\ q.num_computed_tokens >= p.num_tokens
             /\ kept = t => /\ Ahead(q, TRUE) = Ahead(p, TRUE) - Due(e)
                            /\ q.num_output_placeholders = IF Depth > 1 THEN Ahead(q, TRUE) ELSE 0
             /\ Depth = 1 => q.num_output_placeholders = 0
<1> DEFINE e == Head(todo)
           p == request[r]
           t == Took(e, accepted)
           kept == Keeps(e, accepted, eos)
           q == Output(e, accepted, eos, drafts)
           a == Ahead(p, TRUE)
           stale == p.num_stale_output_tokens > 0
<1>1. /\ p \in AnyRequest /\ e.drafts \in Nat /\ e.samples \in BOOLEAN /\ Due(e) \in Int
      /\ Steady(p, r, TRUE) /\ p.num_tokens >= 1 /\ p.num_tokens \in Int /\ a >= Due(e)
  <2>1. Live(Head(todo).req)
    OBVIOUS
  <2> DEFINE v == Settled(Head(todo).req)
  <2>2. /\ p \in AnyRequest /\ e.drafts \in Nat /\ e.samples \in BOOLEAN /\ Due(e) \in Int
        /\ v \in BOOLEAN /\ Steady(p, r, v) /\ p.num_tokens >= 1 /\ p.num_tokens \in Int
        /\ v /\ Ahead(p, v) >= Due(e)
    BY <2>1, HeadMeets
  <2>3. v = TRUE
    BY <2>2
  <2> HIDE DEF v, p, e
  <2>4. QED BY <2>2, <2>3
<1>2. t \in Nat /\ accepted \in Nat /\ accepted <= e.drafts /\ eos <= t /\ eos >= 0
      /\ t = (IF e.samples THEN accepted + 1 ELSE 0) /\ kept \in Nat
  <2>1. 0 <= accepted /\ accepted <= e.drafts
    BY <1>1
  <2>2. t \in Nat /\ eos <= t /\ eos >= 0
    BY <1>1 DEF Took
  <2>3. kept \in Nat
    BY <2>1, <2>2, KeepsFacts DEF Base
  <2>4. QED BY <2>1, <2>2, <2>3 DEF Took
<1>3. /\ q \in AnyRequest /\ q.num_tokens = p.num_tokens + kept
      /\ q.num_computed_tokens = (IF e.drafts > 0 /\ t > 0 /\ p.num_computed_tokens > 0
                                  THEN p.num_computed_tokens - (e.drafts - accepted)
                                  ELSE p.num_computed_tokens)
      /\ q.num_output_placeholders =
           (IF e.drafts > 0 /\ t > 0 /\ p.num_output_placeholders > 0
            THEN p.num_output_placeholders - (e.drafts - accepted) ELSE p.num_output_placeholders)
           - IF Depth > 1 THEN kept ELSE 0
      /\ q.is_prefill_chunk = p.is_prefill_chunk
  <2>1. 0 <= accepted /\ 0 <= eos /\ eos <= Took(Head(todo), accepted) /\ Typed
    BY <1>2 DEF Base
  <2>2. p.num_stale_output_tokens <= 0 /\ ~stale
    BY <1>1, SMTT(30) DEF AnyRequest
  <2>3. /\ q.num_tokens = p.num_tokens + kept
        /\ q.num_output_placeholders =
                  (IF e.drafts > 0 /\ t > 0 /\ ~stale /\ p.num_output_placeholders > 0
                   THEN p.num_output_placeholders - (e.drafts - accepted) ELSE p.num_output_placeholders)
                  - IF Depth > 1 /\ ~stale THEN kept ELSE 0
        /\ q.is_prefill_chunk = p.is_prefill_chunk
    BY <2>1, OutputCounters
  <2>4. /\ q \in AnyRequest
        /\ q.num_computed_tokens =
                  IF e.drafts > 0 /\ t > 0
                     /\ p.num_stale_output_tokens <= 0 /\ p.num_computed_tokens > 0
                  THEN p.num_computed_tokens - (e.drafts - accepted) ELSE p.num_computed_tokens
    BY <2>1, OutputFacts
  <2> HIDE DEF q, p, e, t, kept, stale, Depth
  <2>5. /\ q.num_output_placeholders =
           (IF e.drafts > 0 /\ t > 0 /\ p.num_output_placeholders > 0
            THEN p.num_output_placeholders - (e.drafts - accepted) ELSE p.num_output_placeholders)
           - IF Depth > 1 THEN kept ELSE 0
    BY <2>2, <2>3
  <2>6. QED BY <2>2, <2>3, <2>4, <2>5
<1>4. /\ a = (IF ~p.is_prefill_chunk THEN p.num_computed_tokens + 1 - p.num_tokens ELSE 0)
      /\ Ahead(q, TRUE) = (IF ~q.is_prefill_chunk THEN q.num_computed_tokens + 1 - q.num_tokens ELSE 0)
      /\ Due(e) = (IF e.samples THEN 1 + e.drafts ELSE 0)
      /\ p.num_output_placeholders = (IF Depth > 1 THEN a ELSE 0)
      /\ p.num_computed_tokens \in Int /\ p.num_output_placeholders \in Int
      /\ p.is_prefill_chunk \in BOOLEAN /\ Depth \in Int
  <2>1. Depth \in Int
    BY ConfigFacts DEF Base, Typed
  <2>2. QED BY <1>1, <2>1 DEF Ahead, Due, Steady, AnyRequest
<1> DEFINE w == Ahead(q, TRUE)
           due == Due(e)
<1> HIDE DEF q, p, e, t, kept, a, w, due, stale, Depth
<1>5. /\ w = (IF ~q.is_prefill_chunk THEN q.num_computed_tokens + 1 - q.num_tokens ELSE 0)
      /\ due = (IF e.samples THEN 1 + e.drafts ELSE 0) /\ a >= due
  BY <1>1, <1>4 DEF w, due
<1>6. ASSUME t > 0
      PROVE  /\ ~p.is_prefill_chunk /\ p.num_computed_tokens >= p.num_tokens + e.drafts
             /\ q.num_computed_tokens = p.num_computed_tokens - (e.drafts - accepted)
             /\ t = accepted + 1
  <2>1. e.samples /\ due = 1 + e.drafts /\ a >= 1 + e.drafts /\ t = accepted + 1
    BY <1>6, <1>2, <1>5
  <2>2. ~p.is_prefill_chunk
    BY <2>1, <1>1, <1>4
  <2>3. p.num_computed_tokens >= p.num_tokens + e.drafts
    BY <2>1, <2>2, <1>1, <1>4
  <2>4. p.num_computed_tokens > 0
    BY <2>3, <1>1, <1>4
  <2>5. e.drafts = 0 => accepted = 0
    BY <1>1, <1>2
  <2>6. QED BY <2>1, <2>2, <2>3, <2>4, <2>5, <1>1, <1>2, <1>3, <1>4, <1>6
<1>7. ASSUME t > 0
      PROVE  q.num_computed_tokens + 1 >= p.num_tokens + t /\ q.num_computed_tokens >= p.num_tokens
  BY <1>7, <1>6, <1>1, <1>2, <1>4
<1>8. ASSUME kept = t
      PROVE  w = a - due /\ q.num_output_placeholders = IF Depth > 1 THEN w ELSE 0
  <2>1. CASE t > 0
    <3>1. w = a - due
      BY <2>1, <1>8, <1>6, <1>1, <1>2, <1>3, <1>4, <1>5
    <3>2. due = 1 + e.drafts
      BY <2>1, <1>2, <1>5
    <3>3. CASE Depth > 1
      <4>1. p.num_output_placeholders = a /\ a >= 1 + e.drafts
        BY <3>2, <3>3, <1>4, <1>5
      <4>2. e.drafts = 0 => accepted = 0
        BY <1>1, <1>2
      <4>3. q.num_output_placeholders = a - (e.drafts - accepted) - t
        BY <4>1, <4>2, <3>3, <2>1, <1>8, <1>1, <1>2, <1>3, <1>4
      <4>4. a \in Int
        BY <4>1, <1>4
      <4>5. QED BY <4>3, <4>4, <3>1, <3>2, <3>3, <2>1, <1>1, <1>2, <1>6
    <3>4. CASE ~(Depth > 1)
      <4>1. p.num_output_placeholders = 0
        BY <3>4, <1>4
      <4>2. q.num_output_placeholders = 0
        BY <3>4, <4>1, <1>3
      <4>3. QED BY <3>1, <3>4, <4>2
    <3>5. QED BY <3>1, <3>3, <3>4
  <2>2. CASE ~(t > 0)
    <3>1. t = 0 /\ ~e.samples /\ due = 0 /\ kept = 0
      BY <2>2, <1>2, <1>5, <1>8
    <3>2. /\ q.num_computed_tokens = p.num_computed_tokens /\ q.num_tokens = p.num_tokens
          /\ q.num_output_placeholders = p.num_output_placeholders
      BY <3>1, <1>1, <1>3, <1>4
    <3>3. w = a /\ a \in Int
      <4>1. a \in Int
        BY <1>1, <1>4
      <4>2. QED BY <3>2, <4>1, <1>3, <1>4, <1>5
    <3>4. QED BY <3>1, <3>2, <3>3, <1>4
  <2>3. QED BY <2>1, <2>2
<1>9. Depth = 1 => q.num_output_placeholders = 0
  BY <1>3, <1>4
<1>10. (t > 0 => /\ ~p.is_prefill_chunk /\ q.num_computed_tokens + 1 >= p.num_tokens + t
                 /\ q.num_computed_tokens >= p.num_tokens)
       /\ (kept = t => w = a - due /\ q.num_output_placeholders = IF Depth > 1 THEN w ELSE 0)
  BY <1>6, <1>7, <1>8
<1>11. QED BY <1>9, <1>10 DEF q, p, e, t, kept, w, a, due


\* A request that goes on after its output.
LEMMA FineGoesOn ==
  ASSUME Base, AllFine, NEW accepted \in Int, NEW eos \in Int, NEW error, NEW drafts \in Int,
         drafts >= 0, Deliver(accepted, eos, error, drafts), NEW r \in Reqs, r = Head(todo).req,
         ~StopsWith(Head(todo), accepted, eos, error)
  PROVE  FineNow(r)'
<1> DEFINE e == Head(todo)
           p == request[r]
           q == Output(e, accepted, eos, drafts)
           t == Took(e, accepted)
           kept == Keeps(e, accepted, eos)
           u == Settled(r)
           s == sampled[r]
           s2 == SampledBefore(e) + t
           stale == p.num_stale_output_tokens > 0
<1>1. Delivered(e, e.req, q, accepted, eos, error, drafts)
  BY DeliverFacts
<1>2. /\ OutputTurn /\ Live(r) /\ ~(stale /\ p.drop_stale_output)
      /\ accepted \in 0 .. (IF e.samples /\ ~e.padded THEN e.drafts ELSE 0) /\ eos \in 0 .. t
      /\ sampled' = [sampled EXCEPT ![r] = s2] /\ request' = [request EXCEPT ![r] = q]
      /\ todo' = Tail(todo) /\ UNCHANGED <<config, inflight, loc>>
  BY <1>1 DEF Delivered, IsStale, env
<1>3. /\ p \in AnyRequest /\ p.status \notin {"NEW", "FINISHED"}
      /\ e.n \in Int /\ e.n > 0 /\ e.drafts \in Nat /\ e.samples \in BOOLEAN /\ Due(e) \in Int
      /\ u \in BOOLEAN /\ (u <=> p.status = "RUNNING")
      /\ Steady(p, r, u) /\ Tracked(p, r, todo, inflight, u, s)
      /\ 1 \in DOMAIN todo /\ todo[1] = e /\ (\A i \in DOMAIN todo : todo[i].req = r => i = 1)
      /\ Absent(Tail(todo), r) /\ Len(inflight) \in Nat
      /\ p.num_tokens \in Int /\ p.num_tokens >= 1
      /\ ~stale => u
      /\ p.num_tokens = SampledBefore(e)
  BY <1>2, HeadMeets
<1>4. 0 <= accepted /\ 0 <= eos /\ eos <= t /\ Typed /\ t \in Nat
  <2>1. 0 <= accepted
    BY <1>2, <1>3
  <2>2. t \in Nat
    BY <2>1 DEF Took
  <2>3. QED BY <2>1, <2>2, <1>2 DEF Base
<1>5. kept = t
  BY <1>2, <1>4, KeepsFacts
<1>6. /\ q \in AnyRequest /\ q.status = p.status
      /\ q.num_in_flight_tokens = p.num_in_flight_tokens - e.n
      /\ q.num_stale_output_tokens = (IF p.num_stale_output_tokens > 0
           THEN p.num_stale_output_tokens - e.n ELSE p.num_stale_output_tokens)
      /\ q.num_computed_tokens =
           (IF e.drafts > 0 /\ t > 0
               /\ p.num_stale_output_tokens <= 0 /\ p.num_computed_tokens > 0
            THEN p.num_computed_tokens - (e.drafts - accepted) ELSE p.num_computed_tokens)
  BY <1>2, <1>4, OutputFacts
<1>7. /\ q.num_tokens = p.num_tokens + kept
      /\ q.num_prompt_tokens = p.num_prompt_tokens
      /\ q.num_output_placeholders =
           (IF e.drafts > 0 /\ t > 0 /\ ~stale /\ p.num_output_placeholders > 0
            THEN p.num_output_placeholders - (e.drafts - accepted) ELSE p.num_output_placeholders)
           - (IF Depth > 1 /\ ~stale THEN kept ELSE 0)
      /\ q.num_spec = (IF Depth = 1 THEN (IF e.samples THEN drafts ELSE 0) ELSE p.num_spec)
      /\ q.drop_stale_output = p.drop_stale_output /\ q.is_prefill_chunk = p.is_prefill_chunk
  BY <1>2, <1>4, OutputCounters
<1>8. request'[r] = q /\ sampled'[r] = s2
  <2>1. request \in [Reqs -> AnyRequest] /\ sampled \in [Reqs -> Int]
    BY DEF Base, Typed
  <2>2. QED BY <2>1, <1>2
<1>9. Settled(r)' = u
  <2>1. Settled(r)' <=> u
    BY <1>2, <1>6, <1>8 DEF Settled
  <2>2. QED BY <2>1 DEF Settled
<1>10. s2 = q.num_tokens
  BY <1>3, <1>5, <1>7
<1>11. stale => ~u
  BY <1>2, <1>3 DEF Steady
<1>12. ~stale => /\ Ahead(q, u) = Ahead(p, u) - Due(e)
                 /\ q.num_output_placeholders = IF Depth > 1 THEN Ahead(q, u) ELSE 0
  <2> SUFFICES ASSUME ~stale
               PROVE  /\ Ahead(q, u) = Ahead(p, u) - Due(e)
                      /\ q.num_output_placeholders = IF Depth > 1 THEN Ahead(q, u) ELSE 0
    OBVIOUS
  <2>1. u = TRUE
    BY <1>3
  <2>2. /\ Ahead(q, TRUE) = Ahead(p, TRUE) - Due(e)
        /\ q.num_output_placeholders = IF Depth > 1 THEN Ahead(q, TRUE) ELSE 0
    BY <1>2, <1>5, OutputAhead
  <2> HIDE DEF u, q, p, e
  <2>3. QED BY <2>1, <2>2
<1>13. stale => q.num_output_placeholders = 0
  <2> SUFFICES ASSUME stale PROVE q.num_output_placeholders = 0
    OBVIOUS
  <2>1. p.num_output_placeholders = 0
    BY <1>3, <1>11 DEF Steady, Ahead
  <2> HIDE DEF q, p, e, t, kept, u, stale
  <2>2. QED BY <2>1, <1>7
<1>14. p.status = "WAITING_FOR_STREAMING_REQ" => FALSE
  <2> SUFFICES ASSUME p.status = "WAITING_FOR_STREAMING_REQ" PROVE FALSE
    OBVIOUS
  <2>1. r \in Sessions
    BY <1>3 DEF Steady
  <2>2. Depth = 1
    BY <2>1, ConfigFacts DEF Base, Typed
  <2>3. QED BY <2>2, <1>2, TodoFacts
<1>15. q.num_spec >= 0
  BY <1>3, <1>7 DEF Steady
<1>16. p.num_computed_tokens = 0 => q.num_computed_tokens = 0
  BY <1>6
<1>17. e.req = r
  OBVIOUS
<1>18. p.drop_stale_output \in BOOLEAN /\ PromptLen[r] \in Int
  <2>1. PromptLen[r] \in Int
    BY PromptLens, Zenon
  <2>2. QED BY <1>3, <2>1 DEF AnyRequest
<1> HIDE DEF q, p, e, t, kept, u, s, s2
<1>19. Ahead(q, u) = (IF p.num_stale_output_tokens > 0 THEN Ahead(p, u) ELSE Ahead(p, u) - Due(e))
  <2>1. CASE stale
    <3>1. Ahead(q, u) = 0 /\ Ahead(p, u) = 0
      BY <2>1, <1>11 DEF Ahead
    <3>2. QED BY <3>1, <2>1
  <2>2. CASE ~stale
    BY <2>2, <1>12
  <2>3. QED BY <2>1, <2>2
<1>20. Tracked(q, r, Tail(todo), inflight, u, s2)
  <2>1. todo[1].req = r /\ todo[1].n > 0 /\ todo[1].n \in Int /\ Due(todo[1]) \in Int
    BY <1>3, <1>17
  <2>2. q.num_in_flight_tokens = p.num_in_flight_tokens - todo[1].n
    BY <1>3, <1>6
  <2>3. /\ q.num_stale_output_tokens = (IF p.num_stale_output_tokens > 0
             THEN p.num_stale_output_tokens - todo[1].n ELSE p.num_stale_output_tokens)
        /\ Ahead(q, u) = IF p.num_stale_output_tokens > 0 THEN Ahead(p, u)
                         ELSE Ahead(p, u) - Due(todo[1])
    BY <1>3, <1>6, <1>19
  <2>4. IF p.num_stale_output_tokens > 0 /\ p.drop_stale_output
        THEN s2 = s /\ q.num_tokens = p.num_tokens ELSE s2 = q.num_tokens
    BY <1>2, <1>10
  <2>5. q.drop_stale_output = p.drop_stale_output
    BY <1>7
  <2> HIDE DEF stale
  <2>6. QED BY <2>1, <2>2, <2>3, <2>4, <2>5, <1>3, <1>18, AnswerTracked
<1>21. Steady(q, r, u)
  <2>1. q.num_output_placeholders = IF Depth > 1 THEN Ahead(q, u) ELSE 0
    <3>1. CASE stale
      <4>1. Ahead(q, u) = 0
        BY <3>1, <1>11 DEF Ahead
      <4>2. QED BY <3>1, <4>1, <1>13
    <3>2. QED BY <3>1, <1>12
  <2>2. q.status = "RUNNING" /\ q.num_stale_output_tokens > 0 => q.drop_stale_output
    BY <1>3, <1>6, <1>11
  <2>3. ~u => q.num_stale_output_tokens = q.num_in_flight_tokens
    <3>1. ~u => stale /\ p.num_stale_output_tokens = p.num_in_flight_tokens
      BY <1>3 DEF Steady
    <3>2. QED BY <3>1, <1>6
  <2>4. q.num_tokens >= PromptLen[r]
    <3>1. p.num_tokens >= PromptLen[r]
      BY <1>3 DEF Steady
    <3>2. QED BY <3>1, <1>3, <1>4, <1>5, <1>7, <1>18
  <2>5. r \notin Sessions => /\ q.num_prompt_tokens = PromptLen[r]
                             /\ q.status # "RUNNING" => q.num_computed_tokens = 0
    BY <1>3, <1>6, <1>7, <1>16 DEF Steady
  <2>6. QED BY <2>1, <2>2, <2>3, <2>4, <2>5, <1>6, <1>14, <1>15 DEF Steady
<1>22. Fine(q, r, Tail(todo), inflight, u, s2)
  BY <1>20, <1>21 DEF Fine
<1>23. Fine(request'[r], r, todo', inflight', Settled(r)', sampled'[r])
  BY <1>2, <1>8, <1>9, <1>22
<1>24. QED BY <1>23, <1>2, FinePrimed

\* A session that stops goes on with its next chunk, or waits for it.
LEMMA FineSessionStops ==
  ASSUME Base, AllFine, NEW accepted \in Int, NEW eos \in Int, NEW error, NEW drafts \in Int,
         drafts >= 0, Deliver(accepted, eos, error, drafts), NEW r \in Reqs, r = Head(todo).req,
         StopsWith(Head(todo), accepted, eos, error), r \in Sessions, request[r].status = "RUNNING"
  PROVE  LET q == Output(Head(todo), accepted, eos, drafts)
         IN  /\ inflight = <<>> /\ Absent(Tail(todo), r) /\ q \in AnyRequest
             /\ q.num_in_flight_tokens = 0 /\ q.num_stale_output_tokens = 0
             /\ q.num_output_placeholders = 0 /\ q.num_spec >= 0
             /\ q.num_tokens >= PromptLen[r] /\ q.num_computed_tokens + 1 >= q.num_tokens
             /\ AtMost(q.num_tokens, q.num_computed_tokens) + 1 >= PromptLen[r]
<1> DEFINE e == Head(todo)
           p == request[r]
           q == Output(e, accepted, eos, drafts)
           t == Took(e, accepted)
           kept == Keeps(e, accepted, eos)
           u == Settled(r)
           s == sampled[r]
<1>1. Delivered(e, e.req, q, accepted, eos, error, drafts)
  BY DeliverFacts
<1>2. /\ OutputTurn /\ Live(r) /\ ~(p.num_stale_output_tokens > 0 /\ p.drop_stale_output)
      /\ accepted \in 0 .. (IF e.samples /\ ~e.padded THEN e.drafts ELSE 0) /\ eos \in 0 .. t
      /\ error => t > 0
  BY <1>1 DEF Delivered, IsStale
<1>3. /\ p \in AnyRequest
      /\ e.n \in Int /\ e.n > 0 /\ e.drafts \in Nat /\ e.samples \in BOOLEAN
      /\ u \in BOOLEAN /\ Steady(p, r, u) /\ Tracked(p, r, todo, inflight, u, s)
      /\ 1 \in DOMAIN todo /\ todo[1] = e
      /\ Absent(Tail(todo), r) /\ p.num_tokens \in Int /\ p.num_stale_output_tokens \in Nat
  BY <1>2, HeadMeets
<1>4. Depth = 1 /\ inflight = <<>>
  <2>1. Depth = 1
    BY ConfigFacts DEF Base, Typed
  <2>2. QED BY <2>1, <1>2, TodoFacts
<1>5. p.num_stale_output_tokens = 0
  BY <1>2, <1>3 DEF Steady
<1>6. t > 0
  BY <1>2 DEF StopsWith
<1>7. p.num_in_flight_tokens = e.n
  <2>1. todo[1].req = r /\ todo[1].n \in Int
    BY <1>3
  <2>2. Tracked(p, r, todo, <<>>, u, s)
    BY <1>3, <1>4
  <2> HIDE DEF p, u, s, e
  <2>3. p.num_in_flight_tokens = todo[1].n
    BY <2>1, <2>2, <1>3, OnlyInFlight
  <2>4. QED BY <2>3, <1>3
<1>8. 0 <= accepted /\ 0 <= eos /\ eos <= t /\ Typed /\ kept \in Nat /\ t \in Nat /\ kept <= t
  <2>1. 0 <= accepted
    BY <1>2, <1>3
  <2>2. 0 <= eos /\ eos <= t /\ Typed
    BY <2>1, <1>2 DEF Took, Base
  <2>3. QED BY <2>1, <2>2, <1>2, KeepsFacts
<1>9. /\ q \in AnyRequest
      /\ q.num_in_flight_tokens = p.num_in_flight_tokens - e.n
      /\ q.num_stale_output_tokens = (IF p.num_stale_output_tokens > 0
           THEN p.num_stale_output_tokens - e.n ELSE p.num_stale_output_tokens)
  BY <1>2, <1>8, OutputFacts
<1>10. /\ q.num_tokens = p.num_tokens + kept
       /\ q.num_spec = (IF Depth = 1 THEN (IF e.samples THEN drafts ELSE 0) ELSE p.num_spec)
  BY <1>2, <1>8, OutputCounters
<1>11. /\ q.num_computed_tokens + 1 >= p.num_tokens + t /\ q.num_computed_tokens >= p.num_tokens
       /\ q.num_output_placeholders = 0
  <2>1. ~(p.num_stale_output_tokens > 0)
    BY <1>5
  <2>2. /\ t > 0 => /\ ~p.is_prefill_chunk /\ q.num_computed_tokens + 1 >= p.num_tokens + t
                    /\ q.num_computed_tokens >= p.num_tokens
        /\ Depth = 1 => q.num_output_placeholders = 0
    BY <1>2, <2>1, OutputAhead
  <2> HIDE DEF q, p, t
  <2>3. QED BY <2>2, <1>4, <1>6
<1>12. /\ PromptLen[r] \in Int /\ p.num_tokens >= PromptLen[r]
       /\ q.num_computed_tokens \in Int /\ q.num_tokens \in Int
  <2>1. PromptLen[r] \in Int
    BY PromptLens, Zenon
  <2>2. QED BY <2>1, <1>3, <1>9 DEF Steady, AnyRequest
<1> HIDE DEF q, p, e, t, kept
<1>13. q.num_in_flight_tokens = 0 /\ q.num_stale_output_tokens = 0 /\ q.num_spec >= 0
  BY <1>3, <1>4, <1>5, <1>7, <1>9, <1>10
<1>14. /\ q.num_tokens >= PromptLen[r] /\ q.num_computed_tokens + 1 >= q.num_tokens
       /\ AtMost(q.num_tokens, q.num_computed_tokens) + 1 >= PromptLen[r]
  BY <1>3, <1>8, <1>10, <1>11, <1>12 DEF AtMost
<1>15. QED BY <1>3, <1>4, <1>9, <1>11, <1>13, <1>14 DEF q, e


\* A request that ends.
LEMMA FineEnds ==
  ASSUME config \in Configs, UNCHANGED config, NEW r \in Reqs, request'[r] = Gone(r)
  PROVE  FineNow(r)'
<1>1. Gone(r).status = "FINISHED"
  BY GoneFields
<1>2. Settled(r)' = FALSE
  <2>1. ~Settled(r)'
    BY <1>1 DEF Settled
  <2>2. QED BY <2>1 DEF Settled
<1>3. Fine(Gone(r), r, todo', inflight', FALSE, sampled'[r])
  BY FineGone
<1>4. Fine(request'[r], r, todo', inflight', Settled(r)', sampled'[r])
  BY <1>2, <1>3
<1>5. QED BY <1>4, FinePrimed

\* A session that stops, or is given its next chunk, with no step in flight.
LEMMA FineTurns ==
  ASSUME Base, UNCHANGED config, NEW r \in Sessions, r \in Reqs, NEW q \in AnyRequest,
         request'[r] = q, inflight' = <<>>, Absent(todo', r),
         q.status \in {"WAITING", "WAITING_FOR_STREAMING_REQ"}, q.num_in_flight_tokens = 0,
         q.num_stale_output_tokens = 0, q.num_output_placeholders = 0, q.num_spec >= 0,
         q.num_tokens >= PromptLen[r],
         q.status = "WAITING_FOR_STREAMING_REQ" => q.num_computed_tokens + 1 >= q.num_tokens
  PROVE  FineNow(r)'
<1>1. Settled(r)' = FALSE
  <2>1. ~Settled(r)'
    BY DEF Settled
  <2>2. QED BY <2>1 DEF Settled
<1>2. Fine(q, r, todo', <<>>, FALSE, sampled'[r])
  BY FineBetween
<1>3. Fine(request'[r], r, todo', inflight', Settled(r)', sampled'[r])
  BY <1>1, <1>2
<1>4. QED BY <1>3, FinePrimed

\* An output is delivered.
LEMMA FineDelivers ==
  ASSUME Base, AllFine, NEW accepted \in Int, NEW eos \in Int, NEW error, NEW drafts \in Int,
         drafts >= 0, Deliver(accepted, eos, error, drafts)
  PROVE  AllFine'
<1>0. PICK r \in Reqs : r = Head(todo).req
  BY HeadFacts DEF Base, Deliver
<1> DEFINE e == Head(todo)
           q == Output(e, accepted, eos, drafts)
<1>1. Delivered(e, e.req, q, accepted, eos, error, drafts)
  BY DeliverFacts
<1>2. /\ OutputTurn /\ todo' = Tail(todo) /\ UNCHANGED <<config, inflight, loc>>
      /\ sampled' = [sampled EXCEPT ![r] = SampledBefore(e) + Took(e, accepted)]
      /\ ~StopsWith(e, accepted, eos, error) => request' = [request EXCEPT ![r] = q]
  BY <1>0, <1>1 DEF Delivered, env
<1>3. q \in AnyRequest /\ loc'.batch = loc.batch
      /\ \/ request' = [request EXCEPT ![r] = q]
         \/ request' = [request EXCEPT ![r] = Gone(r)]
         \/ /\ r \in Sessions /\ request[r].status = "RUNNING"
            /\ request' = [request EXCEPT ![r] = UpdatedSession(Popped(q))]
         \/ /\ r \in Sessions /\ request[r].status = "RUNNING"
            /\ request' = [request EXCEPT ![r] = [q EXCEPT !.status = "WAITING_FOR_STREAMING_REQ"]]
  BY <1>0, <1>2, DeliverEffect
<1>4. request \in [Reqs -> AnyRequest] /\ sampled \in [Reqs -> Int] /\ config \in Configs
  BY DEF Base, Typed
<1> DEFINE stops == StopsWith(e, accepted, eos, error)
<1>5. ASSUME NEW x \in Reqs, x # r PROVE FineNow(x)'
  <2>1. request'[x] = request[x] /\ sampled'[x] = sampled[x]
    BY <1>2, <1>3, <1>4, <1>5
  <2>2. QED BY <2>1, <1>0, <1>2, <1>3, <1>5, OthersAnswer
<1>6. FineNow(r)'
  <2>1. CASE ~stops
    BY <2>1, <1>0, FineGoesOn
  <2>2. CASE stops
    <3>1. StopsWith(e, accepted, eos, error) /\ Stop(r, q, error)
      BY <2>2, <1>0, <1>1 DEF Delivered
    <3>2. \/ request' = [request EXCEPT ![r] = Gone(r)]
          \/ r \in Sessions /\ request' = [request EXCEPT ![r] = UpdatedSession(Popped(q))]
          \/ r \in Sessions
             /\ request' = [request EXCEPT ![r] = [q EXCEPT !.status = "WAITING_FOR_STREAMING_REQ"]]
      BY <3>1, StopCases
    <3>3. CASE request' = [request EXCEPT ![r] = Gone(r)]
      <4>1. request'[r] = Gone(r)
        BY <3>3, <1>4
      <4>2. QED BY <4>1, <1>2, <1>4, FineEnds
    <3>4. ASSUME r \in Sessions
          PROVE  /\ inflight = <<>> /\ Absent(Tail(todo), r) /\ q \in AnyRequest
                 /\ q.num_in_flight_tokens = 0 /\ q.num_stale_output_tokens = 0
                 /\ q.num_output_placeholders = 0 /\ q.num_spec >= 0
                 /\ q.num_tokens >= PromptLen[r] /\ q.num_computed_tokens + 1 >= q.num_tokens
                 /\ AtMost(q.num_tokens, q.num_computed_tokens) + 1 >= PromptLen[r]
      <4>1. Depth = 1
        BY <1>4, <3>4, ConfigFacts
      <4>2. Live(r)
        BY <1>0, <1>1 DEF Delivered
      <4>3. request[r].status = "RUNNING"
        BY <4>1, <4>2, <1>0, <1>2, TodoFacts
      <4>4. QED BY <4>3, <3>4, <2>2, <1>0, FineSessionStops
    <3>5. CASE r \in Sessions /\ request' = [request EXCEPT ![r] = UpdatedSession(Popped(q))]
      <4> DEFINE p == Popped(q)
                 n == UpdatedSession(p)
      <4>1. inflight' = <<>> /\ Absent(todo', r)
        BY <3>4, <3>5, <1>2
      <4>2. /\ p \in AnyRequest /\ p.num_computed_tokens = q.num_computed_tokens
            /\ p.num_in_flight_tokens = 0 /\ p.num_stale_output_tokens = 0
            /\ p.num_tokens = q.num_tokens /\ p.num_output_placeholders = 0 /\ p.num_spec >= 0
        BY <3>4, <3>5, PoppedFacts, PoppedTokens, SessionCounters
      <4> HIDE DEF p, q
      <4>3. /\ n \in AnyRequest /\ n.status = "WAITING"
            /\ n.num_in_flight_tokens = 0 /\ n.num_stale_output_tokens = 0
            /\ n.num_output_placeholders = 0 /\ n.num_spec >= 0
            /\ n.num_tokens = AtMost(q.num_tokens, q.num_computed_tokens) + 1
        BY <4>2, UpdatedSessionFacts, UpdatedSessionTokens, SessionCounters
      <4>4. request'[r] = n
        BY <3>5, <1>4 DEF p
      <4> HIDE DEF n
      <4>5. n.num_tokens >= PromptLen[r]
        BY <4>3, <3>4, <3>5
      <4>6. QED BY <4>1, <4>3, <4>4, <4>5, <3>5, <1>2, FineTurns
    <3>6. CASE r \in Sessions
               /\ request' = [request EXCEPT ![r] = [q EXCEPT !.status = "WAITING_FOR_STREAMING_REQ"]]
      <4> DEFINE n == [q EXCEPT !.status = "WAITING_FOR_STREAMING_REQ"]
      <4>1. inflight' = <<>> /\ Absent(todo', r)
        BY <3>4, <3>6, <1>2
      <4>4. request'[r] = n
        BY <3>6, <1>4
      <4> HIDE DEF q
      <4>3. /\ n \in AnyRequest /\ n.status = "WAITING_FOR_STREAMING_REQ"
            /\ n.num_in_flight_tokens = 0 /\ n.num_stale_output_tokens = 0
            /\ n.num_output_placeholders = 0 /\ n.num_spec >= 0
            /\ n.num_tokens >= PromptLen[r] /\ n.num_computed_tokens + 1 >= n.num_tokens
        BY <3>4, <3>6 DEF AnyRequest, Statuses, Blocked
      <4> HIDE DEF n
      <4>6. QED BY <4>1, <4>3, <4>4, <3>6, <1>2, FineTurns
    <3>7. QED BY <3>2, <3>3, <3>5, <3>6
  <2>3. QED BY <2>1, <2>2
<1>7. QED BY <1>5, <1>6 DEF AllFine, FineNow

\* Requests that end together.
LEMMA FineFinishes ==
  ASSUME Base, AllFine, UNCHANGED <<config, todo, inflight, sampled, loc>>, NEW S,
         request' = [x \in Reqs |-> IF x \in S THEN Gone(x) ELSE request[x]]
  PROVE  AllFine'
<1>1. ASSUME NEW r \in Reqs PROVE FineNow(r)'
  <2>1. CASE r \in S
    <3>1. request'[r] = Gone(r)
      BY <2>1
    <3>2. QED BY <3>1, FineEnds DEF Base, Typed
  <2>2. CASE r \notin S
    <3>1. request'[r] = request[r]
      BY <2>2
    <3>2. FineNow(r)
      BY DEF AllFine, FineNow
    <3>3. QED BY <3>1, <3>2, UnmovedSame, FineStays
  <2>3. QED BY <2>1, <2>2
<1>2. QED BY <1>1 DEF AllFine, FineNow

\* A request is added.
LEMMA FineAdds ==
  ASSUME Base, AllFine, NEW r \in Reqs, AddRequest(r) PROVE AllFine'
<1>1. PICK status \in {"WAITING", "WAITING_FOR_STRUCTURED_OUTPUT_GRAMMAR"} :
        request' = [request EXCEPT ![r] = [request[r] EXCEPT !.status = status]]
  <2>1. CASE r \in Structured
    BY <2>1, Zenon DEF AddRequest
  <2>2. CASE r \notin Structured
    BY <2>2, Zenon DEF AddRequest
  <2>3. QED BY <2>1, <2>2
<1>2. UNCHANGED <<config, todo, inflight, sampled, loc>> /\ request[r].status = "NEW"
  BY DEF AddRequest, env, worker, output
<1> DEFINE p == request[r]
           q == [p EXCEPT !.status = status]
<1>3. p \in AnyRequest /\ p.num_spec >= 0
  BY DEF Base, Typed, AllFine, Fine, Steady
<1>4. SameTokens(q, p) /\ q.num_spec = p.num_spec /\ q.status = status
  <2> HIDE DEF p
  <2>1. QED BY <1>3, StatusFields DEF SameTokens
<1> HIDE DEF q
<1>5. Unmoved(q, p)
  BY <1>2, <1>3, <1>4 DEF Unmoved
<1>6. request' = [request EXCEPT ![r] = q]
  BY <1>1 DEF q
<1>7. QED BY <1>2, <1>5, <1>6, FineChange

\* A session is given a chunk, or its end.
LEMMA FineUpdates ==
  ASSUME Base, AllFine, NEW r \in Reqs, NEW update \in {"chunk", "end"}, AddUpdate(r, update)
  PROVE  AllFine'
<1>1. /\ BetweenSteps /\ r \in Sessions /\ Live(r)
      /\ UNCHANGED <<config, todo, inflight, sampled, loc>>
      /\ \/ /\ request[r].status # "WAITING_FOR_STREAMING_REQ"
            /\ request' = [request EXCEPT ![r] = [request[r] EXCEPT
                             !.streaming_queue = Append(@, update)]]
         \/ /\ request[r].status = "WAITING_FOR_STREAMING_REQ"
            /\ request' = [request EXCEPT ![r] = UpdatedSession(request[r])]
         \/ FinishRequests({r}, running, waiting, skipped_waiting, finished_req_ids)
  BY AddUpdateCases DEF worker, output
<1>2. request \in [Reqs -> AnyRequest] /\ config \in Configs
  BY DEF Base, Typed
<1> DEFINE p == request[r]
           u == Settled(r)
<1>3. u \in BOOLEAN /\ Fine(p, r, todo, inflight, u, sampled[r]) /\ p \in AnyRequest
  BY <1>2 DEF AllFine, Settled
<1>4. CASE request' = [request EXCEPT ![r] = [p EXCEPT !.streaming_queue = Append(@, update)]]
  <2> DEFINE q == [p EXCEPT !.streaming_queue = Append(@, update)]
  <2>1. SameTokens(q, p) /\ q.num_spec = p.num_spec /\ q.status = p.status
    <3> HIDE DEF p
    <3>1. QED BY <1>3 DEF SameTokens, AnyRequest
  <2>2. request' = [request EXCEPT ![r] = q]
    BY <1>4
  <2> HIDE DEF q
  <2>3. Unmoved(q, p)
    BY <2>1, <1>3 DEF Unmoved, Fine, Steady
  <2>4. QED BY <2>2, <2>3, <1>1, FineChange
<1>5. CASE p.status = "WAITING_FOR_STREAMING_REQ"
           /\ request' = [request EXCEPT ![r] = UpdatedSession(p)]
  <2> DEFINE q == UpdatedSession(p)
  <2>1. Depth = 1 /\ inflight = <<>> /\ todo = <<>>
    <3>1. Depth = 1
      BY <1>1, <1>2, ConfigFacts
    <3>2. pc = "idle" /\ inflight = <<>>
      BY <3>1, <1>1 DEF BetweenSteps
    <3>3. QED BY <3>1, <3>2, IdleFacts DEF Base
  <2>2. Absent(todo, r)
    BY <2>1 DEF Absent
  <2>3. ~u
    BY <1>5 DEF Settled
  <2>4. p.num_in_flight_tokens = 0 /\ p.num_stale_output_tokens = 0
    <3>1. Tracked(p, r, todo, <<>>, u, sampled[r])
      BY <1>3, <1>5, <2>1 DEF Fine
    <3> HIDE DEF p, u
    <3>2. QED BY <3>1, <2>2, <1>3, TrackedEmpty
  <2>5. /\ p.num_output_placeholders = 0 /\ p.num_spec >= 0 /\ p.num_tokens >= PromptLen[r]
        /\ p.num_computed_tokens + 1 >= p.num_tokens /\ PromptLen[r] \in Int
    <3>1. PromptLen[r] \in Int
      BY <1>2, ConfigFacts
    <3>2. Depth > 1 => FALSE
      BY <2>1
    <3>3. QED BY <3>1, <3>2, <1>3, <1>5 DEF Fine, Steady
  <2>6. /\ q \in AnyRequest /\ q.status = "WAITING"
        /\ q.num_in_flight_tokens = 0 /\ q.num_stale_output_tokens = 0
        /\ q.num_output_placeholders = 0 /\ q.num_spec >= 0
        /\ q.num_tokens = AtMost(p.num_tokens, p.num_computed_tokens) + 1
    <3> HIDE DEF p
    <3>1. QED BY <1>3, <2>4, <2>5, UpdatedSessionFacts, UpdatedSessionTokens, SessionCounters
  <2>7. request'[r] = q
    BY <1>2, <1>5
  <2> HIDE DEF q
  <2>8. q.num_tokens >= PromptLen[r]
    <3>1. p.num_tokens \in Int /\ p.num_computed_tokens \in Int
      BY <1>3 DEF AnyRequest
    <3> HIDE DEF p
    <3>2. QED BY <3>1, <2>5, <2>6 DEF AtMost
  <2>9. inflight' = <<>> /\ Absent(todo', r)
    BY <2>1, <2>2, <1>1
  <2>10. FineNow(r)'
    BY <2>6, <2>7, <2>8, <2>9, <1>1, FineTurns
  <2>11. ASSUME NEW x \in Reqs, x # r PROVE FineNow(x)'
    <3>1. request'[x] = request[x]
      BY <2>11, <1>2, <1>5
    <3>2. FineNow(x)
      BY DEF AllFine, FineNow
    <3>3. QED BY <3>1, <3>2, <1>1, UnmovedSame, FineStays
  <2>12. QED BY <2>10, <2>11 DEF AllFine, FineNow
<1>6. CASE FinishRequests({r}, running, waiting, skipped_waiting, finished_req_ids)
  BY <1>6, <1>1, FineFinishes DEF FinishRequests
<1>7. QED BY <1>1, <1>4, <1>5, <1>6

\* Every step keeps the counters of every request in place.
LEMMA FineNext ==
  ASSUME Base, Slots, Tokens, BudgetKept, [Next]_vars PROVE AllFine'
<1>1. AllFine
  BY DEF Tokens
<1>2. CASE Schedule
  <2>1. ASSUME NEW found \in Lookups(Promoted(Candidate)), WaitingTurn, Admit(found) PROVE AllFine'
    BY <2>1, <1>1, FineAdmits
  <2>2. QED BY <2>1, <1>1, <1>2, FineLooks, FineSchedules, FinePreempts, FinePasses, FineLaunches
        DEF Schedule
<1>3. CASE UpdateFromOutput
  <2>1. ASSUME NEW accepted \in 0 .. NumSpec, NEW eos \in 0 .. NumSpec + 1, NEW error \in BOOLEAN,
               NEW drafts \in {0, NumSpec}, Deliver(accepted, eos, error, drafts)
        PROVE  AllFine'
    <3>1. NumSpec \in Nat
      BY ConfigFacts DEF Base, Typed
    <3>2. accepted \in Int /\ eos \in Int /\ drafts \in Int /\ drafts >= 0
      BY <3>1
    <3>3. QED BY <3>2, <2>1, <1>1, FineDelivers
  <2>2. CASE EndOutput
    <3>1. UNCHANGED <<config, todo, inflight, sampled, loc>>
      BY <2>2 DEF EndOutput, env, worker
    <3>2. request' = [x \in Reqs |-> IF x \in grammar_compile_error_reqs \cap LiveReqs
                                     THEN Gone(x) ELSE request[x]]
      BY <2>2 DEF EndOutput, FinishRequests
    <3>3. QED BY <3>1, <3>2, <1>1, FineFinishes
  <2>3. QED BY <2>1, <2>2, <1>1, <1>3, FineTakes, FineDrops DEF UpdateFromOutput
<1>4. CASE GrammarStep
  BY <1>4, <1>1, FineQuiet DEF GrammarStep, GrammarDone, worker, output
<1>5. CASE Handlers
  <2>1. ASSUME NEW r \in Reqs, Abort(r) PROVE AllFine'
    BY <2>1, <1>1, FineFinishes DEF Abort, FinishRequests, env, worker, output
  <2>2. ASSUME NEW p, set_pause_state(p) PROVE AllFine'
    BY <2>2, <1>1, FineQuiet DEF set_pause_state, env, worker, output
  <2>3. QED BY <2>1, <2>2, <1>1, <1>5, FineAdds, FineUpdates, FineResets DEF Handlers
<1>6. CASE UNCHANGED vars
  BY <1>6, <1>1, FineQuiet DEF vars, env, worker, output
<1>7. QED BY <1>2, <1>3, <1>4, <1>5, <1>6 DEF Next


\* Consecutive numbers are not both multiples of a block of several tokens.
LEMMA NextToMultiple ==
  ASSUME config \in Configs, NEW n \in Int, Multiple(n), BlockSize > 1
  PROVE  FloorToBlock(n + 1) <= n
<1> DEFINE B == BlockSize
           m == FloorToBlock(n + 1)
<1>1. B \in Int /\ B > 1
  BY ConfigFacts
<1>2. n + 1 \in Int
  OBVIOUS
<1>3. m \in Int /\ m <= n + 1 /\ Multiple(m)
  BY <1>2, Floor, MultipleFacts
<1>4. PICK k \in Int : m = k * B
  BY <1>3 DEF Multiple
<1>5. PICK j \in Int : n = j * B
  BY DEF Multiple
<1> HIDE DEF m, B
<1>6. ASSUME m = n + 1 PROVE FALSE
  <2>1. k * B = j * B + 1
    BY <1>4, <1>5, <1>6
  <2>2. (k - j) * B = 1
    BY <2>1, <1>1
  <2>3. k - j >= 1 => (k - j) * B >= B
    BY <1>1
  <2>4. k - j <= 0 => (k - j) * B <= 0
    BY <1>1
  <2>5. k - j >= 1 \/ k - j <= 0
    OBVIOUS
  <2>6. QED BY <2>2, <2>3, <2>4, <2>5, <1>1
<1>7. QED BY <1>3, <1>6 DEF m

\* A request whose cache lacks only the last token is not cut.
LEMMA PaddedWhole ==
  ASSUME PaddingUncut, config \in Configs, Aligned, NumSpec > 0, NEW q \in AnyRequest,
         NEW found \in Lookups(q), q.num_computed_tokens = 0, q.num_tokens >= 1,
         q.num_prompt_tokens <= q.num_tokens, found.computed = q.num_tokens - 1,
         Split(found.q, found.computed, 1 + NumSpec) > 0
  PROVE  Split(found.q, found.computed, 1 + NumSpec) = 1 + NumSpec
<1> DEFINE p == found.q
           start == found.computed
           end == start + (1 + NumSpec)
           n == Split(p, start, 1 + NumSpec)
           B == BlockSize
<1>1. B \in Nat \ {0} /\ NumSpec \in Nat /\ (B > 1 \/ UseEagle) /\ UseEagle \in BOOLEAN
  <2>1. B \in Nat \ {0} /\ NumSpec \in Nat /\ UseEagle \in BOOLEAN
    BY ConfigFacts, ConfigsAssumption DEF UseEagle
  <2>2. config.aligned /\ config.spec > 0
    BY DEF Aligned, NumSpec
  <2>3. config.block_size > 1 \/ config.eagle
    BY <2>2 DEF PaddingUncut
  <2>4. QED BY <2>1, <2>3 DEF BlockSize, UseEagle
<1>2. PICK hit \in CacheHits(q) : \E junction \in Junctions(q, hit) :
        found = [q |-> [q EXCEPT !.shared_prefix_boundary = junction], computed |-> hit]
  BY DEF Lookups
<1>3. PICK junction \in Junctions(q, hit) :
        found = [q |-> [q EXCEPT !.shared_prefix_boundary = junction], computed |-> hit]
  BY <1>2
<1>4. /\ p = [q EXCEPT !.shared_prefix_boundary = junction] /\ start = hit
      /\ q.num_tokens \in Int /\ q.num_prompt_tokens \in Int
  BY <1>3 DEF AnyRequest
<1>5. p.shared_prefix_boundary = junction
  BY <1>4 DEF AnyRequest
<1>6. p.num_tokens = q.num_tokens /\ p.num_prompt_tokens = q.num_prompt_tokens
  <2> HIDE DEF p
  <2>1. QED BY <1>4, LookupFields
<1>7. p \in AnyRequest /\ start \in Int
  BY LookupFacts
<1> DEFINE T == p.num_tokens
<1>8. T \in Int /\ start = T - 1 /\ T >= 1 /\ p.num_prompt_tokens <= T /\ p.num_prompt_tokens \in Int
  BY <1>4, <1>6
<1>9. Multiple(start)
  <2>1. CASE hit = 0
    <3>1. 0 = 0 * B
      BY <1>1
    <3>2. QED BY <2>1, <3>1, <1>4 DEF Multiple
  <2>2. CASE hit = ((q.num_tokens - 1) \div BlockSize) * BlockSize
    <3>1. hit = FloorToBlock(q.num_tokens - 1)
      BY <2>2 DEF FloorToBlock
    <3>2. q.num_tokens - 1 \in Int
      BY <1>4
    <3>3. QED BY <3>1, <3>2, <1>4, MultipleFacts
  <2>3. QED BY <2>1, <2>2 DEF CacheHits
<1>10. start % B = 0
  BY <1>7, <1>9, MultipleFacts
<1>11. ~(start < p.shared_prefix_boundary)
  <2>1. junction = 0 \/ junction = q.num_tokens - 1
    BY DEF Junctions
  <2> HIDE DEF p, start
  <2>2. QED BY <2>1, <1>4, <1>5, <1>6, <1>8
<1> HIDE DEF p, start
<1>12. LastCachePosition(p) <= start /\ LastCachePosition(p) \in Int
  <2> DEFINE f == FloorToBlock(T)
  <2>1. f \in Int /\ f <= T
    BY <1>8, Floor
  <2>2. UseEagle => f - B <= start
    BY <2>1, <1>1, <1>8
  <2>3. B > 1 => f <= start
    <3>1. start + 1 = T
      BY <1>8
    <3>2. B > 1 => FloorToBlock(start + 1) <= start
      BY <1>7, <1>9, NextToMultiple
    <3>3. QED BY <3>1, <3>2
  <2>4. LastCachePosition(p) = AtLeast(f - (IF UseEagle THEN B ELSE 0), 0)
    BY DEF LastCachePosition
  <2> HIDE DEF f, B, T
  <2>5. f - (IF UseEagle THEN B ELSE 0) <= start /\ 0 <= start
    BY <2>1, <2>2, <2>3, <1>1, <1>8
  <2>6. QED BY <2>1, <2>4, <2>5, <1>1, <1>7 DEF AtLeast
<1>13. end \in Int /\ n = AlignedSplit(p, start, end) /\ n \in Int /\ 1 + NumSpec \in Int
  <2>1. 1 + NumSpec \in Int
    BY <1>1
  <2>2. QED BY <2>1, <1>7, SplitFacts
<1>14. CASE start >= PrefillEnd(p)
  <2>1. n = end - start
    BY <1>13, <1>14 DEF AlignedSplit
  <2>2. QED BY <2>1, <1>1, <1>7 DEF p, start
<1>15. CASE ~(start >= PrefillEnd(p))
  <2>1. PrefillEnd(p) <= T /\ PrefillEnd(p) \in Int
    BY <1>8 DEF PrefillEnd, AtLeast
  <2>2. ChunkStop(p, start, end) = end
    <3>1. ~(end < PrefillEnd(p))
      BY <2>1, <1>1, <1>8
    <3>2. QED BY <3>1 DEF ChunkStop
  <2>3. \A s \in MandatoryStops(p, start, end) : ~(s > start)
    <3>1. MandatoryStops(p, start, end) = {LastCachePosition(p)}
      BY <1>10, <1>11 DEF MandatoryStops
    <3>2. QED BY <3>1, <1>7, <1>12
  <2>4. StopsAfter(p, start, end) = {end}
    BY <2>2, <2>3 DEF StopsAfter
  <2>5. start < PrefillEnd(p)
    BY <2>1, <1>7, <1>15
  <2>6. start + n \in StopsAfter(p, start, end)
    <3>1. AlignedSplit(p, start, end) > 0
      BY <1>13 DEF p, start
    <3>2. QED BY <3>1, <2>5, <1>7, <1>13, AlignedSplitFacts
  <2>7. start + n = end
    BY <2>4, <2>6
  <2> HIDE DEF n
  <2>8. n = 1 + NumSpec
    BY <2>7, <1>1, <1>7, <1>13
  <2>9. QED BY <2>8 DEF n, p, start
<1>16. QED BY <1>14, <1>15


\* A running request is given no more than it wants.
LEMMA TurnWanted ==
  ASSUME Base, Tokens, RunningTurn, NumNewTokens(request[running[loc.idx]]) > 0
  PROVE  Wanted(request[running[loc.idx]], NumNewTokens(request[running[loc.idx]]))
<1> DEFINE q == request[running[loc.idx]]
           n == NumNewTokens(q)
<1>1. q \in AnyRequest /\ config \in Configs /\ pc = "running" /\ loc.want \in Int
      /\ loc.token_budget \in Int
  BY TurnFacts DEF RunningTurn, Base, Typed, Locals
<1>2. CASE loc.want > 0
  <2>1. n = loc.want
    BY <1>2 DEF NumNewTokens
  <2>2. QED BY <2>1, <1>1, <1>2 DEF Tokens, WantRight
<1>3. CASE loc.want <= 0
  <2> DEFINE x == q.num_tokens + q.num_spec + q.num_output_placeholders - q.num_computed_tokens
             y == MaxModelLen - q.num_computed_tokens - 1
             m == Min({x, loc.token_budget, y})
             k == Split(q, q.num_computed_tokens, m)
  <2>1. n = AtLeast(k, 0)
    BY <1>1, <1>3 DEF NumNewTokens
  <2>2. x \in Int /\ y \in Int /\ q.num_computed_tokens \in Int
    <3>1. MaxModelLen \in Int
      BY <1>1, ConfigFacts
    <3> HIDE DEF q
    <3>2. QED BY <3>1, <1>1, SMTT(30) DEF AnyRequest
  <2> HIDE DEF x, y, q
  <2>3. m \in Int /\ m <= x
    BY <2>2, <1>1, MinOfThree
  <2> HIDE DEF m
  <2>4. k \in Int /\ k <= AtLeast(m, 0)
    BY <2>2, <2>3, <1>1, SplitFacts
  <2> HIDE DEF k
  <2>5. n <= x
    <3>1. n > 0
      BY DEF q
    <3> HIDE DEF n
    <3>2. QED BY <3>1, <2>1, <2>2, <2>3, <2>4 DEF AtLeast
  <2>6. QED BY <2>5 DEF Wanted, x, q
<1>4. QED BY <1>1, <1>2, <1>3

\* The tokens that a waiting request is admitted with.
LEMMA AdmitDrafts ==
  ASSUME PaddingUncut, Base, Tokens, WaitingTurn, NEW found \in Lookups(Promoted(Candidate)),
         AdmitTokens(found.q, found.computed) > 0
  PROVE  (IF Padded(found.q.num_tokens - found.computed) THEN NumSpec ELSE 0)
           = AtLeast(found.computed + AdmitTokens(found.q, found.computed) - found.q.num_tokens
                       - found.q.num_output_placeholders, 0)
<1>0. PICK r \in Reqs : r = Candidate
  BY CandidateFacts DEF Base
<1> DEFINE p == request[r]
           q == Promoted(r)
           f == found.q
           c == found.computed
           n == AdmitTokens(f, c)
           pad == Padded(f.num_tokens - c)
<1>1. /\ p \in AnyRequest /\ q \in AnyRequest /\ config \in Configs /\ p.status # "RUNNING"
      /\ f \in AnyRequest /\ c \in Int
  <2>1. p.status # "RUNNING"
    BY <1>0, RunningOnes, CandidateFacts DEF WaitingTurn, Base, CandidateQueue, Queued, WithStatus
  <2>2. QED BY <2>1, <1>0, CandidateLookup DEF Base, Typed
<1>2. SameTokens(q, p) /\ SameTokens(f, p)
  BY <1>0, CandidateUnmoved DEF Tokens, Unmoved
<1>3. /\ p.num_output_placeholders = 0 /\ p.num_tokens >= PromptLen[r]
      /\ r \notin Sessions => p.num_prompt_tokens = PromptLen[r] /\ p.num_computed_tokens = 0
      /\ PromptLen[r] \in Int /\ PromptLen[r] >= 1
  <2>1. Settled(r) = FALSE
    <3>1. ~Settled(r)
      BY <1>1 DEF Settled
    <3>2. QED BY <3>1 DEF Settled
  <2>2. Steady(p, r, FALSE)
    BY <2>1 DEF Tokens, AllFine, Fine
  <2>3. PromptLen[r] \in Int /\ PromptLen[r] >= 1
    BY <1>1, ConfigFacts
  <2>4. QED BY <2>2, <2>3, <1>1 DEF Steady, Ahead
<1>4. f.num_tokens \in Int /\ f.num_output_placeholders = 0 /\ f.num_tokens = q.num_tokens
  BY <1>1, <1>2, <1>3 DEF SameTokens, AnyRequest
<1>5. NumSpec \in Nat /\ loc.token_budget \in Int
  BY <1>1, ConfigFacts DEF Base, Typed, Locals
<1>6. n = Split(f, c, IF pad THEN 1 + NumSpec ELSE AtMost(f.num_tokens - c, loc.token_budget))
      /\ n > 0
  BY DEF AdmitTokens
<1>7. CASE pad
  <2>1. f.num_tokens - c = 1 /\ NumSpec > 0
    BY <1>7 DEF Padded
  <2>2. n = Split(f, c, 1 + NumSpec) /\ c = q.num_tokens - 1 /\ 1 + NumSpec \in Int
    BY <2>1, <1>1, <1>4, <1>5, <1>6, <1>7
  <2>3. n = 1 + NumSpec
    <3>1. CASE Aligned
      <4>1. r \notin Sessions
        <5>1. config.aligned /\ config.spec > 0
          BY <2>1, <3>1 DEF Aligned, NumSpec
        <5>2. QED BY <5>1, <1>1 DEF PaddingUncut, Sessions
      <4>2. q.num_computed_tokens = 0 /\ q.num_tokens >= 1 /\ q.num_prompt_tokens <= q.num_tokens
        BY <4>1, <1>1, <1>2, <1>3 DEF SameTokens, AnyRequest
      <4>3. found \in Lookups(q)
        BY <1>0
      <4>4. Split(found.q, found.computed, 1 + NumSpec) > 0
        BY <2>2, <1>6
      <4> HIDE DEF q
      <4>5. found.computed = q.num_tokens - 1
        BY <2>2
      <4>6. QED BY <4>2, <4>3, <4>4, <4>5, <2>1, <2>2, <3>1, <1>1, PaddedWhole
    <3>2. CASE ~Aligned
      BY <3>2, <2>2 DEF Split
    <3>3. QED BY <3>1, <3>2
  <2> HIDE DEF n, f, c, pad, q
  <2>4. c + n - f.num_tokens - f.num_output_placeholders = NumSpec
    BY <2>1, <2>3, <1>1, <1>4, <1>5
  <2>5. QED BY <2>4, <1>5, <1>7 DEF AtLeast, n, f, c, pad
<1>8. CASE ~pad
  <2> DEFINE m == AtMost(f.num_tokens - c, loc.token_budget)
  <2>1. m \in Int /\ m <= f.num_tokens - c
    BY <1>1, <1>4, <1>5 DEF AtMost
  <2>2. n = Split(f, c, m)
    BY <1>6, <1>8
  <2> HIDE DEF m, f, c, n
  <2>3. n \in Int /\ n <= AtLeast(m, 0)
    BY <2>1, <2>2, <1>1, SplitFacts
  <2>4. c + n - f.num_tokens - f.num_output_placeholders <= 0
        /\ c + n - f.num_tokens - f.num_output_placeholders \in Int
    BY <2>1, <2>3, <1>1, <1>4, <1>6 DEF AtLeast
  <2>5. QED BY <2>4, <1>8 DEF AtLeast, n, f, c
<1>9. QED BY <1>7, <1>8

DraftsAll == \A j \in DOMAIN loc.batch : DraftsRight(loc.batch[j])

\* An entry whose request has the same counters.
LEMMA DraftsKept ==
  ASSUME DraftsAll, NEW i, NEW j \in DOMAIN loc.batch, loc'.batch[i] = loc.batch[j],
         request'[loc.batch[j].req] = request[loc.batch[j].req]
  PROVE  DraftsRight(loc.batch[i])'
BY DEF DraftsAll, DraftsRight

\* An entry that is added.
LEMMA DraftsNow ==
  ASSUME NEW e, NEW q, NEW i, loc'.batch[i] = e, request'[e.req] = q,
         e.drafts = AtLeast(q.num_computed_tokens + e.n - q.num_tokens - q.num_output_placeholders, 0)
  PROVE  DraftsRight(loc.batch[i])'
BY DEF DraftsRight

\* A batch that an entry is added to.
LEMMA DraftsGrow ==
  ASSUME DraftsAll, Base, NEW e, e \in BatchEntry, NEW q, loc'.batch = Append(loc.batch, e),
         request' = [request EXCEPT ![e.req] = q],
         \A j \in DOMAIN loc.batch : loc.batch[j].req # e.req,
         e.drafts = AtLeast(q.num_computed_tokens + e.n - q.num_tokens - q.num_output_placeholders, 0)
  PROVE  DraftsAll'
<1>1. /\ loc.batch \in Seq(BatchEntry) /\ request \in [Reqs -> AnyRequest] /\ e.req \in Reqs
      /\ \A j \in DOMAIN loc.batch : loc.batch[j].req \in Reqs
  <2>1. loc.batch \in Seq(BatchEntry) /\ request \in [Reqs -> AnyRequest]
    BY DEF Base, Typed, Locals
  <2>2. \A j \in DOMAIN loc.batch : loc.batch[j] \in BatchEntry
    BY <2>1
  <2>3. QED BY <2>1, <2>2 DEF BatchEntry
<1>2. /\ DOMAIN loc'.batch = 1 .. Len(loc.batch) + 1 /\ loc'.batch[Len(loc.batch) + 1] = e
      /\ DOMAIN loc.batch = 1 .. Len(loc.batch) /\ Len(loc.batch) \in Nat
      /\ \A i \in 1 .. Len(loc.batch) : loc'.batch[i] = loc.batch[i]
  BY <1>1
<1>3. ASSUME NEW i \in DOMAIN loc'.batch PROVE DraftsRight(loc.batch[i])'
  <2>1. CASE i = Len(loc.batch) + 1
    <3>1. loc'.batch[i] = e /\ request'[e.req] = q
      BY <2>1, <1>1, <1>2
    <3>2. QED BY <3>1, DraftsNow
  <2>2. CASE i \in 1 .. Len(loc.batch)
    <3>1. i \in DOMAIN loc.batch /\ loc'.batch[i] = loc.batch[i]
      BY <2>2, <1>2
    <3>2. request'[loc.batch[i].req] = request[loc.batch[i].req]
      BY <3>1, <1>1
    <3>3. QED BY <3>1, <3>2, DraftsKept
  <2>3. QED BY <2>1, <2>2, <1>2
<1>4. QED BY <1>3 DEF DraftsAll


\* Steps of schedule() that leave the batch alone, and its requests.
LEMMA BatchSame ==
  ASSUME Base, DraftsAll, UNCHANGED config, loc'.batch = loc.batch, pc' # "running" \/ loc'.want <= 0,
         loc'.want \in Int,
         \A i \in DOMAIN loc.batch : request'[loc.batch[i].req] = request[loc.batch[i].req]
  PROVE  DraftsAll' /\ WantRight'
<1>1. ASSUME NEW i \in DOMAIN loc'.batch PROVE DraftsRight(loc.batch[i])'
  BY DraftsKept
<1>2. QED BY <1>1 DEF DraftsAll, WantRight

\* Each turn of schedule() counts its drafts, and keeps those of the others.
LEMMA BatchSchedule ==
  ASSUME PaddingUncut, Base, BudgetKept, ChunksKept, Tokens, Schedule
  PROVE  DraftsAll' /\ WantRight'
<1>1. /\ loc \in Locals /\ loc.batch \in Seq(BatchEntry) /\ loc.want \in Int
      /\ \A i \in DOMAIN loc.batch : request[loc.batch[i].req].status = "RUNNING"
      /\ request \in [Reqs -> AnyRequest] /\ running \in Seq(Reqs) /\ loc.idx \in Int
  BY DEF Base, Typed, Locals, BatchSound
<1>2. UNCHANGED config /\ DraftsAll /\ loc'.want \in Int
  <2>1. loc'.want \in Int
    BY TypedNext DEF Base, Next, Typed, Locals
  <2>2. QED BY <2>1, ConfigSame DEF Next, Tokens, DraftsAll
<1>3. \A i \in DOMAIN loc.batch : loc.batch[i] \in BatchEntry /\ loc.batch[i].req \in Reqs
  <2>1. \A i \in DOMAIN loc.batch : loc.batch[i] \in BatchEntry
    BY <1>1
  <2>2. QED BY <2>1 DEF BatchEntry
<1>5. CASE BeginSchedule
  <2>1. loc'.batch = <<>> /\ loc'.want = 0
    BY <1>5 DEF BeginSchedule, Idle
  <2>2. QED BY <2>1 DEF DraftsAll, WantRight
<1>6. CASE SkipRunning
  <2>1. /\ loc' = [loc EXCEPT !.idx = @ + 1] /\ UNCHANGED <<request, running>> /\ RunningTurn
        /\ LengthIsSure(request[running[loc.idx]]) \/ NumNewTokens(request[running[loc.idx]]) = 0
    BY <1>6 DEF SkipRunning, queues
  <2>2. loc.want <= 0
    <3>1. loc.want > 0 => NumNewTokens(request[running[loc.idx]]) = loc.want
                          /\ ~LengthIsSure(request[running[loc.idx]])
      BY <2>1 DEF NumNewTokens, ChunksKept, RunningTurn
    <3>2. QED BY <3>1, <2>1, <1>1
  <2>3. loc'.batch = loc.batch /\ loc'.want = loc.want
    BY <2>1, <1>1 DEF Locals
  <2>4. QED BY <2>1, <2>2, <2>3, <1>2, BatchSame
<1>7. CASE ScheduleRunning
  <2> DEFINE r == running[loc.idx]
             q == request[r]
             n == NumNewTokens(q)
  <2>1. PICK e : Scheduled(e, r)
    BY <1>7, ScheduledFacts
  <2> DEFINE p == [q EXCEPT !.num_spec = 0]
  <2>2. /\ r \in Reqs /\ q \in AnyRequest /\ n > 0 /\ n \in Int
        /\ request' = [request EXCEPT ![e.req] = p]
        /\ e \in BatchEntry /\ e.req = r /\ e.n = n /\ e.drafts = NumDrafts(q, n)
        /\ loc'.want = 0 /\ loc'.batch = Append(loc.batch, e)
        /\ \A i \in DOMAIN loc.batch : loc.batch[i].req # e.req
    BY <2>1 DEF Scheduled
  <2>3. Wanted(q, n)
    <3>1. RunningTurn
      BY <1>7 DEF ScheduleRunning
    <3>2. QED BY <3>1, <2>2, TurnWanted
  <2>4. q.num_spec >= 0
    BY <2>2 DEF Tokens, AllFine, Fine, Steady
  <2> HIDE DEF q, n
  <2>5. /\ p.num_computed_tokens = q.num_computed_tokens /\ p.num_tokens = q.num_tokens
        /\ p.num_output_placeholders = q.num_output_placeholders
    BY <2>2 DEF AnyRequest
  <2>6. e.drafts = AtLeast(q.num_computed_tokens + e.n - q.num_tokens - q.num_output_placeholders, 0)
    <3>1. /\ q.num_spec \in Int /\ q.num_computed_tokens \in Int /\ q.num_tokens \in Int
          /\ q.num_output_placeholders \in Int
      BY <2>2 DEF AnyRequest
    <3>2. e.drafts = AtMost(q.num_spec, AtLeast(n + q.num_computed_tokens - q.num_tokens
                                                - q.num_output_placeholders, 0))
      BY <2>2 DEF NumDrafts
    <3>3. n <= q.num_tokens + q.num_spec + q.num_output_placeholders - q.num_computed_tokens
      BY <2>3 DEF Wanted
    <3> DEFINE a == q.num_spec
               c == q.num_computed_tokens
               t == q.num_tokens
               o == q.num_output_placeholders
    <3>4. /\ a \in Int /\ c \in Int /\ t \in Int /\ o \in Int /\ n \in Int /\ a >= 0
          /\ n <= t + a + o - c /\ e.drafts = AtMost(a, AtLeast(n + c - t - o, 0)) /\ e.n = n
      BY <3>1, <3>2, <3>3, <2>2, <2>4
    <3> HIDE DEF a, c, t, o
    <3>5. e.drafts = AtLeast(c + e.n - t - o, 0)
      BY <3>4 DEF AtMost, AtLeast
    <3>6. QED BY <3>5 DEF c, t, o
  <2> HIDE DEF p
  <2>7. DraftsAll'
    BY <2>2, <2>5, <2>6, <1>2, DraftsGrow
  <2>8. QED BY <2>2, <2>7 DEF WantRight
<1>8. CASE PreemptForRunning
  <2> DEFINE r == running[loc.idx]
             n == NumNewTokens(request[r])
             v == Victim
  <2>1. Evicted(v, r)
    BY <1>8, EvictedFacts
  <2>2. /\ v \in Reqs /\ v \in ToSet(running) /\ r \in Reqs /\ n \in Int /\ n > 0
        /\ running' = remove_requests(running, {v})
        /\ request' = [request EXCEPT ![v] = Preempted(request[v], KvDelivery)]
        /\ loc'.idx = IndexWithout(v) /\ loc'.want = (IF v = r THEN 0 ELSE n)
        /\ loc'.batch = BatchWithout(v)
    BY <2>1 DEF Evicted
  <2>3. RunningTurn
    BY <1>8 DEF PreemptForRunning
  <2>4. Wanted(request[r], n)
    BY <2>2, <2>3, TurnWanted
  <2> HIDE DEF n, v
  <2>5. /\ \A i \in DOMAIN BatchWithout(v) :
              /\ BatchWithout(v)[i].req # v
              /\ \E j \in DOMAIN loc.batch : loc.batch[j] = BatchWithout(v)[i]
    BY BatchWithoutFacts DEF Base, BatchSound
  <2>6. ASSUME NEW i \in DOMAIN loc'.batch PROVE DraftsRight(loc.batch[i])'
    <3>1. PICK j \in DOMAIN loc.batch : loc.batch[j] = loc'.batch[i] /\ loc.batch[j].req # v
      BY <2>2, <2>5
    <3>2. request'[loc.batch[j].req] = request[loc.batch[j].req]
      BY <3>1, <2>2, <1>1, <1>3
    <3>3. QED BY <3>1, <3>2, <1>2, DraftsKept
  <2>7. ASSUME v # r
        PROVE  /\ loc'.idx \in DOMAIN running' /\ running'[loc'.idx] = r
    <3>1. loc.idx \in DOMAIN running /\ running[loc.idx] # v
      BY <2>3, <2>7, RunningTurnFacts DEF Base
    <3>2. PICK j \in DOMAIN remove_requests(running, {v}) :
                 /\ remove_requests(running, {v})[j] = running[loc.idx]
                 /\ j = IndexWithout(v)
      BY <3>1, <2>2, VictimPlaces DEF Base, Queues
    <3>3. QED BY <3>2, <2>2
  <2>8. ASSUME v # r PROVE Wanted(request'[running'[loc'.idx]], loc'.want)
    <3>1. request'[running'[loc'.idx]] = request[r] /\ loc'.want = n
      BY <2>2, <2>7, <2>8, <1>1
    <3>2. QED BY <3>1, <2>4
  <2>9. v = r => ~(loc'.want > 0)
    BY <2>2
  <2>10. WantRight'
    BY <2>7, <2>8, <2>9 DEF WantRight, Wanted
  <2>11. QED BY <2>6, <2>10 DEF DraftsAll
<1>9. CASE EndRunning
  <2>1. UNCHANGED <<request, loc>> /\ pc' # "running"
    BY <1>9 DEF EndRunning
  <2>2. QED BY <2>1, <1>2, BatchSame
<1>10. CASE SkipWaiting
  <2>1. /\ request' = [request EXCEPT ![Candidate] = Promoted(Candidate)]
        /\ loc' = [loc EXCEPT !.step_skipped = prepend_request(@, Candidate)]
        /\ WaitingTurn /\ PopCandidate /\ pc' = "waiting"
    BY <1>10 DEF SkipWaiting, WaitingTurn
  <2>2. Candidate \in Reqs /\ request[Candidate].status # "RUNNING"
    BY <2>1, PopEffect
  <2>3. loc'.batch = loc.batch
    BY <2>1, <1>1 DEF Locals
  <2>4. \A i \in DOMAIN loc.batch : request'[loc.batch[i].req] = request[loc.batch[i].req]
    BY <2>1, <2>2, <1>1, <1>3
  <2>5. QED BY <2>1, <2>3, <2>4, <1>2, BatchSame
<1>11. ASSUME WaitingTurn, NEW found \in Lookups(Promoted(Candidate)), Admit(found)
       PROVE  DraftsAll' /\ WantRight'
  <2> DEFINE r == Candidate
             q == found.q
             computed == found.computed
             n == AdmitTokens(q, computed)
             p == [q EXCEPT !.status = "RUNNING", !.num_computed_tokens = computed]
  <2>1. PICK e : Admitted(e, r, q, computed)
    BY <1>11, AdmittedFacts
  <2>2. /\ r \in Reqs /\ q \in AnyRequest /\ computed \in Int /\ n > 0 /\ n \in Int
        /\ request' = [request EXCEPT ![e.req] = p]
        /\ e \in BatchEntry /\ e.req = r /\ e.n = n /\ pc' = "waiting"
        /\ e.drafts = (IF Padded(q.num_tokens - computed) THEN NumSpec ELSE 0)
        /\ loc'.batch = Append(loc.batch, e)
        /\ \A i \in DOMAIN loc.batch : loc.batch[i].req # e.req
    BY <2>1 DEF Admitted
  <2>3. e.drafts = AtLeast(computed + n - q.num_tokens - q.num_output_placeholders, 0)
    BY <2>2, <1>11, AdmitDrafts
  <2> HIDE DEF n, q, computed, r
  <2>4. /\ p.num_computed_tokens = computed /\ p.num_tokens = q.num_tokens
        /\ p.num_output_placeholders = q.num_output_placeholders
    BY <2>2 DEF AnyRequest
  <2>5. e.drafts = AtLeast(p.num_computed_tokens + e.n - p.num_tokens - p.num_output_placeholders, 0)
    BY <2>2, <2>3, <2>4
  <2> HIDE DEF p
  <2>6. DraftsAll'
    BY <2>2, <2>5, <1>2, DraftsGrow
  <2>7. QED BY <2>2, <2>6 DEF WantRight
<1>12. ASSUME WaitingTurn, NEW found \in Lookups(Promoted(Candidate)), StopWaiting(found)
       PROVE  DraftsAll' /\ WantRight'
  <2>1. /\ request' = [request EXCEPT ![Candidate] = found.q]
        /\ loc' = [loc EXCEPT !.step_skipped = <<>>] /\ pc' = "commit"
    BY <1>12 DEF StopWaiting, Requeue
  <2>2. request[Candidate].status # "RUNNING" /\ Candidate \in Reqs
    <3>1. Candidate \in ToSet(CandidateQueue) /\ Candidate \in Reqs
      BY <1>12, CandidateFacts DEF Base
    <3>2. Queued = LiveReqs \ WithStatus("RUNNING")
      BY <1>12, RunningOnes DEF WaitingTurn
    <3>3. Candidate \in Queued
      BY <3>1 DEF CandidateQueue, Queued
    <3>4. QED BY <3>1, <3>2, <3>3 DEF WithStatus
  <2>3. loc'.batch = loc.batch
    BY <2>1, <1>1 DEF Locals
  <2>4. \A i \in DOMAIN loc.batch : request'[loc.batch[i].req] = request[loc.batch[i].req]
    BY <2>1, <2>2, <1>1, <1>3
  <2>5. QED BY <2>1, <2>3, <2>4, <1>2, BatchSame
<1>13. CASE EndWaiting
  <2>1. request' = request /\ loc' = [loc EXCEPT !.step_skipped = <<>>] /\ pc' = "commit"
    BY <1>13 DEF EndWaiting, Requeue
  <2>2. loc'.batch = loc.batch
    BY <2>1, <1>1 DEF Locals
  <2>3. QED BY <2>1, <2>2, <1>2, BatchSame
<1>14. CASE Commit
  <2>1. loc' = Idle /\ pc' = "idle"
    BY <1>14 DEF Commit
  <2>2. DOMAIN loc'.batch = {}
    BY <2>1 DEF Idle
  <2>3. QED BY <2>1, <2>2 DEF DraftsAll, WantRight
<1>15. QED BY <1>5, <1>6, <1>7, <1>8, <1>9, <1>10, <1>11, <1>12, <1>13, <1>14 DEF Schedule

\* Every step keeps the counters in place.
LEMMA TokensNext ==
  ASSUME PaddingUncut, Base, Slots, BudgetKept, ChunksKept, Tokens, [Next]_vars
  PROVE  Tokens'
<1>1. AllFine' /\ FinishedToldOnce'
  BY FineNext, FinishedNext DEF Tokens
<1>2. DraftsAll' /\ WantRight'
  <2>1. CASE Schedule
    BY <2>1, BatchSchedule
  <2>2. CASE ~Schedule /\ InSchedule'
    <3>1. UNCHANGED <<config, loc, pc, request, running>>
      BY <2>2, ScheduleOnly
    <3>2. QED BY <3>1, Zenon DEF Tokens, DraftsAll, DraftsRight, WantRight, Wanted
  <2>3. CASE ~InSchedule'
    <3>1. loc'.batch = <<>> /\ pc' # "running"
      BY <2>3, BaseNext DEF Base, Phases, InSchedule, Idle, Typed
    <3>2. QED BY <3>1 DEF DraftsAll, WantRight
  <2>4. QED BY <2>1, <2>2, <2>3
<1>3. QED BY <1>1, <1>2 DEF Tokens, DraftsAll

(* The counters of every request, its entries in the steps in flight and what the *)
(* model runner has of it keep fitting together.                                  *)
THEOREM TokensInvariant ==
  ASSUME PaddingUncut PROVE Spec => [](Base /\ Slots /\ Tokens)
<1>1. Init => Tokens
  BY TokensInit
<1>2. Base /\ Slots /\ BudgetKept /\ ChunksKept /\ Tokens /\ [Next]_vars => Tokens'
  BY TokensNext
<1>3. QED BY <1>1, <1>2, BudgetInvariant, ChunksInvariant, PTL DEF Spec

(* A decoding request has exactly its last token, and the placeholders of the *)
(* tokens in flight, left to compute (scheduler.py, _update_after_schedule,   *)
(* the rejection of drafts and _update_request_with_output).                  *)
THEOREM CountersMatch == ASSUME PaddingUncut PROVE Spec => []ComputedMatches
<1>1. Base /\ Slots /\ Tokens => ComputedMatches
  <2> SUFFICES ASSUME Base, Tokens, pc = "idle", Depth > 1 \/ inflight = <<>>, NEW r \in Reqs,
                      request[r].status = "RUNNING", ~request[r].is_prefill_chunk
               PROVE  request[r].num_computed_tokens
                        = request[r].num_tokens - 1 + request[r].num_output_placeholders
    BY DEF ComputedMatches
  <2> DEFINE p == request[r]
             u == Settled(r)
  <2>1. loc.batch = <<>> /\ todo = <<>>
    BY IdleFacts DEF Base, Idle
  <2>2. u = TRUE
    <3>1. Settled(r)
      BY <2>1 DEF Settled
    <3>2. QED BY <3>1 DEF Settled
  <2>3. Steady(p, r, TRUE) /\ Tracked(p, r, todo, inflight, TRUE, sampled[r]) /\ p \in AnyRequest
    BY <2>2 DEF Tokens, AllFine, Fine, Base, Typed
  <2>4. Ahead(p, TRUE) = p.num_computed_tokens + 1 - p.num_tokens
    BY DEF Ahead
  <2>5. /\ p.num_computed_tokens \in Int /\ p.num_tokens \in Int /\ p.num_output_placeholders \in Int
    BY <2>3 DEF AnyRequest
  <2> HIDE DEF p, u
  <2>6. Ahead(p, TRUE) = p.num_output_placeholders
    <3>1. CASE Depth > 1
      BY <3>1, <2>3 DEF Steady
    <3>2. CASE ~(Depth > 1)
      <4>1. inflight = <<>> /\ Absent(todo, r)
        BY <3>2, <2>1 DEF Absent
      <4>2. Ahead(p, TRUE) = 0
        BY <4>1, <2>3, TrackedEmpty
      <4>3. QED BY <3>2, <4>2, <2>3 DEF Steady
    <3>3. QED BY <3>1, <3>2
  <2>7. p.num_computed_tokens = p.num_tokens - 1 + p.num_output_placeholders
    <3> DEFINE a == Ahead(p, TRUE)
               c == p.num_computed_tokens
               t == p.num_tokens
               o == p.num_output_placeholders
    <3>1. a = c + 1 - t /\ c \in Int /\ t \in Int /\ o \in Int /\ a = o
      BY <2>4, <2>5, <2>6
    <3> HIDE DEF a, c, t, o
    <3>2. c = t - 1 + o
      BY <3>1
    <3>3. QED BY <3>2 DEF c, t, o
  <2>8. QED BY <2>7 DEF p
<1>2. QED BY <1>1, TokensInvariant, PTL


GivenInPlace ==
  \A r \in Reqs :
       pc = "output" /\ request'[r].num_tokens > request[r].num_tokens
       => Head(todo).req = r /\ SampledBefore(Head(todo)) = request[r].num_tokens

\* What update_from_output gives was sampled for the place it is put in.
LEMMA OutputInPlace ==
  ASSUME Base, AllFine, [Next]_vars, NEW r \in Reqs, pc = "output",
         request'[r].num_tokens > request[r].num_tokens
  PROVE  Head(todo).req = r /\ SampledBefore(Head(todo)) = request[r].num_tokens
<1>1. request \in [Reqs -> AnyRequest] /\ config \in Configs /\ request[r].num_tokens \in Int
  BY DEF Base, Typed, AnyRequest
<1>2. request'[r] # request[r]
  BY <1>1
<1>3. \/ DropOutput
      \/ EndOutput
      \/ \E accepted \in 0 .. NumSpec, eos \in 0 .. NumSpec + 1, error \in BOOLEAN,
            drafts \in {0, NumSpec} : Deliver(accepted, eos, error, drafts)
  <2>1. ~Schedule
    BY DEF Schedule, BeginSchedule, SkipRunning, ScheduleRunning, PreemptForRunning, EndRunning,
           WaitingTurn, SkipWaiting, EndWaiting, Commit, RunningTurn
  <2>2. ~BeginOutput
    BY DEF BeginOutput
  <2>3. ~Handlers
    <3>1. ASSUME NEW x \in Reqs PROVE ~AddRequest(x) /\ ~Abort(x)
                                      /\ \A update \in {"chunk", "end"} : ~AddUpdate(x, update)
      BY DEF AddRequest, Abort, AddUpdate, BetweenSteps
    <3>2. ~ResetPrefixCache /\ \A p \in {"UNPAUSED", "PAUSED_NEW", "PAUSED_ALL"} : ~set_pause_state(p)
      BY DEF ResetPrefixCache, set_pause_state, BetweenSteps
    <3>3. QED BY <3>1, <3>2 DEF Handlers
  <2>4. ~GrammarStep /\ vars' # vars
    BY <1>2 DEF GrammarStep, GrammarDone, vars
  <2>5. QED BY <2>1, <2>2, <2>3, <2>4 DEF Next, UpdateFromOutput
<1>4. CASE DropOutput
  <2>1. PICK e \in StepEntry : e = Head(todo)
    BY <1>4, HeadFacts DEF Base, DropOutput
  <2>2. e.n \in Int /\ e.req \in Reqs
    BY <2>1 DEF StepEntry
  <2>3. request' = request \/ request' = [request EXCEPT ![e.req] = Returned(request[e.req], e.n)]
    BY <1>4, <2>1 DEF DropOutput
  <2>4. Returned(request[e.req], e.n).num_tokens = request[e.req].num_tokens
    <3> DEFINE p == request[e.req]
    <3>1. p \in AnyRequest
      BY <1>1, <2>2
    <3> HIDE DEF p
    <3>2. Returned(p, e.n).num_tokens = p.num_tokens
      BY <3>1 DEF Returned, AnyRequest
    <3>3. QED BY <3>2 DEF p
  <2>5. request'[r].num_tokens = request[r].num_tokens
    BY <2>2, <2>3, <2>4, <1>1
  <2>6. QED BY <2>5, <1>1
<1>5. CASE EndOutput
  <2>1. request'[r] = Gone(r)
    BY <1>5, <1>2 DEF EndOutput, FinishRequests
  <2>2. Gone(r).num_tokens = PromptLen[r] /\ PromptLen[r] \in Int
    BY <1>1, GoneFields, ConfigFacts
  <2>3. request[r].num_tokens >= PromptLen[r]
    BY DEF AllFine, Fine, Steady
  <2>4. QED BY <2>1, <2>2, <2>3, <1>1
<1>6. ASSUME NEW accepted \in 0 .. NumSpec, NEW eos \in 0 .. NumSpec + 1, NEW error \in BOOLEAN,
             NEW drafts \in {0, NumSpec}, Deliver(accepted, eos, error, drafts)
      PROVE  Head(todo).req = r /\ SampledBefore(Head(todo)) = request[r].num_tokens
  <2>1. accepted \in Int /\ eos \in Int /\ drafts \in Int
    <3>1. NumSpec \in Nat
      BY <1>1, ConfigFacts
    <3>2. QED BY <3>1
  <2>2. PICK x \in Reqs : x = Head(todo).req
    BY <1>6, HeadFacts DEF Base, Deliver
  <2> DEFINE q == Output(Head(todo), accepted, eos, drafts)
  <2>3. \E n : request' = [request EXCEPT ![x] = n]
    BY <2>1, <2>2, <1>6, DeliverEffect
  <2>4. x = r
    BY <2>3, <1>1, <1>2
  <2>5. OutputTurn /\ Live(Head(todo).req)
        /\ ~(request[Head(todo).req].num_stale_output_tokens > 0
             /\ request[Head(todo).req].drop_stale_output)
    BY <1>6, DeliverFacts DEF Delivered, IsStale
  <2>6. request[Head(todo).req].num_tokens = SampledBefore(Head(todo))
    BY <2>5, HeadMeets
  <2>7. QED BY <2>2, <2>4, <2>6
<1>7. QED BY <1>3, <1>4, <1>5, <1>6

(* Every token a request is given was sampled by the model runner for exactly  *)
(* that position (scheduler.py, _preempt_request, the drop of stale output and *)
(* the resumption of a preempted request).                                     *)
THEOREM TokensStayInPlace == ASSUME PaddingUncut PROVE Spec => TokensInPlace
<1>1. Base /\ Tokens /\ [Next]_vars => [GivenInPlace]_vars
  <2> SUFFICES ASSUME Base, Tokens, [Next]_vars PROVE GivenInPlace
    OBVIOUS
  <2>1. QED BY OutputInPlace DEF Tokens, GivenInPlace
<1>2. Spec => [][GivenInPlace]_vars
  BY <1>1, TokensInvariant, PTL DEF Spec
<1>3. QED BY <1>2 DEF TokensInPlace, GivenInPlace

---------------------------------------------------------------------------
(* The bounds of the counters.                                             *)

\* The prompt of a session, of n chunks sent, grows by one turn for each of those
\* it has taken up; the end of its input, once sent, is in its queue.
Fed(q, r, n) ==
  r \in Sessions /\ q.status # "FINISHED" =>
    /\ 0 <= n /\ n <= MaxChunks + 1
    /\ q.num_prompt_tokens
         <= PromptLen[r] + (n - Len(q.streaming_queue)) * (MaxTokens + 1)
    /\ n = MaxChunks + 1 =>
         q.streaming_queue # <<>> /\ q.streaming_queue[Len(q.streaming_queue)] = "end"

Roomy(q) ==
  /\ 1 <= q.num_prompt_tokens /\ q.num_prompt_tokens < MaxModelLen
  /\ 1 <= q.num_tokens /\ q.num_tokens <= MaxModelLen
  /\ q.num_tokens <= q.num_prompt_tokens + MaxTokens
  /\ 0 <= q.num_computed_tokens /\ q.num_computed_tokens <= MaxModelLen
  /\ 0 <= q.num_spec /\ q.num_spec <= NumSpec
  /\ 0 <= q.shared_prefix_boundary /\ q.shared_prefix_boundary <= MaxModelLen

\* Another token fits.
Growing(q) == q.num_tokens < MaxModelLen /\ q.num_tokens < q.num_prompt_tokens + MaxTokens

Sized(q) ==
  /\ Roomy(q)
  /\ q.status # "WAITING_FOR_STREAMING_REQ" => Growing(q)
  /\ q.status = "FINISHED" => q.num_in_flight_tokens = 0 /\ q.num_stale_output_tokens = 0

SizedNow(r) == Sized(request[r]) /\ Fed(request[r], r, chunks[r])

AllSized == chunks \in [Reqs -> Int] /\ \A r \in Reqs : SizedNow(r)

\* An entry ends within the model's length.
InLength(e) == request[e.req].num_computed_tokens + e.n <= MaxModelLen

BatchInLength == \A j \in DOMAIN loc.batch : InLength(loc.batch[j])

WantInLength ==
  pc = "running" /\ loc.want > 0 =>
    request[running[loc.idx]].num_computed_tokens + loc.want <= MaxModelLen

Bounded ==
  /\ AllSized /\ BatchInLength /\ WantInLength
  /\ \A r \in Reqs : sampled[r] >= 0

\* What holds of the next counters holds in the next state.
LEMMA SizedPrimed ==
  ASSUME UNCHANGED config, NEW r, Sized(request'[r]), Fed(request'[r], r, chunks'[r])
  PROVE  SizedNow(r)'
BY DEF SizedNow, Sized, Roomy, Growing, Fed, MaxModelLen, MaxTokens, NumSpec, MaxChunks, PromptLen, Sessions

\* A request that is new, or gone, is within every bound.
LEMMA SizedFresh ==
  ASSUME config \in Configs, NEW r \in Reqs
  PROVE  /\ Sized(Gone(r)) /\ Sized(NewRequest(r)) /\ Fed(NewRequest(r), r, 0)
         /\ \A n : Fed(Gone(r), r, n)
<1>1. /\ PromptLen[r] \in Int /\ 1 <= PromptLen[r] /\ PromptLen[r] < MaxModelLen
      /\ MaxTokens \in Nat \ {0} /\ NumSpec \in Nat /\ MaxModelLen \in Nat /\ MaxChunks \in Nat
  BY ConfigFacts
<1> DEFINE q == NewRequest(r)
           g == Gone(r)
<1>2. /\ q.num_tokens = PromptLen[r] /\ q.num_prompt_tokens = PromptLen[r]
      /\ q.num_computed_tokens = 0 /\ q.num_spec = 0 /\ q.shared_prefix_boundary = 0
      /\ q.num_in_flight_tokens = 0 /\ q.num_stale_output_tokens = 0
      /\ q.status = "NEW" /\ q.streaming_queue = <<>>
  BY DEF NewRequest
<1>3. /\ g.num_tokens = PromptLen[r] /\ g.num_prompt_tokens = PromptLen[r]
      /\ g.num_computed_tokens = 0 /\ g.num_spec = 0 /\ g.shared_prefix_boundary = 0
      /\ g.num_in_flight_tokens = 0 /\ g.num_stale_output_tokens = 0 /\ g.status = "FINISHED"
  BY DEF Gone, NewRequest
<1> HIDE DEF q, g
<1>4. Sized(q) /\ Sized(g)
  BY <1>1, <1>2, <1>3 DEF Sized, Roomy, Growing
<1>5. \A n : Fed(g, r, n)
  BY <1>3 DEF Fed
<1>6. Len(<<>>) = 0 /\ (0 - 0) * (MaxTokens + 1) = 0
  BY <1>1
<1>7. Fed(q, r, 0)
  BY <1>1, <1>2, <1>6 DEF Fed
<1>8. QED BY <1>4, <1>5, <1>7 DEF q, g

\* The counters that Sized asks for, when the tokens and the queue stay.
Resized(q, p) ==
  /\ q.num_tokens = p.num_tokens /\ q.num_prompt_tokens = p.num_prompt_tokens
  /\ q.streaming_queue = p.streaming_queue
  /\ 0 <= q.num_computed_tokens /\ q.num_computed_tokens <= MaxModelLen
  /\ 0 <= q.num_spec /\ q.num_spec <= NumSpec
  /\ 0 <= q.shared_prefix_boundary /\ q.shared_prefix_boundary <= MaxModelLen
  /\ p.status # "FINISHED" /\ q.status # "FINISHED"
  /\ p.status = "WAITING_FOR_STREAMING_REQ" => q.status = "WAITING_FOR_STREAMING_REQ"

\* A request that is resized is within its bounds.
LEMMA ResizedFits ==
  ASSUME NEW q, NEW p, NEW r, NEW n, Sized(p), Fed(p, r, n), Resized(q, p)
  PROVE  Sized(q) /\ Fed(q, r, n)
<1>1. Sized(q)
  BY Zenon DEF Resized, Sized, Roomy, Growing
<1>2. Fed(q, r, n)
  BY Zenon DEF Resized, Fed
<1>3. QED BY <1>1, <1>2

\* Steps that leave the tokens and the queues of the requests that go on.
LEMMA SizedResized ==
  ASSUME Base, AllSized, UNCHANGED <<config, chunks>>,
         \A r \in Reqs : \/ request'[r] = request[r]
                         \/ request'[r] = Gone(r)
                         \/ Resized(request'[r], request[r])
  PROVE  AllSized'
<1>1. config \in Configs
  BY DEF Base, Typed
<1>2. ASSUME NEW r \in Reqs PROVE SizedNow(r)'
  <2>1. Sized(request[r]) /\ Fed(request[r], r, chunks[r])
    BY DEF AllSized, SizedNow
  <2>2. Sized(request'[r]) /\ Fed(request'[r], r, chunks'[r])
    <3>1. CASE request'[r] = request[r]
      BY <3>1, <2>1
    <3>2. CASE request'[r] = Gone(r)
      BY <3>2, <1>1, SizedFresh
    <3>3. CASE Resized(request'[r], request[r])
      BY <3>3, <2>1, ResizedFits
    <3>4. QED BY <3>1, <3>2, <3>3
  <2>3. QED BY <2>2, SizedPrimed
<1>3. QED BY <1>2 DEF AllSized

\* A step that changes one request.
LEMMA SizedOne ==
  ASSUME Base, AllSized, UNCHANGED <<config, chunks>>, NEW r \in Reqs, NEW q,
         request' = [request EXCEPT ![r] = q], q = Gone(r) \/ Resized(q, request[r])
  PROVE  AllSized'
<1>1. request \in [Reqs -> AnyRequest]
  BY DEF Base, Typed
<1>2. \A s \in Reqs : request'[s] = IF s = r THEN q ELSE request[s]
  BY <1>1
<1>3. QED BY <1>2, SizedResized

\* No request is over its bounds in the first state.
LEMMA BoundedInit == ASSUME Init PROVE Bounded
<1>1. /\ config \in Configs /\ chunks = [r \in Reqs |-> 0] /\ sampled = [r \in Reqs |-> 0]
      /\ request = [r \in Reqs |-> NewRequest(r)] /\ loc = Idle
  BY DEF Init
<1>2. AllSized
  BY <1>1, SizedFresh DEF AllSized, SizedNow
<1>3. loc.batch = <<>> /\ loc.want = 0
  BY <1>1 DEF Idle
<1>4. QED BY <1>1, <1>2, <1>3 DEF Bounded, BatchInLength, WantInLength

\* Steps that touch no request.
LEMMA SizedSame ==
  ASSUME Base, AllSized, UNCHANGED <<config, chunks, request>>
  PROVE  AllSized'
BY SizedResized

\* What a preemption leaves of a request's counters.
LEMMA EvictedFits ==
  ASSUME config \in Configs, NEW p \in AnyRequest, NEW drop \in BOOLEAN, Sized(p),
         p.status = "RUNNING"
  PROVE  Resized(Preempted(p, drop), p)
<1> DEFINE q == Preempted(p, drop)
           x == drop \/ (p.drop_stale_output /\ p.num_stale_output_tokens > 0)
<1>1. q = [p EXCEPT !.status = "PREEMPTED", !.num_computed_tokens = 0, !.num_spec = 0,
                    !.drop_stale_output = x, !.num_stale_output_tokens = p.num_in_flight_tokens,
                    !.num_output_placeholders = 0]
  BY Zenon DEF Preempted
<1> HIDE DEF q, x
<1>2. /\ q.status = "PREEMPTED" /\ q.num_computed_tokens = 0 /\ q.num_spec = 0
      /\ q.num_tokens = p.num_tokens /\ q.num_prompt_tokens = p.num_prompt_tokens
      /\ q.streaming_queue = p.streaming_queue
      /\ q.shared_prefix_boundary = p.shared_prefix_boundary
  BY <1>1 DEF AnyRequest
<1>3. MaxModelLen >= 0 /\ NumSpec >= 0
  BY ConfigFacts
<1>4. /\ 0 <= p.shared_prefix_boundary /\ p.shared_prefix_boundary <= MaxModelLen
  BY DEF Sized, Roomy, Growing
<1>5. Resized(q, p)
  BY <1>2, <1>3, <1>4 DEF Resized
<1>6. QED BY <1>5 DEF q

\* The candidate, before and after its lookup.
LEMMA CandidateFits ==
  ASSUME Base, AllFine, AllSized, WaitingTurn
  PROVE  /\ Candidate \in Reqs /\ Resized(Promoted(Candidate), request[Candidate])
         /\ \A found \in Lookups(Promoted(Candidate)) :
              /\ Resized(found.q, request[Candidate])
              /\ 0 <= found.computed /\ found.computed <= MaxModelLen
<1>0. PICK r \in Reqs : r = Candidate
  BY CandidateFacts DEF Base
<1> DEFINE p == request[r]
           q == Promoted(r)
<1>1. p \in AnyRequest /\ config \in Configs /\ Sized(p) /\ q \in AnyRequest
  BY <1>0, PromotedFacts DEF Base, Typed, AllSized, SizedNow
<1>2. q = [p EXCEPT !.status = q.status]
  BY PromotedFacts DEF Base
<1>3. p.status # "FINISHED" /\ q.status # "FINISHED"
      /\ (p.status = "WAITING_FOR_STREAMING_REQ" => q.status = "WAITING_FOR_STREAMING_REQ")
  <2>1. p.status # "FINISHED"
    <3>1. Candidate \in ToSet(CandidateQueue)
      BY CandidateFacts DEF Base
    <3>2. Queued = LiveReqs \ WithStatus("RUNNING")
      BY RunningOnes DEF WaitingTurn
    <3>3. Candidate \in Queued
      BY <3>1 DEF CandidateQueue, Queued
    <3>4. QED BY <1>0, <3>2, <3>3 DEF LiveReqs, Live
  <2>2. QED BY <2>1, PromotedFacts DEF Base
<1>4. /\ q.num_tokens = p.num_tokens /\ q.num_prompt_tokens = p.num_prompt_tokens
      /\ q.num_computed_tokens = p.num_computed_tokens
      /\ q.streaming_queue = p.streaming_queue /\ q.num_spec = p.num_spec
      /\ q.shared_prefix_boundary = p.shared_prefix_boundary
  <2> HIDE DEF q, p
  <2>1. QED BY <1>1, <1>2, StatusFields
<1>5. Resized(q, p)
  BY <1>1, <1>3, <1>4 DEF Resized, Sized, Roomy, Growing
<1>6. ASSUME NEW found \in Lookups(q)
      PROVE  Resized(found.q, p) /\ 0 <= found.computed /\ found.computed <= MaxModelLen
  <2> DEFINE f == found.q
             j == found.q.shared_prefix_boundary
  <2>1. /\ f \in AnyRequest /\ f = [q EXCEPT !.shared_prefix_boundary = j]
        /\ found.computed \in Int
        /\ \/ q.num_computed_tokens > 0 /\ f = q /\ found.computed = q.num_computed_tokens
           \/ ~(q.num_computed_tokens > 0) /\ found.computed \in CacheHits(q)
    BY <1>1, LookupFacts
  <2>2. f = q \/ j \in {0, q.num_tokens - 1}
    <3>1. CASE q.num_computed_tokens > 0
      BY <3>1, <2>1
    <3>2. CASE ~(q.num_computed_tokens > 0)
      <4>1. PICK hit \in CacheHits(q) : \E junction \in Junctions(q, hit) :
              found = [q |-> [q EXCEPT !.shared_prefix_boundary = junction], computed |-> hit]
        BY <3>2 DEF Lookups
      <4>2. PICK junction \in Junctions(q, hit) :
              found = [q |-> [q EXCEPT !.shared_prefix_boundary = junction], computed |-> hit]
        BY <4>1
      <4>3. j = junction
        <5> HIDE DEF q
        <5>1. QED BY <4>2, <1>1 DEF AnyRequest
      <4>4. junction \in {0, q.num_tokens - 1}
        BY DEF Junctions
      <4>5. QED BY <4>3, <4>4
    <3>3. QED BY <3>1, <3>2
  <2>3. /\ q.num_tokens >= 1 /\ q.num_tokens <= MaxModelLen /\ q.num_tokens \in Int
        /\ 0 <= q.num_computed_tokens /\ q.num_computed_tokens <= MaxModelLen
    BY <1>1, <1>4 DEF Sized, Roomy, Growing, AnyRequest
  <2>4. MaxModelLen \in Nat
    BY <1>1, ConfigFacts
  <2>5. 0 <= found.computed /\ found.computed <= MaxModelLen
    <3>1. CASE found.computed \in CacheHits(q)
      <4>1. 0 <= found.computed /\ found.computed < q.num_tokens
        BY <3>1, <2>3, <1>1, CacheHitsFacts
      <4> HIDE DEF MaxModelLen, q
      <4>2. QED BY <4>1, <2>1, <2>3, <2>4
    <3>2. CASE found.computed = q.num_computed_tokens
      BY <3>2, <2>3
    <3>3. QED BY <3>1, <3>2, <2>1
  <2>6. Resized(f, p)
    <3>1. CASE f = q
      BY <3>1, <1>5
    <3>2. CASE j \in {0, q.num_tokens - 1}
      <4>1. 0 <= j /\ j <= MaxModelLen
        <5> HIDE DEF MaxModelLen, q, j
        <5>1. QED BY <3>2, <2>3, <2>4
      <4> HIDE DEF q, j, f, p
      <4>2. /\ f.status = q.status /\ f.num_tokens = q.num_tokens
            /\ f.num_prompt_tokens = q.num_prompt_tokens
            /\ f.num_computed_tokens = q.num_computed_tokens
            /\ f.streaming_queue = q.streaming_queue /\ f.num_spec = q.num_spec
            /\ f.shared_prefix_boundary = j
        BY <1>1, <2>1, LookupFields DEF f, j
      <4>3. QED BY <4>1, <4>2, <1>5 DEF Resized
    <3>3. QED BY <3>1, <3>2, <2>2
  <2>7. QED BY <2>5, <2>6
<1>7. QED BY <1>0, <1>5, <1>6

\* A launched request.
LEMMA AdvancedFits ==
  ASSUME config \in Configs, NEW p \in AnyRequest, NEW n \in Int, NEW drafts \in Int, Sized(p),
         p.status = "RUNNING", n > 0, p.num_computed_tokens + n <= MaxModelLen
  PROVE  Resized(Advanced(p, n, drafts), p)
<1> DEFINE computed == p.num_computed_tokens + n
           chunk == computed < p.num_tokens + p.num_output_placeholders
           async == Depth > 1 /\ ~chunk
           ph == IF async THEN p.num_output_placeholders + 1 + drafts
                 ELSE p.num_output_placeholders
           sp == IF async THEN NumSpec ELSE p.num_spec
           fl == p.num_in_flight_tokens + n
           q == Advanced(p, n, drafts)
<1>1. q = [p EXCEPT !.num_computed_tokens = computed, !.num_in_flight_tokens = fl,
                    !.is_prefill_chunk = chunk, !.num_output_placeholders = ph, !.num_spec = sp]
  BY DEF Advanced
<1>2. NumSpec \in Nat /\ MaxModelLen \in Nat
  BY ConfigFacts
<1>3. /\ 0 <= p.num_spec /\ p.num_spec <= NumSpec
      /\ 0 <= p.shared_prefix_boundary /\ p.shared_prefix_boundary <= MaxModelLen
      /\ 0 <= p.num_computed_tokens /\ p.num_computed_tokens \in Int
  BY DEF Sized, Roomy, Growing, AnyRequest
<1> HIDE DEF MaxModelLen, NumSpec
<1>4. sp = p.num_spec \/ sp = NumSpec
  OBVIOUS
<1>5. 0 <= computed /\ computed <= MaxModelLen
  BY <1>2, <1>3
<1> HIDE DEF q, computed, chunk, async, ph, sp, fl
<1>6. /\ q.status = p.status /\ q.num_computed_tokens = computed /\ q.num_spec = sp
      /\ q.num_tokens = p.num_tokens /\ q.num_prompt_tokens = p.num_prompt_tokens
      /\ q.streaming_queue = p.streaming_queue
      /\ q.shared_prefix_boundary = p.shared_prefix_boundary
  BY <1>1 DEF AnyRequest
<1>7. 0 <= sp /\ sp <= NumSpec
  BY <1>2, <1>3, <1>4
<1>8. Resized(q, p)
  BY <1>3, <1>5, <1>6, <1>7 DEF Resized
<1>9. QED BY <1>8 DEF q

\* schedule() leaves the requests within their bounds.
LEMMA SizedSchedule ==
  ASSUME Base, AllFine, AllSized, BatchInLength, Schedule
  PROVE  AllSized'
<1>1. request \in [Reqs -> AnyRequest] /\ config \in Configs /\ loc.batch \in Seq(BatchEntry)
  BY DEF Base, Typed, Locals
<1>2. UNCHANGED <<config, chunks>>
  BY DEF Schedule, BeginSchedule, SkipRunning, ScheduleRunning, PreemptForRunning, EndRunning,
         SkipWaiting, Admit, StopWaiting, Requeue, EndWaiting, Commit, env
<1>3. NumSpec >= 0 /\ MaxModelLen >= 0 /\ KvDelivery \in BOOLEAN
  BY <1>1, ConfigFacts
<1>4. \A r \in Reqs : Sized(request[r])
  BY DEF AllSized, SizedNow
<1>5. CASE BeginSchedule \/ SkipRunning \/ EndRunning \/ EndWaiting
  <2>1. UNCHANGED request
    BY <1>5 DEF BeginSchedule, SkipRunning, EndRunning, EndWaiting
  <2>2. QED BY <2>1, <1>2, SizedSame
<1>6. CASE ScheduleRunning
  <2> DEFINE r == running[loc.idx]
             p == request[r]
             q == [p EXCEPT !.num_spec = 0]
  <2>1. PICK e : Scheduled(e, r)
    BY <1>6, ScheduledFacts
  <2>2. /\ r \in Reqs /\ p \in AnyRequest /\ p.status = "RUNNING"
        /\ request' = [request EXCEPT ![r] = q]
    BY <2>1 DEF Scheduled
  <2>3. Sized(p)
    BY <1>4, <2>2
  <2> HIDE DEF r
  <2>4. Resized(q, p)
    <3> HIDE DEF p
    <3>1. /\ q.status = p.status /\ q.num_computed_tokens = p.num_computed_tokens
          /\ q.num_spec = 0
          /\ q.num_tokens = p.num_tokens /\ q.num_prompt_tokens = p.num_prompt_tokens
          /\ q.streaming_queue = p.streaming_queue
          /\ q.shared_prefix_boundary = p.shared_prefix_boundary
      BY <2>2 DEF AnyRequest
    <3> HIDE DEF q
    <3>2. QED BY <3>1, <2>2, <2>3, <1>3 DEF Resized, Sized, Roomy, Growing
  <2> HIDE DEF q
  <2>5. QED BY <2>2, <2>4, <1>2, SizedOne
<1>7. CASE PreemptForRunning
  <2>1. PICK v \in Reqs : v = Victim
    BY <1>7, EvictedFacts DEF Evicted
  <2>2. /\ v \in ToSet(running) /\ pc = "running"
        /\ request' = [request EXCEPT ![v] = Preempted(request[v], KvDelivery)]
    BY <2>1, <1>7, EvictedFacts DEF Evicted
  <2>3. request[v].status = "RUNNING" /\ request[v] \in AnyRequest
    BY <2>2, <1>1, RunningOnes DEF WithStatus
  <2>4. Resized(Preempted(request[v], KvDelivery), request[v])
    BY <2>3, <1>1, <1>3, <1>4, EvictedFits
  <2>5. QED BY <2>2, <2>4, <1>2, SizedOne
<1>8. CASE SkipWaiting
  <2>1. WaitingTurn /\ request' = [request EXCEPT ![Candidate] = Promoted(Candidate)]
    BY <1>8 DEF SkipWaiting
  <2>2. QED BY <2>1, <1>2, CandidateFits, SizedOne
<1>9. ASSUME WaitingTurn, NEW found \in Lookups(Promoted(Candidate)), StopWaiting(found)
      PROVE  AllSized'
  <2>1. request' = [request EXCEPT ![Candidate] = found.q]
    BY <1>9 DEF StopWaiting
  <2>2. QED BY <2>1, <1>2, <1>9, CandidateFits, SizedOne
<1>10. ASSUME WaitingTurn, NEW found \in Lookups(Promoted(Candidate)), Admit(found)
       PROVE  AllSized'
  <2>0. PICK r \in Reqs : r = Candidate
    BY <1>10, CandidateFits
  <2> DEFINE f == found.q
             c == found.computed
             q == [f EXCEPT !.status = "RUNNING", !.num_computed_tokens = c]
             p == request[r]
  <2>1. f \in AnyRequest /\ request' = [request EXCEPT ![r] = q] /\ MayResume(f)
    BY <2>0, <1>10, AdmitFacts DEF Base
  <2>2. Resized(f, p) /\ 0 <= c /\ c <= MaxModelLen
    BY <2>0, <1>10, CandidateFits
  <2>3. p.status # "WAITING_FOR_STREAMING_REQ"
    BY <2>1, <2>2 DEF Resized, MayResume, Blocked
  <2>4. Resized(q, p)
    <3> HIDE DEF f, c, p
    <3>1. /\ q.status = "RUNNING" /\ q.num_computed_tokens = c
          /\ q.num_spec = f.num_spec
          /\ q.num_tokens = f.num_tokens /\ q.num_prompt_tokens = f.num_prompt_tokens
          /\ q.streaming_queue = f.streaming_queue
          /\ q.shared_prefix_boundary = f.shared_prefix_boundary
      BY <2>1 DEF AnyRequest
    <3> HIDE DEF q
    <3>2. QED BY <3>1, <2>2, <2>3 DEF Resized
  <2> HIDE DEF q
  <2>5. QED BY <2>1, <2>4, <1>2, SizedOne
<1>11. CASE Commit
  <2>1. request' = Launched
    BY <1>11, CommitFacts DEF Base
  <2>2. ASSUME NEW r \in Reqs
        PROVE  request'[r] = request[r] \/ Resized(request'[r], request[r])
    <3>1. CASE r \notin {e.req : e \in ToSet(loc.batch)}
      BY <3>1, <2>1 DEF Launched
    <3>2. CASE r \in {e.req : e \in ToSet(loc.batch)}
      <4>1. PICK i \in DOMAIN loc.batch : loc.batch[i].req = r
        BY <3>2 DEF ToSet
      <4> DEFINE b == loc.batch[i]
      <4>2. /\ b.n \in Int /\ b.n > 0 /\ b.drafts \in Int
            /\ request[r] \in AnyRequest /\ request[r].status = "RUNNING"
            /\ request'[r] = Advanced(request[r], b.n, b.drafts)
        BY <4>1, <1>11, LaunchEntry
      <4>3. request[r].num_computed_tokens + b.n <= MaxModelLen
        BY <4>1 DEF BatchInLength, InLength
      <4> HIDE DEF b, MaxModelLen
      <4>4. QED BY <4>2, <4>3, <1>1, <1>4, AdvancedFits
    <3>3. QED BY <3>1, <3>2
  <2>3. QED BY <2>2, <1>2, SizedResized
<1>12. QED BY <1>5, <1>6, <1>7, <1>8, <1>9, <1>10, <1>11 DEF Schedule

\* More chunks are more tokens.
LEMMA ChunkTokens ==
  ASSUME NEW a \in Int, NEW b \in Int, NEW k \in Nat
  PROVE  /\ a * k \in Int /\ b * k \in Int /\ (a + 1) * k = a * k + k
         /\ a <= b => a * k <= b * k
<1>1. a <= b => (b - a) * k >= 0
  OBVIOUS
<1>2. (b - a) * k = b * k - a * k
  OBVIOUS
<1>3. a * k \in Int /\ b * k \in Int /\ (a + 1) * k = a * k + k
  OBVIOUS
<1>4. QED BY <1>1, <1>2, <1>3

\* The prompt of a session that is fed no more than its chunks fits.
LEMMA FedFits ==
  ASSUME SessionsFit, config \in Configs, NEW r \in Reqs, r \in Sessions, NEW q \in AnyRequest,
         NEW n \in Int, q.status # "FINISHED", Fed(q, r, n)
  PROVE  q.num_prompt_tokens < MaxModelLen
<1> DEFINE s == q.streaming_queue
           k == MaxTokens + 1
           len == Len(s)
           plen == PromptLen[r]
           P == q.num_prompt_tokens
           taken == n - len
<1>1. /\ s \in Seq({"chunk", "end"}) /\ len \in Nat /\ P \in Int /\ (s # <<>> => len >= 1)
  BY DEF AnyRequest
<1>2. /\ MaxChunks \in Nat /\ k \in Nat /\ plen \in Int /\ MaxModelLen \in Int
  BY ConfigFacts
<1>3. plen + MaxChunks * k < MaxModelLen
  BY DEF SessionsFit, Sessions, PromptLen, MaxChunks, MaxTokens, MaxModelLen
<1>4. /\ n <= MaxChunks + 1 /\ P <= plen + taken * k
      /\ n = MaxChunks + 1 => s # <<>>
  BY DEF Fed
<1> HIDE DEF MaxModelLen, MaxChunks, s, k, len, plen, P
<1>5. taken \in Int /\ taken <= MaxChunks
  BY <1>1, <1>2, <1>4
<1> HIDE DEF taken
<1>6. taken * k <= MaxChunks * k /\ taken * k \in Int /\ MaxChunks * k \in Int
  BY <1>2, <1>5, ChunkTokens
<1>7. P < MaxModelLen
  BY <1>1, <1>2, <1>3, <1>4, <1>6
<1>8. QED BY <1>7 DEF P

\* A session that is given its next chunk is within its bounds.
LEMMA UpdatedFits ==
  ASSUME SessionsFit, config \in Configs, NEW r \in Reqs, r \in Sessions, NEW q \in AnyRequest,
         NEW p \in AnyRequest, Roomy(q), NEW n \in Int, NEW m \in Int, q.status # "FINISHED",
         Fed(q, r, n), 0 <= m, m <= MaxChunks + 1,
         p.num_tokens = q.num_tokens, p.num_prompt_tokens = q.num_prompt_tokens,
         p.num_computed_tokens = q.num_computed_tokens, p.num_spec = q.num_spec,
         p.shared_prefix_boundary = q.shared_prefix_boundary,
         m - Len(p.streaming_queue) = n - Len(q.streaming_queue) + 1,
         m = MaxChunks + 1 => /\ p.streaming_queue # <<>>
                              /\ p.streaming_queue[Len(p.streaming_queue)] = "end"
  PROVE  Sized(UpdatedSession(p)) /\ Fed(UpdatedSession(p), r, m)
<1> DEFINE kept == AtMost(p.num_tokens, p.num_computed_tokens)
           a == kept + 1
           b == AtLeast(kept, p.num_prompt_tokens) + 1
           u == UpdatedSession(p)
           k == MaxTokens + 1
           plen == PromptLen[r]
           T == q.num_tokens
           P == q.num_prompt_tokens
           C == q.num_computed_tokens
           x == n - Len(q.streaming_queue)
           y == m - Len(p.streaming_queue)
<1>1. u = [p EXCEPT !.status = "WAITING", !.num_tokens = a, !.num_prompt_tokens = b]
  BY Zenon DEF UpdatedSession
<1>2. u \in AnyRequest
  BY UpdatedSessionFacts
<1>3. /\ MaxChunks \in Nat /\ MaxTokens \in Nat \ {0} /\ plen \in Int /\ MaxModelLen \in Nat
      /\ NumSpec \in Nat
  BY ConfigFacts
<1>4. /\ T \in Int /\ P \in Int /\ C \in Int /\ 1 <= P /\ 1 <= T /\ T <= P + MaxTokens /\ 0 <= C
      /\ C <= MaxModelLen
  BY DEF Roomy, AnyRequest
<1>5. x \in Int /\ y = x + 1
  <2>1. q.streaming_queue \in Seq({"chunk", "end"})
    BY DEF AnyRequest
  <2>2. Len(q.streaming_queue) \in Nat
    BY <2>1
  <2>3. x \in Int
    BY <2>2
  <2>4. y = x + 1
    BY Zenon
  <2>5. QED BY <2>3, <2>4
<1>6. P <= plen + x * k
  BY DEF Fed
<1>7. kept = AtMost(T, C) /\ b = AtLeast(kept, P) + 1
  OBVIOUS
<1> HIDE DEF u, kept, k, plen, T, P, C, x, y, MaxModelLen, MaxTokens, MaxChunks, NumSpec
<1>8. /\ kept \in Int /\ 0 <= kept /\ kept <= P + MaxTokens
      /\ a \in Int /\ 1 <= a /\ a <= b /\ b <= P + MaxTokens + 1 /\ 1 <= b /\ b \in Int
  BY <1>3, <1>4, <1>7 DEF AtMost, AtLeast
<1>9. x * k \in Int /\ y * k = x * k + k
  <2>1. k \in Nat
    BY <1>3 DEF k
  <2>2. QED BY <2>1, <1>5, ChunkTokens
<1>10. b <= plen + y * k
  <2>1. k = MaxTokens + 1
    BY DEF k
  <2>2. QED BY <2>1, <1>3, <1>4, <1>6, <1>8, <1>9
<1> HIDE DEF a, b
<1>11. /\ u.status = "WAITING" /\ u.num_tokens = a /\ u.num_prompt_tokens = b
       /\ u.num_computed_tokens = C /\ u.num_spec = q.num_spec
       /\ u.shared_prefix_boundary = q.shared_prefix_boundary
       /\ u.streaming_queue = p.streaming_queue
  BY <1>1 DEF AnyRequest, C
<1>12. Fed(u, r, m)
  BY <1>10, <1>11 DEF Fed, y, k, plen
<1>13. b < MaxModelLen
  BY <1>2, <1>11, <1>12, FedFits
<1>14. /\ 0 <= q.num_spec /\ q.num_spec <= NumSpec
       /\ 0 <= q.shared_prefix_boundary /\ q.shared_prefix_boundary <= MaxModelLen
  BY DEF Roomy
<1>15. Roomy(u)
  BY <1>3, <1>4, <1>8, <1>11, <1>13, <1>14 DEF Roomy
<1>16. Growing(u)
  BY <1>3, <1>8, <1>11, <1>13 DEF Growing
<1>17. QED BY <1>11, <1>12, <1>15, <1>16 DEF Sized, u

\* A live request whose output is due can be given another token.
LEMMA DueGrows ==
  ASSUME Base, AllFine, AllSized, OutputTurn, NEW r \in Reqs, r = Head(todo).req, Live(r)
  PROVE  /\ request[r].status # "WAITING_FOR_STREAMING_REQ"
         /\ Roomy(request[r]) /\ Growing(request[r]) /\ Fed(request[r], r, chunks[r])
<1>1. Depth = 1 => request[r].status = "RUNNING"
  BY TodoFacts
<1>2. r \in Sessions => Depth = 1
  BY ConfigFacts DEF Base, Typed
<1>3. request[r].status = "WAITING_FOR_STREAMING_REQ" => r \in Sessions
  BY DEF AllFine, Fine, Steady
<1>4. request[r].status # "WAITING_FOR_STREAMING_REQ"
  BY <1>1, <1>2, <1>3
<1>5. SizedNow(r)
  BY DEF AllSized
<1>6. QED BY <1>4, <1>5 DEF SizedNow, Sized

\* The tokens that a request keeps stay within its limits.
LEMMA KeepsFit ==
  ASSUME Base, AllFine, AllSized, OutputTurn, NEW r \in Reqs, r = Head(todo).req, Live(r),
         NEW accepted \in Int, NEW eos \in Int, 0 <= accepted, 0 <= eos,
         eos <= Took(Head(todo), accepted), NEW error
  PROVE  LET p == request[r]
             kept == Keeps(Head(todo), accepted, eos)
         IN  /\ kept \in Nat
             /\ p.num_tokens + kept <= MaxModelLen
             /\ p.num_tokens + kept <= p.num_prompt_tokens + MaxTokens
             /\ ~StopsWith(Head(todo), accepted, eos, error) =>
                  /\ p.num_tokens + kept < MaxModelLen
                  /\ p.num_tokens + kept < p.num_prompt_tokens + MaxTokens
<1> DEFINE e == Head(todo)
           p == request[r]
           t == Took(e, accepted)
           q == Rejected(e, accepted)
           kept == Keeps(e, accepted, eos)
           a == Allowance(q)
           stops == StopsWith(e, accepted, eos, error)
           room == MaxModelLen - p.num_tokens
           left == p.num_prompt_tokens + MaxTokens - p.num_tokens
<1>1. q.num_tokens = p.num_tokens /\ q.num_prompt_tokens = p.num_prompt_tokens
  BY RejectedCounters DEF Base
<1>2. p \in AnyRequest /\ Growing(p)
  BY DueGrows DEF Base, Typed
<1>3. /\ p.num_tokens \in Int /\ p.num_prompt_tokens \in Int
  BY <1>2 DEF AnyRequest
<1>4. MaxModelLen \in Nat /\ MaxTokens \in Nat
  BY ConfigFacts DEF Base, Typed
<1>5. kept \in Nat /\ t \in Nat /\ kept <= t /\ (~stops => kept = t)
  BY KeepsFacts DEF Base
<1>6. a = AtMost(room, left)
  BY <1>1 DEF Allowance
<1>7. kept = AtMost(AtMost(t, AtLeast(a, 1)), IF eos > 0 THEN eos ELSE t)
  BY DEF Keeps
<1>8. ~stops => t = 0 \/ kept < a
  <2>1. ~stops => ~(t > 0 /\ kept >= a)
    BY DEF StopsWith
  <2> HIDE DEF kept, t, stops, a
  <2>2. a \in Int
    <3>1. room \in Int /\ left \in Int
      BY <1>3, <1>4
    <3>2. QED BY <3>1, <1>6 DEF AtMost
  <2>3. QED BY <2>1, <2>2, <1>5
<1>9. p.num_tokens < MaxModelLen /\ p.num_tokens < p.num_prompt_tokens + MaxTokens
  BY <1>2 DEF Growing
<1>10. room \in Int /\ left \in Int /\ room >= 1 /\ left >= 1
  BY <1>3, <1>4, <1>9
<1> HIDE DEF kept, t, q, stops, room, left, a, e
<1>11. a \in Int /\ a >= 1 /\ a <= room /\ a <= left
  BY <1>6, <1>10 DEF AtMost
<1>12. kept <= a
  BY <1>5, <1>7, <1>11 DEF AtMost, AtLeast
<1>13. kept <= room /\ kept <= left /\ (~stops => kept < room /\ kept < left)
  BY <1>5, <1>8, <1>10, <1>11, <1>12
<1>14. QED BY <1>3, <1>4, <1>5, <1>13 DEF kept, e, room, left, stops

\* A request after its output is within its bounds, and can be given another
\* token unless it stops.
LEMMA OutputFits ==
  ASSUME Base, AllFine, AllSized, NEW accepted \in Int, NEW eos \in Int, NEW error,
         NEW drafts \in {0, NumSpec}, Deliver(accepted, eos, error, drafts),
         NEW r \in Reqs, r = Head(todo).req
  PROVE  LET q == Output(Head(todo), accepted, eos, drafts)
         IN  /\ q \in AnyRequest /\ Roomy(q) /\ Fed(q, r, chunks[r])
             /\ ~StopsWith(Head(todo), accepted, eos, error) => Growing(q)
             /\ q.status = request[r].status
<1> DEFINE e == Head(todo)
           p == request[r]
           t == Took(e, accepted)
           q == Output(e, accepted, eos, drafts)
           kept == Keeps(e, accepted, eos)
           stops == StopsWith(e, accepted, eos, error)
<1>1. Delivered(e, r, q, accepted, eos, error, drafts)
  BY DeliverFacts
<1>2. /\ OutputTurn /\ Live(r)
      /\ accepted \in 0 .. (IF e.samples /\ ~e.padded THEN e.drafts ELSE 0)
      /\ eos \in 0 .. t
  BY <1>1 DEF Delivered
<1>3. NumSpec \in Nat /\ MaxModelLen \in Nat /\ MaxTokens \in Nat /\ drafts \in Int
  BY ConfigFacts DEF Base, Typed
<1>4. /\ p \in AnyRequest /\ e.drafts \in Int /\ e.samples \in BOOLEAN /\ e.padded \in BOOLEAN
  BY <1>2, HeadFacts DEF Base, StepEntry
<1>5. 0 <= accepted /\ 0 <= eos /\ eos <= t /\ (e.drafts > 0 => accepted <= e.drafts)
  <2>1. t \in Int
    BY <1>2 DEF Took
  <2> HIDE DEF t
  <2>2. QED BY <2>1, <1>2, <1>4
<1>6. /\ Roomy(p) /\ Growing(p) /\ Fed(p, r, chunks[r])
  BY <1>2, DueGrows
<1>7. /\ kept \in Nat
      /\ p.num_tokens + kept <= MaxModelLen
      /\ p.num_tokens + kept <= p.num_prompt_tokens + MaxTokens
      /\ ~stops => /\ p.num_tokens + kept < MaxModelLen
                   /\ p.num_tokens + kept < p.num_prompt_tokens + MaxTokens
  BY <1>2, <1>5, KeepsFit
<1>8. /\ q.num_tokens = p.num_tokens + kept
      /\ q.num_prompt_tokens = p.num_prompt_tokens
      /\ q.num_spec = IF Depth = 1 THEN (IF e.samples THEN drafts ELSE 0) ELSE p.num_spec
      /\ q.shared_prefix_boundary = p.shared_prefix_boundary
  BY <1>2, <1>3, <1>5, OutputCounters DEF Base
<1>9. /\ q \in AnyRequest /\ t \in Int
      /\ q.status = p.status /\ q.streaming_queue = p.streaming_queue
      /\ q.num_computed_tokens =
           IF e.drafts > 0 /\ t > 0 /\ p.num_stale_output_tokens <= 0 /\ p.num_computed_tokens > 0
           THEN p.num_computed_tokens - (e.drafts - accepted) ELSE p.num_computed_tokens
  BY <1>2, <1>3, OutputFacts DEF Base
<1>10. t > 0 /\ ~(p.num_stale_output_tokens > 0) => q.num_computed_tokens >= p.num_tokens
  BY <1>2, <1>3, OutputAhead
<1> HIDE DEF q, kept, stops, t, e, p
<1>11. /\ p.num_tokens \in Int /\ p.num_prompt_tokens \in Int /\ p.num_computed_tokens \in Int
       /\ p.num_stale_output_tokens \in Int /\ p.num_spec \in Int
  BY <1>4 DEF AnyRequest
<1>12. /\ 1 <= p.num_prompt_tokens /\ p.num_prompt_tokens < MaxModelLen
       /\ 1 <= p.num_tokens
       /\ 0 <= p.num_computed_tokens /\ p.num_computed_tokens <= MaxModelLen
       /\ 0 <= p.num_spec /\ p.num_spec <= NumSpec
       /\ 0 <= p.shared_prefix_boundary /\ p.shared_prefix_boundary <= MaxModelLen
  BY <1>6 DEF Roomy
<1>13. 0 <= q.num_computed_tokens /\ q.num_computed_tokens <= MaxModelLen
  <2>1. CASE e.drafts > 0 /\ t > 0 /\ p.num_stale_output_tokens <= 0 /\ p.num_computed_tokens > 0
    <3>1. q.num_computed_tokens >= p.num_tokens
      BY <2>1, <1>10, <1>11
    <3>2. q.num_computed_tokens = p.num_computed_tokens - (e.drafts - accepted)
      BY <2>1, <1>9
    <3>3. QED BY <2>1, <3>1, <3>2, <1>3, <1>4, <1>5, <1>11, <1>12
  <2>2. CASE ~(e.drafts > 0 /\ t > 0 /\ p.num_stale_output_tokens <= 0 /\ p.num_computed_tokens > 0)
    BY <2>2, <1>9, <1>12
  <2>3. QED BY <2>1, <2>2
<1>14. 0 <= q.num_spec /\ q.num_spec <= NumSpec
  BY <1>3, <1>8, <1>11, <1>12
<1>15. 1 <= q.num_tokens
  BY <1>7, <1>8, <1>11, <1>12
<1>16. Roomy(q)
  BY <1>7, <1>8, <1>12, <1>13, <1>14, <1>15 DEF Roomy
<1>17. ~stops => Growing(q)
  BY <1>7, <1>8 DEF Growing
<1>18. Fed(q, r, chunks[r])
  BY <1>6, <1>8, <1>9, Zenon DEF Fed
<1>19. QED BY <1>9, <1>16, <1>17, <1>18 DEF q, stops, e, p

\* What is left in the queue of a session that takes up its next chunk.
LEMMA PoppedFits ==
  ASSUME NEW q \in AnyRequest, q.streaming_queue # <<>>, Head(q.streaming_queue) = "chunk"
  PROVE  /\ Popped(q) \in AnyRequest
         /\ Popped(q).num_tokens = q.num_tokens /\ Popped(q).num_prompt_tokens = q.num_prompt_tokens
         /\ Popped(q).num_computed_tokens = q.num_computed_tokens
         /\ Popped(q).num_spec = q.num_spec
         /\ Popped(q).shared_prefix_boundary = q.shared_prefix_boundary
         /\ Len(Popped(q).streaming_queue) = Len(q.streaming_queue) - 1
         /\ q.streaming_queue[Len(q.streaming_queue)] = "end" =>
              /\ Popped(q).streaming_queue # <<>>
              /\ Popped(q).streaming_queue[Len(Popped(q).streaming_queue)] = "end"
<1> DEFINE s == q.streaming_queue
           t == Tail(s)
           p == Popped(q)
<1>1. p = [q EXCEPT !.streaming_queue = t]
  BY Zenon DEF Popped
<1>2. s \in Seq({"chunk", "end"}) /\ s # <<>> /\ Head(s) = "chunk"
  BY DEF AnyRequest
<1>3. p \in AnyRequest
  BY PoppedFacts
<1> HIDE DEF s, p
<1>4. Len(t) = Len(s) - 1 /\ t \in Seq({"chunk", "end"})
  BY <1>2
<1>5. s[Len(s)] = "end" => t # <<>> /\ t[Len(t)] = "end"
  <2>1. ASSUME s[Len(s)] = "end" PROVE Len(s) # 1
    BY <2>1, <1>2
  <2>2. ASSUME Len(s) # 1 PROVE t # <<>> /\ t[Len(t)] = s[Len(s)]
    <3>1. Len(t) >= 1 /\ Len(t) \in Nat
      BY <2>2, <1>2, <1>4
    <3>2. t[Len(t)] = s[Len(t) + 1]
      BY <3>1, <1>2
    <3>3. Len(t) + 1 = Len(s)
      BY <1>2, <1>4
    <3>4. QED BY <3>1, <3>2, <3>3
  <2>3. QED BY <2>1, <2>2
<1> HIDE DEF t
<1>6. /\ p.streaming_queue = t
      /\ p.num_tokens = q.num_tokens /\ p.num_prompt_tokens = q.num_prompt_tokens
      /\ p.num_computed_tokens = q.num_computed_tokens /\ p.num_spec = q.num_spec
      /\ p.shared_prefix_boundary = q.shared_prefix_boundary
  BY <1>1 DEF AnyRequest
<1>7. QED BY <1>3, <1>4, <1>5, <1>6, Zenon DEF p, s

\* The two ways for a session to go on, with the chunk that is at the head of its
\* queue, or with none.
LEMMA StopTakes ==
  ASSUME NEW r, NEW q, NEW error, Stop(r, q, error)
  PROVE  \/ request' = [request EXCEPT ![r] = Gone(r)]
         \/ /\ r \in Sessions /\ q.streaming_queue # <<>> /\ Head(q.streaming_queue) = "chunk"
            /\ request' = [request EXCEPT ![r] = UpdatedSession(Popped(q))]
         \/ /\ r \in Sessions
            /\ request' = [request EXCEPT ![r] = [q EXCEPT !.status = "WAITING_FOR_STREAMING_REQ"]]
<1>1. "none" # "chunk"
  OBVIOUS
<1>2. QED BY <1>1, Zenon DEF Stop, Popped

\* A step that changes one request, or the chunks it was sent.
LEMMA SizedChange ==
  ASSUME Base, AllSized, UNCHANGED config, NEW r \in Reqs, NEW q, NEW n \in Int,
         request' = [request EXCEPT ![r] = q], chunks' = [chunks EXCEPT ![r] = n],
         Sized(q), Fed(q, r, n)
  PROVE  AllSized'
<1>1. request \in [Reqs -> AnyRequest] /\ chunks \in [Reqs -> Int]
  BY DEF Base, Typed, AllSized
<1>2. chunks' \in [Reqs -> Int]
  BY <1>1
<1>3. ASSUME NEW s \in Reqs PROVE SizedNow(s)'
  <2>1. CASE s = r
    <3>1. request'[s] = q /\ chunks'[s] = n
      BY <2>1, <1>1
    <3>2. QED BY <3>1, <2>1, SizedPrimed
  <2>2. CASE s # r
    <3>1. request'[s] = request[s] /\ chunks'[s] = chunks[s]
      BY <2>2, <1>1
    <3>2. Sized(request[s]) /\ Fed(request[s], s, chunks[s])
      BY DEF AllSized, SizedNow
    <3>3. QED BY <3>1, <3>2, SizedPrimed
  <2>3. QED BY <2>1, <2>2
<1>4. QED BY <1>2, <1>3 DEF AllSized

\* The output of a request leaves it within its bounds.
LEMMA SizedDeliver ==
  ASSUME SessionsFit, Base, AllFine, AllSized, NEW accepted \in Int, NEW eos \in Int, NEW error,
         NEW drafts \in {0, NumSpec}, Deliver(accepted, eos, error, drafts)
  PROVE  AllSized'
<1>0. PICK r \in Reqs : r = Head(todo).req
  BY HeadFacts DEF Base, Deliver
<1> DEFINE e == Head(todo)
           p == request[r]
           q == Output(e, accepted, eos, drafts)
           n == chunks[r]
           stops == StopsWith(e, accepted, eos, error)
<1>1. Delivered(e, r, q, accepted, eos, error, drafts)
  BY <1>0, DeliverFacts
<1>2. OutputTurn /\ Live(r) /\ UNCHANGED <<config, chunks>>
  BY <1>1 DEF Delivered, env
<1>3. /\ q \in AnyRequest /\ Roomy(q) /\ Fed(q, r, n)
      /\ ~stops => Growing(q)
      /\ q.status = p.status
  BY <1>0, OutputFits
<1>4. q.status # "FINISHED"
  BY <1>2, <1>3 DEF Live
<1>5. /\ chunks \in [Reqs -> Int] /\ config \in Configs /\ n \in Int
      /\ chunks' = [chunks EXCEPT ![r] = n]
  BY <1>2 DEF AllSized, Base, Typed
<1>6. ~stops => request' = [request EXCEPT ![r] = q]
  BY <1>1 DEF Delivered
<1>7. stops => Stop(r, q, error)
  BY <1>1 DEF Delivered
<1> HIDE DEF q, stops, n
<1>8. CASE ~stops
  <2>1. Sized(q)
    BY <1>3, <1>4, <1>8 DEF Sized
  <2>2. QED BY <2>1, <1>2, <1>3, <1>5, <1>6, <1>8, SizedChange
<1>9. CASE request' = [request EXCEPT ![r] = Gone(r)]
  <2>1. Sized(Gone(r)) /\ Fed(Gone(r), r, n)
    BY <1>5, SizedFresh
  <2>2. QED BY <2>1, <1>2, <1>5, <1>9, SizedChange
<1>10. CASE /\ r \in Sessions /\ q.streaming_queue # <<>> /\ Head(q.streaming_queue) = "chunk"
            /\ request' = [request EXCEPT ![r] = UpdatedSession(Popped(q))]
  <2> DEFINE x == Popped(q)
             s == q.streaming_queue
  <2>1. /\ x \in AnyRequest
        /\ x.num_tokens = q.num_tokens /\ x.num_prompt_tokens = q.num_prompt_tokens
        /\ x.num_computed_tokens = q.num_computed_tokens
        /\ x.num_spec = q.num_spec
        /\ x.shared_prefix_boundary = q.shared_prefix_boundary
        /\ Len(x.streaming_queue) = Len(s) - 1
        /\ s[Len(s)] = "end" => /\ x.streaming_queue # <<>>
                                /\ x.streaming_queue[Len(x.streaming_queue)] = "end"
    BY <1>3, <1>10, PoppedFits
  <2>2. Len(s) \in Nat
    <3>1. s \in Seq({"chunk", "end"})
      BY <1>3 DEF AnyRequest
    <3> HIDE DEF s
    <3>2. QED BY <3>1
  <2>3. 0 <= n /\ n <= MaxChunks + 1 /\ (n = MaxChunks + 1 => s[Len(s)] = "end")
    BY <1>3, <1>4, <1>10 DEF Fed
  <2> HIDE DEF x
  <2>4. n - Len(x.streaming_queue) = n - Len(s) + 1
    <3> HIDE DEF s
    <3>1. QED BY <2>1, <2>2, <1>5
  <2>5. n = MaxChunks + 1 => /\ x.streaming_queue # <<>>
                             /\ x.streaming_queue[Len(x.streaming_queue)] = "end"
    BY <2>1, <2>3
  <2>6. Sized(UpdatedSession(x)) /\ Fed(UpdatedSession(x), r, n)
    BY <2>1, <2>3, <2>4, <2>5, <1>3, <1>4, <1>5, <1>10, UpdatedFits
  <2>7. QED BY <2>6, <1>2, <1>5, <1>10, SizedChange DEF x
<1>11. CASE request' = [request EXCEPT ![r] = [q EXCEPT !.status = "WAITING_FOR_STREAMING_REQ"]]
  <2> DEFINE x == [q EXCEPT !.status = "WAITING_FOR_STREAMING_REQ"]
  <2>1. /\ x.status = "WAITING_FOR_STREAMING_REQ" /\ x.num_tokens = q.num_tokens
        /\ x.num_prompt_tokens = q.num_prompt_tokens
        /\ x.num_computed_tokens = q.num_computed_tokens
        /\ x.num_spec = q.num_spec /\ x.streaming_queue = q.streaming_queue
        /\ x.shared_prefix_boundary = q.shared_prefix_boundary
    BY <1>3, StatusFields
  <2> HIDE DEF x
  <2>2. Sized(x)
    BY <2>1, <1>3 DEF Sized, Roomy
  <2>3. Fed(x, r, n)
    BY <2>1, <1>3, <1>4, Zenon DEF Fed
  <2>4. QED BY <2>2, <2>3, <1>2, <1>5, <1>11, SizedChange DEF x
<1>12. QED BY <1>7, <1>8, <1>9, <1>10, <1>11, StopTakes

\* Output that is dropped.
LEMMA SizedDrops ==
  ASSUME Base, AllSized, DropOutput PROVE AllSized'
<1>1. OutputTurn /\ UNCHANGED <<config, chunks>>
  BY DEF DropOutput, env
<1>2. PICK r \in Reqs : r = Head(todo).req
  BY <1>1, HeadFacts DEF Base
<1> DEFINE p == request[r]
           n == Head(todo).n
           q == Returned(p, n)
<1>3. p \in AnyRequest /\ n \in Int /\ Sized(p)
  BY <1>1, <1>2, HeadFacts DEF Base, Typed, AllSized, SizedNow
<1>4. request' = IF Live(r) THEN [request EXCEPT ![r] = q] ELSE request
  BY <1>2, Zenon DEF DropOutput
<1>5. /\ q.status = p.status /\ q.num_tokens = p.num_tokens
      /\ q.num_prompt_tokens = p.num_prompt_tokens /\ q.num_computed_tokens = p.num_computed_tokens
      /\ q.num_spec = p.num_spec /\ q.shared_prefix_boundary = p.shared_prefix_boundary
      /\ q.streaming_queue = p.streaming_queue
  <2> DEFINE fl == p.num_in_flight_tokens - n
             st == IF p.num_stale_output_tokens > 0
                   THEN p.num_stale_output_tokens - n ELSE p.num_stale_output_tokens
  <2>1. q = [p EXCEPT !.num_in_flight_tokens = fl, !.num_stale_output_tokens = st]
    BY <1>3, ReturnedTyped
  <2> HIDE DEF q, p, fl, st
  <2>2. QED BY <2>1, <1>3 DEF AnyRequest
<1> HIDE DEF q
<1>6. CASE Live(r)
  <2>1. p.status # "FINISHED"
    BY <1>6 DEF Live
  <2>2. Resized(q, p)
    BY <2>1, <1>3, <1>5 DEF Resized, Sized, Roomy
  <2>3. QED BY <2>2, <1>1, <1>4, <1>6, SizedOne
<1>7. CASE ~Live(r)
  BY <1>7, <1>1, <1>4, SizedSame
<1>8. QED BY <1>6, <1>7

\* Requests that are finished.
LEMMA SizedFinishes ==
  ASSUME Base, AllSized, UNCHANGED <<config, chunks>>, NEW S,
         request' = [x \in Reqs |-> IF x \in S THEN Gone(x) ELSE request[x]]
  PROVE  AllSized'
BY SizedResized

\* Every running request is preempted.
LEMMA SizedResets ==
  ASSUME Base, AllSized, ResetPrefixCache PROVE AllSized'
<1>1. /\ request' = [r \in Reqs |-> IF r \in ToSet(running) THEN Preempted(request[r], TRUE)
                                ELSE request[r]]
      /\ UNCHANGED <<config, chunks>> /\ pc = "idle"
  BY DEF ResetPrefixCache, BetweenSteps, env
<1>2. ToSet(running) = WithStatus("RUNNING")
  BY <1>1, IdleFacts
<1>3. ASSUME NEW s \in Reqs
      PROVE  request'[s] = request[s] \/ Resized(request'[s], request[s])
  <2>1. CASE s \in ToSet(running)
    <3>1. request'[s] = Preempted(request[s], TRUE) /\ request[s].status = "RUNNING"
      BY <1>1, <1>2, <2>1 DEF WithStatus
    <3>2. request[s] \in AnyRequest /\ Sized(request[s]) /\ config \in Configs
      BY DEF Base, Typed, AllSized, SizedNow
    <3>3. QED BY <3>1, <3>2, EvictedFits
  <2>2. CASE s \notin ToSet(running)
    BY <1>1, <2>2
  <2>3. QED BY <2>1, <2>2
<1>4. QED BY <1>1, <1>3, SizedResized

\* A request is added.
LEMMA SizedAdds ==
  ASSUME Base, AllSized, NEW r \in Reqs, AddRequest(r) PROVE AllSized'
<1>1. PICK status \in {"WAITING", "WAITING_FOR_STRUCTURED_OUTPUT_GRAMMAR"} :
        request' = [request EXCEPT ![r] = [request[r] EXCEPT !.status = status]]
  <2>1. CASE r \in Structured
    BY <2>1, Zenon DEF AddRequest
  <2>2. CASE r \notin Structured
    BY <2>2, Zenon DEF AddRequest
  <2>3. QED BY <2>1, <2>2
<1>2. UNCHANGED <<config, chunks>> /\ request[r].status = "NEW"
  BY DEF AddRequest, env
<1> DEFINE p == request[r]
           q == [p EXCEPT !.status = status]
<1>3. p \in AnyRequest /\ Sized(p)
  BY DEF Base, Typed, AllSized, SizedNow
<1>4. /\ q.status = status /\ q.num_tokens = p.num_tokens
      /\ q.num_prompt_tokens = p.num_prompt_tokens /\ q.num_computed_tokens = p.num_computed_tokens
      /\ q.num_spec = p.num_spec /\ q.shared_prefix_boundary = p.shared_prefix_boundary
      /\ q.streaming_queue = p.streaming_queue
  <2> HIDE DEF p
  <2>1. QED BY <1>3, StatusFields
<1> HIDE DEF q
<1>5. Resized(q, p)
  BY <1>2, <1>3, <1>4 DEF Resized, Sized, Roomy
<1>6. request' = [request EXCEPT ![r] = q]
  BY <1>1 DEF q
<1>7. QED BY <1>2, <1>5, <1>6, SizedOne

\* What a session's update changes.
LEMMA UpdateCases ==
  ASSUME NEW r, NEW update \in {"chunk", "end"}, AddUpdate(r, update)
  PROVE  /\ r \in Sessions /\ Live(r) /\ chunks[r] <= MaxChunks
         /\ UNCHANGED config
         /\ update = "chunk" => chunks[r] < MaxChunks
         /\ chunks' = [chunks EXCEPT ![r] = IF update = "end" THEN MaxChunks + 1 ELSE chunks[r] + 1]
         /\ \/ /\ request[r].status # "WAITING_FOR_STREAMING_REQ"
               /\ request' = [request EXCEPT ![r] = [request[r] EXCEPT
                                !.streaming_queue = Append(@, update)]]
            \/ /\ update = "chunk"
               /\ request' = [request EXCEPT ![r] = UpdatedSession(request[r])]
            \/ /\ update = "end"
               /\ request' = [x \in Reqs |-> IF x \in {r} THEN Gone(x) ELSE request[x]]
  BY Zenon DEF AddUpdate, FinishRequests

\* What a session's queue has once its next chunk, or its end, is put in it.
LEMMA AppendedFits ==
  ASSUME NEW q \in AnyRequest, NEW update \in {"chunk", "end"}, NEW p,
         p = [q EXCEPT !.streaming_queue = Append(@, update)]
  PROVE  /\ p.status = q.status /\ p.num_tokens = q.num_tokens
         /\ p.num_prompt_tokens = q.num_prompt_tokens
         /\ p.num_computed_tokens = q.num_computed_tokens
         /\ p.num_spec = q.num_spec
         /\ p.shared_prefix_boundary = q.shared_prefix_boundary
         /\ p.num_in_flight_tokens = q.num_in_flight_tokens
         /\ p.num_stale_output_tokens = q.num_stale_output_tokens
         /\ Len(q.streaming_queue) \in Nat
         /\ Len(p.streaming_queue) = Len(q.streaming_queue) + 1
         /\ p.streaming_queue # <<>>
         /\ p.streaming_queue[Len(p.streaming_queue)] = update
<1> DEFINE s == q.streaming_queue
           t == Append(s, update)
<1>1. s \in Seq({"chunk", "end"})
  BY DEF AnyRequest
<1>2. p = [q EXCEPT !.streaming_queue = t]
  OBVIOUS
<1> HIDE DEF s
<1>3. /\ Len(s) \in Nat /\ Len(t) = Len(s) + 1 /\ t # <<>> /\ t[Len(t)] = update
  BY <1>1
<1> HIDE DEF t
<1>4. /\ p.streaming_queue = t /\ p.status = q.status /\ p.num_tokens = q.num_tokens
      /\ p.num_prompt_tokens = q.num_prompt_tokens
      /\ p.num_computed_tokens = q.num_computed_tokens
      /\ p.num_spec = q.num_spec
      /\ p.shared_prefix_boundary = q.shared_prefix_boundary
      /\ p.num_in_flight_tokens = q.num_in_flight_tokens
      /\ p.num_stale_output_tokens = q.num_stale_output_tokens
  BY <1>2 DEF AnyRequest
<1>5. QED BY <1>3, <1>4 DEF s

\* A session is given a chunk, or its end.
LEMMA SizedUpdates ==
  ASSUME SessionsFit, Base, AllSized, NEW r \in Reqs, NEW update \in {"chunk", "end"},
         AddUpdate(r, update)
  PROVE  AllSized'
<1> DEFINE p == request[r]
           n == chunks[r]
           m == IF update = "end" THEN MaxChunks + 1 ELSE n + 1
<1>1. /\ r \in Sessions /\ Live(r) /\ n <= MaxChunks /\ UNCHANGED config
      /\ update = "chunk" => n < MaxChunks
      /\ chunks' = [chunks EXCEPT ![r] = m]
      /\ \/ /\ p.status # "WAITING_FOR_STREAMING_REQ"
            /\ request' = [request EXCEPT ![r] = [p EXCEPT !.streaming_queue = Append(@, update)]]
         \/ /\ update = "chunk"
            /\ request' = [request EXCEPT ![r] = UpdatedSession(p)]
         \/ /\ update = "end"
            /\ request' = [x \in Reqs |-> IF x \in {r} THEN Gone(x) ELSE request[x]]
  BY UpdateCases
<1>2. /\ request \in [Reqs -> AnyRequest] /\ config \in Configs /\ p \in AnyRequest
      /\ n \in Int /\ Sized(p) /\ Fed(p, r, n)
  BY DEF Base, Typed, AllSized, SizedNow
<1>3. MaxChunks \in Nat /\ MaxTokens \in Nat
  BY <1>2, ConfigFacts
<1>4. p.status # "FINISHED"
  BY <1>1 DEF Live
<1>5. 0 <= n
  BY <1>1, <1>2, <1>4 DEF Fed
<1>6. /\ m \in Int /\ 0 <= m /\ m <= MaxChunks + 1 /\ m >= n + 1
      /\ update = "chunk" => m = n + 1 /\ m # MaxChunks + 1
  <2> HIDE DEF n, MaxChunks
  <2>1. QED BY <1>1, <1>2, <1>3, <1>5
<1> HIDE DEF n, m
<1>7. CASE /\ p.status # "WAITING_FOR_STREAMING_REQ"
           /\ request' = [request EXCEPT ![r] = [p EXCEPT !.streaming_queue = Append(@, update)]]
  <2> DEFINE q == [p EXCEPT !.streaming_queue = Append(@, update)]
             x == n - Len(p.streaming_queue)
             y == m - Len(q.streaming_queue)
  <2>1. /\ q.status = p.status /\ q.num_tokens = p.num_tokens
        /\ q.num_prompt_tokens = p.num_prompt_tokens
        /\ q.num_computed_tokens = p.num_computed_tokens
        /\ q.num_spec = p.num_spec
        /\ q.shared_prefix_boundary = p.shared_prefix_boundary
        /\ q.num_in_flight_tokens = p.num_in_flight_tokens
        /\ q.num_stale_output_tokens = p.num_stale_output_tokens
        /\ Len(p.streaming_queue) \in Nat
        /\ Len(q.streaming_queue) = Len(p.streaming_queue) + 1
        /\ q.streaming_queue # <<>>
        /\ q.streaming_queue[Len(q.streaming_queue)] = update
    <3> HIDE DEF p
    <3>1. QED BY <1>2, AppendedFits
  <2>2. request' = [request EXCEPT ![r] = q]
    BY <1>7
  <2> HIDE DEF q, p
  <2>3. Sized(q)
    BY <2>1, <1>2 DEF Sized, Roomy, Growing
  <2>4. x \in Int /\ y \in Int /\ x <= y
    BY <2>1, <1>2, <1>6 DEF n
  <2>5. p.num_prompt_tokens <= PromptLen[r] + x * (MaxTokens + 1)
    BY <1>1, <1>2, <1>4 DEF Fed
  <2> HIDE DEF x, y
  <2>6. q.num_prompt_tokens <= PromptLen[r] + y * (MaxTokens + 1)
    <3>1. MaxTokens + 1 \in Nat
      BY <1>3
    <3>2. /\ x * (MaxTokens + 1) \in Int /\ y * (MaxTokens + 1) \in Int
          /\ x * (MaxTokens + 1) <= y * (MaxTokens + 1)
      BY <3>1, <2>4, ChunkTokens
    <3>3. p.num_prompt_tokens \in Int /\ PromptLen[r] \in Int
      BY <1>2, ConfigFacts DEF AnyRequest
    <3>4. QED BY <3>2, <3>3, <2>1, <2>5
  <2>7. m = MaxChunks + 1 => q.streaming_queue[Len(q.streaming_queue)] = "end"
    BY <2>1, <1>6
  <2>8. Fed(q, r, m)
    BY <2>1, <2>6, <2>7, <1>6, Zenon DEF Fed, y
  <2>9. QED BY <2>2, <2>3, <2>8, <1>1, <1>6, SizedChange
<1>8. CASE update = "chunk" /\ request' = [request EXCEPT ![r] = UpdatedSession(p)]
  <2>1. m - Len(p.streaming_queue) = n - Len(p.streaming_queue) + 1
    <3>1. p.streaming_queue \in Seq({"chunk", "end"})
      BY <1>2 DEF AnyRequest
    <3>2. Len(p.streaming_queue) \in Nat
      BY <3>1
    <3> HIDE DEF p
    <3>3. QED BY <3>2, <1>2, <1>6, <1>8 DEF n
  <2>2. Sized(UpdatedSession(p)) /\ Fed(UpdatedSession(p), r, m)
    <3> HIDE DEF p
    <3>1. Roomy(p)
      BY <1>2 DEF Sized
    <3>2. n \in Int
      BY <1>2 DEF n
    <3>3. QED BY <3>1, <3>2, <2>1, <1>1, <1>2, <1>4, <1>6, <1>8, UpdatedFits DEF n
  <2>3. QED BY <2>2, <1>1, <1>6, <1>8, SizedChange
<1>9. CASE request' = [x \in Reqs |-> IF x \in {r} THEN Gone(x) ELSE request[x]]
  <2>1. request' = [request EXCEPT ![r] = Gone(r)]
    BY <1>2, <1>9
  <2>2. Sized(Gone(r)) /\ Fed(Gone(r), r, m)
    BY <1>2, SizedFresh
  <2>3. QED BY <2>1, <2>2, <1>1, <1>6, SizedChange
<1>10. QED BY <1>1, <1>7, <1>8, <1>9

\* Every step keeps every request within its bounds.
LEMMA SizedNext ==
  ASSUME SessionsFit, Base, AllFine, AllSized, BatchInLength, [Next]_vars PROVE AllSized'
<1>1. CASE Schedule
  BY <1>1, SizedSchedule
<1>2. CASE UpdateFromOutput
  <2>1. ASSUME NEW accepted \in 0 .. NumSpec, NEW eos \in 0 .. NumSpec + 1, NEW error \in BOOLEAN,
               NEW drafts \in {0, NumSpec}, Deliver(accepted, eos, error, drafts)
        PROVE  AllSized'
    <3>1. NumSpec \in Nat
      BY ConfigFacts DEF Base, Typed
    <3>2. accepted \in Int /\ eos \in Int
      BY <3>1
    <3>3. QED BY <3>2, <2>1, SizedDeliver
  <2>2. CASE EndOutput
    <3>1. request' = [x \in Reqs |-> IF x \in grammar_compile_error_reqs \cap LiveReqs
                                     THEN Gone(x) ELSE request[x]]
      BY <2>2 DEF EndOutput, FinishRequests
    <3>2. QED BY <3>1, <2>2, SizedFinishes DEF EndOutput, env
  <2>3. CASE BeginOutput
    BY <2>3, SizedSame DEF BeginOutput, env
  <2>4. QED BY <2>1, <2>2, <2>3, <1>2, SizedDrops DEF UpdateFromOutput
<1>3. CASE GrammarStep
  BY <1>3, SizedSame DEF GrammarStep, GrammarDone
<1>4. CASE Handlers
  <2>1. ASSUME NEW r \in Reqs, Abort(r) PROVE AllSized'
    BY <2>1, SizedFinishes DEF Abort, FinishRequests, env
  <2>2. ASSUME NEW p, set_pause_state(p) PROVE AllSized'
    BY <2>2, SizedSame DEF set_pause_state, env
  <2>3. QED BY <2>1, <2>2, <1>4, SizedAdds, SizedUpdates, SizedResets DEF Handlers
<1>5. CASE UNCHANGED vars
  BY <1>5, SizedSame DEF vars, env
<1>6. QED BY <1>1, <1>2, <1>3, <1>4, <1>5 DEF Next

\* A running request is given tokens within the model's length.
LEMMA TurnLength ==
  ASSUME Base, WantInLength, RunningTurn, NumNewTokens(request[running[loc.idx]]) > 0
  PROVE  request[running[loc.idx]].num_computed_tokens
           + NumNewTokens(request[running[loc.idx]]) <= MaxModelLen
<1> DEFINE q == request[running[loc.idx]]
           n == NumNewTokens(q)
           C == q.num_computed_tokens
<1>1. q \in AnyRequest /\ config \in Configs /\ pc = "running" /\ loc.want \in Int
      /\ loc.token_budget \in Int
  BY TurnFacts DEF RunningTurn, Base, Typed, Locals
<1>2. CASE loc.want > 0
  <2>1. n = loc.want
    BY <1>2 DEF NumNewTokens
  <2>2. QED BY <2>1, <1>1, <1>2 DEF WantInLength
<1>3. CASE loc.want <= 0
  <2> DEFINE x == q.num_tokens + q.num_spec + q.num_output_placeholders - q.num_computed_tokens
             y == MaxModelLen - q.num_computed_tokens - 1
             m == Min({x, loc.token_budget, y})
             k == Split(q, q.num_computed_tokens, m)
  <2>1. n = AtLeast(k, 0)
    BY <1>1, <1>3 DEF NumNewTokens
  <2>2. x \in Int /\ y \in Int /\ C \in Int /\ MaxModelLen \in Int
    <3>1. MaxModelLen \in Int
      BY <1>1, ConfigFacts
    <3> HIDE DEF q
    <3>2. QED BY <3>1, <1>1, SMTT(30) DEF AnyRequest
  <2>3. y = MaxModelLen - C - 1
    OBVIOUS
  <2> HIDE DEF x, y, q
  <2>4. m \in Int /\ m <= y
    BY <2>2, <1>1, MinOfThree
  <2> HIDE DEF m
  <2>5. k \in Int /\ k <= AtLeast(m, 0)
    BY <2>2, <2>4, <1>1, SplitFacts
  <2> HIDE DEF k, MaxModelLen, C
  <2>6. C + n <= MaxModelLen
    <3>1. n > 0
      BY DEF q
    <3> HIDE DEF n
    <3>2. QED BY <3>1, <2>1, <2>2, <2>3, <2>4, <2>5 DEF AtLeast
  <2>7. QED BY <2>6 DEF q, C
<1>4. QED BY <1>1, <1>2, <1>3

\* A waiting request is admitted with tokens within the model's length.
LEMMA AdmitLength ==
  ASSUME Base, AllFine, AllSized, WaitingTurn, NEW found \in Lookups(Promoted(Candidate)),
         NEW r, CanAdmit(r, found.q, found.computed)
  PROVE  found.computed + AdmitTokens(found.q, found.computed) <= MaxModelLen
<1> DEFINE p == request[Candidate]
           f == found.q
           c == found.computed
           n == AdmitTokens(f, c)
           T == f.num_tokens
           pad == Padded(T - c)
           a == AtMost(T - c, loc.token_budget)
           m == IF pad THEN 1 + NumSpec ELSE a
<1>1. Candidate \in Reqs /\ Resized(f, p)
  BY CandidateFits
<1>2. f \in AnyRequest /\ c \in Int
  BY CandidateLookup DEF Base
<1>3. p \in AnyRequest /\ Sized(p) /\ config \in Configs /\ loc.token_budget \in Int
  BY <1>1 DEF Base, Typed, AllSized, SizedNow, Locals
<1>4. T \in Int /\ T <= MaxModelLen
  BY <1>1, <1>2, <1>3 DEF Resized, Sized, Roomy, AnyRequest
<1>5. MaxModelLen \in Int /\ NumSpec \in Nat
  BY <1>3, ConfigFacts
<1>6. n = Split(f, c, m)
  BY DEF AdmitTokens
<1>7. n > 0 /\ (pad => c + 1 + NumSpec <= MaxModelLen)
  BY DEF CanAdmit
<1> HIDE DEF n, f, c, T, pad, MaxModelLen
<1>8. m \in Int /\ c + m <= MaxModelLen
  BY <1>2, <1>3, <1>4, <1>5, <1>7 DEF AtMost
<1> HIDE DEF m
<1>9. n \in Int /\ n <= AtLeast(m, 0)
  BY <1>2, <1>3, <1>6, <1>8, SplitFacts
<1>10. c + n <= MaxModelLen
  BY <1>2, <1>5, <1>7, <1>8, <1>9 DEF AtLeast
<1>11. QED BY <1>10 DEF c, n, f

\* An entry whose request has the same counters.
LEMMA LengthKept ==
  ASSUME UNCHANGED config, BatchInLength, NEW i, NEW j \in DOMAIN loc.batch,
         loc'.batch[i] = loc.batch[j],
         request'[loc.batch[j].req] = request[loc.batch[j].req]
  PROVE  InLength(loc.batch[i])'
BY DEF BatchInLength, InLength, MaxModelLen

\* A batch that an entry is added to.
LEMMA LengthGrow ==
  ASSUME UNCHANGED config, BatchInLength, Base, NEW e, e \in BatchEntry, NEW q,
         loc'.batch = Append(loc.batch, e), request' = [request EXCEPT ![e.req] = q],
         \A j \in DOMAIN loc.batch : loc.batch[j].req # e.req,
         q.num_computed_tokens + e.n <= MaxModelLen
  PROVE  BatchInLength'
<1>1. /\ loc.batch \in Seq(BatchEntry) /\ request \in [Reqs -> AnyRequest] /\ e.req \in Reqs
      /\ \A j \in DOMAIN loc.batch : loc.batch[j].req \in Reqs
  <2>1. loc.batch \in Seq(BatchEntry) /\ request \in [Reqs -> AnyRequest]
    BY DEF Base, Typed, Locals
  <2>2. \A j \in DOMAIN loc.batch : loc.batch[j] \in BatchEntry
    BY <2>1
  <2>3. QED BY <2>1, <2>2 DEF BatchEntry
<1>2. /\ DOMAIN loc'.batch = 1 .. Len(loc.batch) + 1 /\ loc'.batch[Len(loc.batch) + 1] = e
      /\ DOMAIN loc.batch = 1 .. Len(loc.batch) /\ Len(loc.batch) \in Nat
      /\ \A i \in 1 .. Len(loc.batch) : loc'.batch[i] = loc.batch[i]
  BY <1>1
<1>3. ASSUME NEW i \in DOMAIN loc'.batch PROVE InLength(loc.batch[i])'
  <2>1. CASE i = Len(loc.batch) + 1
    <3>1. loc'.batch[i] = e /\ request'[e.req] = q
      BY <2>1, <1>1, <1>2
    <3>2. QED BY <3>1 DEF InLength, MaxModelLen
  <2>2. CASE i \in 1 .. Len(loc.batch)
    <3>1. i \in DOMAIN loc.batch /\ loc'.batch[i] = loc.batch[i]
      BY <2>2, <1>2
    <3>2. request'[loc.batch[i].req] = request[loc.batch[i].req]
      BY <3>1, <1>1
    <3>3. QED BY <3>1, <3>2, LengthKept
  <2>3. QED BY <2>1, <2>2, <1>2
<1>4. QED BY <1>3 DEF BatchInLength

\* Steps of schedule() that leave the batch alone, and its requests.
LEMMA LengthSame ==
  ASSUME BatchInLength, UNCHANGED config, loc'.batch = loc.batch,
         pc' # "running" \/ ~(loc'.want > 0),
         \A i \in DOMAIN loc.batch : request'[loc.batch[i].req] = request[loc.batch[i].req]
  PROVE  BatchInLength' /\ WantInLength'
<1>1. ASSUME NEW i \in DOMAIN loc'.batch PROVE InLength(loc.batch[i])'
  BY LengthKept
<1>2. QED BY <1>1 DEF BatchInLength, WantInLength

\* Each turn of schedule() gives tokens within the model's length.
LEMMA LengthSchedule ==
  ASSUME Base, ChunksKept, AllFine, AllSized, BatchInLength, WantInLength, Schedule
  PROVE  BatchInLength' /\ WantInLength'
<1>1. /\ loc \in Locals /\ loc.batch \in Seq(BatchEntry) /\ loc.want \in Int
      /\ \A i \in DOMAIN loc.batch : request[loc.batch[i].req].status = "RUNNING"
      /\ request \in [Reqs -> AnyRequest] /\ running \in Seq(Reqs) /\ loc.idx \in Int
  BY DEF Base, Typed, Locals, BatchSound
<1>2. UNCHANGED config
  BY ConfigSame DEF Next
<1>3. \A i \in DOMAIN loc.batch : loc.batch[i] \in BatchEntry /\ loc.batch[i].req \in Reqs
  <2>1. \A i \in DOMAIN loc.batch : loc.batch[i] \in BatchEntry
    BY <1>1
  <2>2. QED BY <2>1 DEF BatchEntry
<1>5. CASE BeginSchedule
  <2>1. loc'.batch = <<>> /\ loc'.want = 0
    BY <1>5 DEF BeginSchedule, Idle
  <2>2. QED BY <2>1 DEF BatchInLength, WantInLength
<1>6. CASE SkipRunning
  <2>1. /\ loc' = [loc EXCEPT !.idx = @ + 1] /\ UNCHANGED <<request, running>> /\ RunningTurn
        /\ LengthIsSure(request[running[loc.idx]]) \/ NumNewTokens(request[running[loc.idx]]) = 0
    BY <1>6 DEF SkipRunning, queues
  <2>2. ~(loc.want > 0)
    <3>1. loc.want > 0 => NumNewTokens(request[running[loc.idx]]) = loc.want
                          /\ ~LengthIsSure(request[running[loc.idx]])
      BY <2>1 DEF NumNewTokens, ChunksKept, RunningTurn
    <3>2. QED BY <3>1, <2>1, <1>1
  <2>3. loc'.batch = loc.batch /\ loc'.want = loc.want
    BY <2>1, <1>1 DEF Locals
  <2>4. QED BY <2>1, <2>2, <2>3, <1>2, LengthSame
<1>7. CASE ScheduleRunning
  <2> DEFINE r == running[loc.idx]
             q == request[r]
             n == NumNewTokens(q)
             p == [q EXCEPT !.num_spec = 0]
  <2>1. PICK e : Scheduled(e, r)
    BY <1>7, ScheduledFacts
  <2>2. /\ r \in Reqs /\ q \in AnyRequest /\ n > 0
        /\ request' = [request EXCEPT ![e.req] = p]
        /\ e \in BatchEntry /\ e.n = n
        /\ loc'.want = 0 /\ loc'.batch = Append(loc.batch, e)
        /\ \A i \in DOMAIN loc.batch : loc.batch[i].req # e.req
    BY <2>1 DEF Scheduled
  <2>3. q.num_computed_tokens + n <= MaxModelLen
    <3>1. RunningTurn
      BY <1>7 DEF ScheduleRunning
    <3>2. QED BY <3>1, <2>2, TurnLength
  <2> HIDE DEF q, n
  <2>4. p.num_computed_tokens = q.num_computed_tokens
    BY <2>2 DEF AnyRequest
  <2> HIDE DEF p
  <2>5. BatchInLength'
    BY <2>2, <2>3, <2>4, <1>2, LengthGrow
  <2>6. QED BY <2>2, <2>5 DEF WantInLength
<1>8. CASE PreemptForRunning
  <2> DEFINE r == running[loc.idx]
             n == NumNewTokens(request[r])
             v == Victim
  <2>1. Evicted(v, r)
    BY <1>8, EvictedFacts
  <2>2. /\ v \in Reqs /\ v \in ToSet(running) /\ r \in Reqs /\ n \in Int /\ n > 0
        /\ running' = remove_requests(running, {v})
        /\ request' = [request EXCEPT ![v] = Preempted(request[v], KvDelivery)]
        /\ loc'.idx = IndexWithout(v) /\ loc'.want = (IF v = r THEN 0 ELSE n)
        /\ loc'.batch = BatchWithout(v)
    BY <2>1 DEF Evicted
  <2>3. RunningTurn
    BY <1>8 DEF PreemptForRunning
  <2>4. request[r].num_computed_tokens + n <= MaxModelLen
    BY <2>2, <2>3, TurnLength
  <2> HIDE DEF n, v
  <2>5. /\ \A i \in DOMAIN BatchWithout(v) :
              /\ BatchWithout(v)[i].req # v
              /\ \E j \in DOMAIN loc.batch : loc.batch[j] = BatchWithout(v)[i]
    BY BatchWithoutFacts DEF Base, BatchSound
  <2>6. ASSUME NEW i \in DOMAIN loc'.batch PROVE InLength(loc.batch[i])'
    <3>1. PICK j \in DOMAIN loc.batch : loc.batch[j] = loc'.batch[i] /\ loc.batch[j].req # v
      BY <2>2, <2>5
    <3>2. request'[loc.batch[j].req] = request[loc.batch[j].req]
      BY <3>1, <2>2, <1>1, <1>3
    <3>3. QED BY <3>1, <3>2, <1>2, LengthKept
  <2>7. ASSUME v # r
        PROVE  running'[loc'.idx] = r
    <3>1. loc.idx \in DOMAIN running /\ running[loc.idx] # v
      BY <2>3, <2>7, RunningTurnFacts DEF Base
    <3>2. PICK j \in DOMAIN remove_requests(running, {v}) :
                 /\ remove_requests(running, {v})[j] = running[loc.idx]
                 /\ j = IndexWithout(v)
      BY <3>1, <2>2, VictimPlaces DEF Base, Queues
    <3>3. QED BY <3>2, <2>2
  <2>8. ASSUME v # r
        PROVE  request'[running'[loc'.idx]].num_computed_tokens + loc'.want <= MaxModelLen'
    <3>1. request'[running'[loc'.idx]] = request[r] /\ loc'.want = n
      BY <2>2, <2>7, <2>8, <1>1
    <3>2. QED BY <3>1, <2>4, <1>2 DEF MaxModelLen
  <2>9. v = r => ~(loc'.want > 0)
    BY <2>2
  <2>10. WantInLength'
    BY <2>8, <2>9 DEF WantInLength
  <2>11. QED BY <2>6, <2>10 DEF BatchInLength
<1>9. CASE EndRunning
  <2>1. UNCHANGED <<request, loc>> /\ pc' # "running"
    BY <1>9 DEF EndRunning
  <2>2. QED BY <2>1, <1>2, LengthSame
<1>10. CASE SkipWaiting
  <2>1. /\ request' = [request EXCEPT ![Candidate] = Promoted(Candidate)]
        /\ loc' = [loc EXCEPT !.step_skipped = prepend_request(@, Candidate)]
        /\ WaitingTurn /\ PopCandidate /\ pc' = "waiting"
    BY <1>10 DEF SkipWaiting, WaitingTurn
  <2>2. Candidate \in Reqs /\ request[Candidate].status # "RUNNING"
    BY <2>1, PopEffect
  <2>3. loc'.batch = loc.batch
    BY <2>1, <1>1 DEF Locals
  <2>4. \A i \in DOMAIN loc.batch : request'[loc.batch[i].req] = request[loc.batch[i].req]
    BY <2>1, <2>2, <1>1, <1>3
  <2>5. QED BY <2>1, <2>3, <2>4, <1>2, LengthSame
<1>11. ASSUME WaitingTurn, NEW found \in Lookups(Promoted(Candidate)), Admit(found)
       PROVE  BatchInLength' /\ WantInLength'
  <2> DEFINE r == Candidate
             q == found.q
             computed == found.computed
             n == AdmitTokens(q, computed)
             p == [q EXCEPT !.status = "RUNNING", !.num_computed_tokens = computed]
  <2>1. PICK e : Admitted(e, r, q, computed)
    BY <1>11, AdmittedFacts
  <2>2. /\ q \in AnyRequest
        /\ request' = [request EXCEPT ![e.req] = p]
        /\ e \in BatchEntry /\ e.n = n /\ pc' = "waiting"
        /\ loc'.batch = Append(loc.batch, e)
        /\ \A i \in DOMAIN loc.batch : loc.batch[i].req # e.req
    BY <2>1 DEF Admitted
  <2>3. CanAdmit(Candidate, found.q, found.computed)
    BY <1>11 DEF Admit
  <2>4. computed + n <= MaxModelLen
    BY <2>3, <1>11, AdmitLength
  <2> HIDE DEF n, q, computed, r
  <2>5. p.num_computed_tokens = computed
    BY <2>2 DEF AnyRequest
  <2> HIDE DEF p
  <2>6. BatchInLength'
    BY <2>2, <2>4, <2>5, <1>2, LengthGrow
  <2>7. QED BY <2>2, <2>6 DEF WantInLength
<1>12. ASSUME WaitingTurn, NEW found \in Lookups(Promoted(Candidate)), StopWaiting(found)
       PROVE  BatchInLength' /\ WantInLength'
  <2>1. /\ request' = [request EXCEPT ![Candidate] = found.q]
        /\ loc' = [loc EXCEPT !.step_skipped = <<>>] /\ pc' = "commit"
    BY <1>12 DEF StopWaiting, Requeue
  <2>2. request[Candidate].status # "RUNNING" /\ Candidate \in Reqs
    <3>1. Candidate \in ToSet(CandidateQueue) /\ Candidate \in Reqs
      BY <1>12, CandidateFacts DEF Base
    <3>2. Queued = LiveReqs \ WithStatus("RUNNING")
      BY <1>12, RunningOnes DEF WaitingTurn
    <3>3. Candidate \in Queued
      BY <3>1 DEF CandidateQueue, Queued
    <3>4. QED BY <3>1, <3>2, <3>3 DEF WithStatus
  <2>3. loc'.batch = loc.batch
    BY <2>1, <1>1 DEF Locals
  <2>4. \A i \in DOMAIN loc.batch : request'[loc.batch[i].req] = request[loc.batch[i].req]
    BY <2>1, <2>2, <1>1, <1>3
  <2>5. QED BY <2>1, <2>3, <2>4, <1>2, LengthSame
<1>13. CASE EndWaiting
  <2>1. request' = request /\ loc' = [loc EXCEPT !.step_skipped = <<>>] /\ pc' = "commit"
    BY <1>13 DEF EndWaiting, Requeue
  <2>2. loc'.batch = loc.batch
    BY <2>1, <1>1 DEF Locals
  <2>3. QED BY <2>1, <2>2, <1>2, LengthSame
<1>14. CASE Commit
  <2>1. loc' = Idle /\ pc' = "idle"
    BY <1>14 DEF Commit
  <2>2. DOMAIN loc'.batch = {}
    BY <2>1 DEF Idle
  <2>3. QED BY <2>1, <2>2 DEF BatchInLength, WantInLength
<1>15. QED BY <1>5, <1>6, <1>7, <1>8, <1>9, <1>10, <1>11, <1>12, <1>13, <1>14 DEF Schedule

\* The model runner's counts do not run below zero.
LEMMA SampledNext ==
  ASSUME Typed, \A r \in Reqs : sampled[r] >= 0, [Next]_vars
  PROVE  \A r \in Reqs : sampled'[r] >= 0
<1>1. CASE UNCHANGED sampled
  BY <1>1
<1>2. CASE Commit
  BY <1>2 DEF Commit
<1>3. ASSUME NEW accepted \in 0 .. NumSpec, NEW eos, NEW error, NEW drafts,
             Deliver(accepted, eos, error, drafts)
      PROVE  \A r \in Reqs : sampled'[r] >= 0
  <2> DEFINE e == Head(todo)
             s == SampledBefore(e)
             t == IF e.samples THEN accepted + 1 ELSE 0
  <2>1. OutputTurn /\ sampled' = [sampled EXCEPT ![e.req] = s + t]
    BY <1>3 DEF Deliver
  <2>2. e.req \in Reqs /\ e.prefix \in Int /\ e.samples \in BOOLEAN /\ NumSpec \in Nat
    BY <2>1, HeadFacts, ConfigFacts
  <2>3. sampled \in [Reqs -> Int]
    BY DEF Typed
  <2>4. s \in Int /\ s >= 0
    BY <2>2, <2>3 DEF SampledBefore
  <2>5. t \in Int /\ t >= 0
    BY <2>2
  <2> HIDE DEF s, t
  <2>6. s + t >= 0
    BY <2>4, <2>5
  <2>7. \A r \in Reqs : sampled'[r] = IF r = e.req THEN s + t ELSE sampled[r]
    BY <2>1, <2>3
  <2>8. QED BY <2>6, <2>7
<1>4. CASE Next
  <2>1. CASE Schedule
    <3>1. ~Commit => UNCHANGED sampled
      BY <2>1 DEF Schedule, BeginSchedule, SkipRunning, ScheduleRunning, PreemptForRunning,
             EndRunning, SkipWaiting, Admit, StopWaiting, Requeue, EndWaiting, worker
    <3>2. QED BY <3>1, <1>1, <1>2
  <2>2. CASE UpdateFromOutput
    <3>1. CASE BeginOutput \/ DropOutput \/ EndOutput
      BY <3>1, <1>1 DEF BeginOutput, DropOutput, EndOutput, worker
    <3>2. QED BY <3>1, <2>2, <1>3 DEF UpdateFromOutput
  <2>3. CASE GrammarStep
    BY <2>3, <1>1 DEF GrammarStep, GrammarDone, worker
  <2>4. CASE Handlers
    BY <2>4, <1>1 DEF Handlers, AddRequest, Abort, AddUpdate, ResetPrefixCache, set_pause_state,
                      worker
  <2>5. QED BY <1>4, <2>1, <2>2, <2>3, <2>4 DEF Next
<1>5. QED BY <1>1, <1>4 DEF vars, worker

\* Every step keeps every counter within its bounds.
LEMMA BoundedNext ==
  ASSUME SessionsFit, Base, ChunksKept, Tokens, Bounded, [Next]_vars
  PROVE  Bounded'
<1>1. AllSized' /\ \A r \in Reqs : sampled'[r] >= 0
  BY SizedNext, SampledNext DEF Bounded, Tokens, Base
<1>2. BatchInLength' /\ WantInLength'
  <2>1. CASE Schedule
    BY <2>1, LengthSchedule DEF Bounded, Tokens
  <2>2. CASE ~Schedule /\ InSchedule'
    <3>1. UNCHANGED <<config, loc, pc, request, running>>
      BY <2>2, ScheduleOnly
    <3>2. QED BY <3>1, Zenon DEF Bounded, BatchInLength, InLength, WantInLength, MaxModelLen
  <2>3. CASE ~InSchedule'
    <3>1. loc'.batch = <<>> /\ pc' # "running"
      BY <2>3, BaseNext DEF Base, Phases, InSchedule, Idle, Typed
    <3>2. QED BY <3>1 DEF BatchInLength, WantInLength
  <2>4. QED BY <2>1, <2>2, <2>3
<1>3. QED BY <1>1, <1>2 DEF Bounded

\* A sum of terms none of which is below zero is not less than any of them.
LEMMA SumBounds ==
  ASSUME NEW D, IsFiniteSet(D), NEW f \in [D -> Int], \A d \in D : f[d] >= 0
  PROVE  SumFunction(f) \in Int /\ SumFunction(f) >= 0 /\ \A d \in D : f[d] <= SumFunction(f)
<1>1. ASSUME NEW g \in [D -> Int], \A d \in D : g[d] >= 0
      PROVE  SumFunction(g) \in Int /\ SumFunction(g) >= 0
  <2> DEFINE z == [d \in D |-> 0]
  <2>1. z \in [D -> Int] /\ \A d \in D : z[d] = 0 /\ z[d] <= g[d]
    BY <1>1
  <2> HIDE DEF z
  <2>2. SumFunction(z) <= SumFunction(g) /\ SumFunction(g) \in Int /\ SumFunction(z) = 0
    BY <1>1, <2>1, SumMonotone, SumOfZeros, SumIsInt
  <2>3. QED BY <2>2
<1>2. ASSUME NEW d \in D PROVE f[d] <= SumFunction(f)
  <2> DEFINE g == [f EXCEPT ![d] = 0]
  <2>1. g \in [D -> Int] /\ \A x \in D : g[x] >= 0
    OBVIOUS
  <2>2. SumFunction(g) = SumFunction(f) - f[d] + 0
    <3>1. 0 \in Int
      OBVIOUS
    <3>2. QED BY <3>1, SumExcept, Zenon
  <2> HIDE DEF g
  <2>3. SumFunction(g) >= 0 /\ SumFunction(f) \in Int /\ f[d] \in Int
    BY <2>1, <1>1
  <2>4. QED BY <2>2, <2>3
<1>3. QED BY <1>1, <1>2

\* The budget left is within the budget.
LEMMA BudgetBounds ==
  ASSUME Base, BudgetKept
  PROVE  loc.token_budget \in 0 .. TokenBudget
<1>1. TokenBudget \in Nat /\ loc.token_budget \in Int /\ loc.token_budget >= 0
  BY ConfigFacts DEF Base, Typed, Locals, BudgetKept
<1>2. CASE InSchedule
  <2>1. loc.batch \in Seq(BatchEntry) /\ \A j \in DOMAIN loc.batch : loc.batch[j].n > 0
    BY DEF Base, Typed, Locals, BatchSound
  <2> DEFINE f == [j \in DOMAIN loc.batch |-> loc.batch[j].n]
             D == DOMAIN loc.batch
  <2>2. \A j \in D : loc.batch[j] \in BatchEntry
    BY <2>1
  <2>3. f \in [D -> Int] /\ \A j \in D : f[j] >= 0
    BY <2>1, <2>2 DEF BatchEntry
  <2>4. IsFiniteSet(D)
    <3>1. D = 1 .. Len(loc.batch) /\ Len(loc.batch) \in Nat
      BY <2>1
    <3>2. QED BY <3>1, FS_Interval
  <2>5. Spent(loc.batch) = SumFunction(f)
    BY DEF Spent
  <2> HIDE DEF f, D
  <2>6. Spent(loc.batch) \in Int /\ Spent(loc.batch) >= 0
    BY <2>3, <2>4, <2>5, SumBounds
  <2>7. StepBudget \in Int /\ StepBudget <= TokenBudget
    BY <1>1 DEF StepBudget
  <2>8. loc.token_budget + Spent(loc.batch) = StepBudget
    BY <1>2 DEF BudgetKept
  <2> HIDE DEF StepBudget
  <2>9. QED BY <2>6, <2>7, <2>8, <1>1
<1>3. CASE ~InSchedule
  <2>1. loc.token_budget = 0
    BY <1>3 DEF InSchedule, Base, Typed, Phases, Idle
  <2>2. QED BY <2>1, <1>1
<1>4. QED BY <1>2, <1>3

\* No table is longer than the pool.
LEMMA TableBounds ==
  ASSUME Base, BlocksKept
  PROVE  held \in [Reqs -> 0 .. NumBlocks]
<1>1. held \in [Reqs -> Int] /\ IsFiniteSet(Reqs) /\ NumBlocks \in Nat /\ \A r \in Reqs : held[r] >= 0
  BY ConfigFacts, RankAssumption DEF Base, Typed, BlocksKept
<1>2. SumFunction(held) \in Int /\ \A r \in Reqs : held[r] <= SumFunction(held)
  BY <1>1, SumBounds
<1>3. NumBlocks - SumFunction(held) >= 0
  BY DEF BlocksKept, FreeBlocks
<1> HIDE DEF NumBlocks
<1>4. \A r \in Reqs : held[r] \in 0 .. NumBlocks
  BY <1>1, <1>2, <1>3
<1>5. QED BY <1>1, <1>4

\* The counters of a request are within the bounds of its type.
LEMMA RecordBounds ==
  ASSUME Base, Tokens, Bounded, NEW r \in Reqs
  PROVE  request[r] \in Records
<1> DEFINE p == request[r]
           u == Settled(r)
           a == Ahead(p, u)
<1>1. /\ p \in AnyRequest /\ config \in Configs /\ Sized(p) /\ Len(inflight) \in Nat
  BY DEF Base, Typed, Bounded, AllSized, SizedNow
<1>2. Steady(p, r, u) /\ (p.status # "FINISHED" => Tracked(p, r, todo, inflight, u, sampled[r]))
  BY DEF Tokens, AllFine, Fine
<1>3. u \in BOOLEAN
  BY DEF Settled
<1>4. MaxModelLen \in Nat /\ NumSpec \in Nat
  BY <1>1, ConfigFacts
<1>5. u => p.status # "FINISHED"
  BY DEF Settled
<1> HIDE DEF p, u
<1>6. p.num_in_flight_tokens \in Nat /\ p.num_stale_output_tokens \in Nat
  <2>1. CASE p.status # "FINISHED"
    BY <2>1, <1>1, <1>2, <1>3, TrackedBounds
  <2>2. CASE p.status = "FINISHED"
    BY <2>2, <1>1 DEF Sized
  <2>3. QED BY <2>1, <2>2
<1>7. /\ p.num_tokens \in Int /\ p.num_prompt_tokens \in Int /\ p.num_computed_tokens \in Int
      /\ p.num_spec \in Int /\ p.shared_prefix_boundary \in Int /\ p.num_output_placeholders \in Int
  BY <1>1 DEF AnyRequest
<1>8. /\ 1 <= p.num_prompt_tokens /\ p.num_prompt_tokens < MaxModelLen
      /\ 1 <= p.num_tokens /\ p.num_tokens <= MaxModelLen
      /\ 0 <= p.num_computed_tokens /\ p.num_computed_tokens <= MaxModelLen
      /\ 0 <= p.num_spec /\ p.num_spec <= NumSpec
      /\ 0 <= p.shared_prefix_boundary /\ p.shared_prefix_boundary <= MaxModelLen
  BY <1>1 DEF Sized, Roomy
<1> HIDE DEF MaxModelLen, NumSpec
<1>9. a \in Nat /\ a <= MaxModelLen
  <2>1. CASE u
    <3>1. a \in Nat
      BY <2>1, <1>1, <1>2, <1>3, <1>5, TrackedBounds
    <3>2. a = p.num_computed_tokens + 1 - p.num_tokens \/ a = 0
      BY DEF Ahead
    <3>3. QED BY <3>1, <3>2, <1>4, <1>7, <1>8
  <2>2. CASE ~u
    BY <2>2, <1>4 DEF Ahead
  <2>3. QED BY <2>1, <2>2
<1>10. p.num_output_placeholders \in 0 .. MaxModelLen
  <2>1. p.num_output_placeholders = a \/ p.num_output_placeholders = 0
    BY <1>2 DEF Steady
  <2> HIDE DEF a
  <2>2. QED BY <2>1, <1>4, <1>9
<1>11. /\ p.num_tokens \in 1 .. MaxModelLen /\ p.num_prompt_tokens \in 1 .. MaxModelLen
       /\ p.num_computed_tokens \in 0 .. MaxModelLen /\ p.num_spec \in 0 .. NumSpec
       /\ p.shared_prefix_boundary \in 0 .. MaxModelLen
  BY <1>4, <1>7, <1>8
<1>12. p \in Records
  BY <1>1, <1>6, <1>10, <1>11 DEF AnyRequest, Records
<1>13. QED BY <1>12 DEF p

(* Types: no counter of a request runs below zero, however rejections, preemptions *)
(* and late output interleave, nor above the model's length, and no more steps     *)
(* are in flight than the batches that may be (scheduler.py).  PaddingUncut leaves *)
(* out the configurations of the hazard at line 971; SessionsFit those in which    *)
(* the chunks of a session, each with its answer, outgrow the model's length.      *)
THEOREM TypeCorrect == ASSUME PaddingUncut, SessionsFit PROVE Spec => []TypeOK
<1>1. SessionsFit /\ Base /\ ChunksKept /\ Tokens /\ Bounded /\ [Next]_vars => Bounded'
  BY BoundedNext
<1>2. Base /\ Slots /\ Tokens /\ BudgetKept /\ BlocksKept /\ Bounded => TypeOK
  <2> SUFFICES ASSUME Base, Slots, Tokens, BudgetKept, BlocksKept, Bounded PROVE TypeOK
    OBVIOUS
  <2>1. request \in [Reqs -> Records]
    BY RecordBounds DEF Base, Typed
  <2>2. num_waiting_for_streaming_input \in Nat
    <3>1. PausedSessions \in SUBSET Reqs
      BY DEF PausedSessions, WithStatus
    <3>2. QED BY <3>1, ReqsFinite DEF Slots, SessionsCounted
  <2>3. sampled \in [Reqs -> Nat]
    BY DEF Base, Typed, Bounded
  <2>4. Len(inflight) <= Depth
    <3>1. Depth \in Nat /\ inflight \in Seq(Seq(StepEntry))
      BY ConfigFacts DEF Base, Typed
    <3>2. Len(inflight) \in Nat
      BY <3>1
    <3>3. Len(inflight) + (IF pc = "idle" THEN 0 ELSE 1) <= Depth
      BY DEF Base, Phases
    <3>4. QED BY <3>1, <3>2, <3>3
  <2>5. QED BY <2>1, <2>2, <2>3, <2>4, BudgetBounds, TableBounds DEF Base, Typed, TypeOK
<1>3. Init => Bounded
  BY BoundedInit
<1>4. PaddingUncut /\ SessionsFit
  OBVIOUS
<1>5. QED BY <1>1, <1>2, <1>3, <1>4, TokensInvariant, BudgetInvariant, ChunksInvariant,
             BlocksInvariant, PTL DEF Spec
=============================================================================
