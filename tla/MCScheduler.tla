---------------------------- MODULE MCScheduler ----------------------------
(* Instances of Scheduler for TLC: two or three requests. *)
EXTENDS Scheduler

CONSTANTS r1, r2, r3

Ranks == (r1 :> 3 @@ r2 :> 1 @@ r3 :> 2)
Prompts == (r1 :> 3 @@ r2 :> 2 @@ r3 :> 1)

\* Asynchronous scheduling with drafts: three requests, too few blocks.
Asynchronous ==
  [depth |-> 2, policy |-> "fcfs", running |-> 2, budget |-> 3, blocks |-> 4,
   block_size |-> 2, aligned |-> FALSE, eagle |-> FALSE, spec |-> 1, max_len |-> 7,
   kv_delivery |-> FALSE, clients |-> {r1, r2, r3}, prompt |-> Prompts,
   max_tokens |-> 3, structured |-> {}, sessions |-> {}, max_chunks |-> 0,
   ops |-> {"abort", "reset"}]

Prioritised == [Asynchronous EXCEPT !.depth = 3, !.policy = "priority", !.ops = {"abort"}]

\* A streaming session and a request with a grammar, one at a time.
Streaming ==
  [Asynchronous EXCEPT !.depth = 1, !.running = 1, !.blocks = 6, !.max_len = 12,
     !.clients = {r1, r2}, !.structured = {r2}, !.sessions = {r1}, !.max_chunks = 2,
     !.ops = {"abort", "pause"}]

\* Outputs that must be delivered, and a grammar, until every request ends.
Delivering ==
  [Asynchronous EXCEPT !.kv_delivery = TRUE, !.structured = {r2}, !.ops = {"abort"}]

SessionOnly ==
  [Streaming EXCEPT !.max_tokens = 2, !.structured = {}, !.ops = {}]

\* Recurrent state cached at the ends of blocks, with a drafter in the cache;
\* then blocks wider than a chunk.
Recurrent ==
  [Asynchronous EXCEPT !.budget = 4, !.blocks = 5, !.aligned = TRUE, !.eagle = TRUE,
     !.max_len = 9, !.clients = {r1, r2}, !.prompt = (r1 :> 5 @@ r2 :> 3 @@ r3 :> 1),
     !.max_tokens = 2]

WideBlocks == [Recurrent EXCEPT !.budget = 3, !.block_size = 4, !.blocks = 4]

\* A request resumed with a prefix shared up to its last token.
Junction ==
  [Recurrent EXCEPT !.block_size = 3, !.prompt = (r1 :> 4 @@ r2 :> 3 @@ r3 :> 1),
     !.max_tokens = 3]

\* Two drafts, and requests that run into the model's length.
AtLimit ==
  [Asynchronous EXCEPT !.spec = 2, !.max_len = 5, !.max_tokens = 5, !.budget = 4,
     !.blocks = 5, !.clients = {r1, r2}]

AllConfigs == {Asynchronous, Prioritised, Streaming, Recurrent, WideBlocks, Junction,
               AtLimit, [AtLimit EXCEPT !.depth = 1]}
LiveConfigs == {[Delivering EXCEPT !.aligned = TRUE]}
SlotConfigs == {SessionOnly}

\* What the theorems ask of the configurations holds of those checked.
ASSUME TheoremsApply == SessionsUncut /\ PaddingUncut /\ SessionsFit
=============================================================================
