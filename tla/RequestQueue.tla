---------------------------- MODULE RequestQueue ----------------------------
(***************************************************************************)
(* The waiting queues of the scheduler (create_request_queue).  Under      *)
(* "fcfs" a queue is a deque; under "priority" it is a heap, whose head is *)
(* the request with the least (priority, arrival time).                    *)
(*                                                                         *)
(* The classes are the serving framework's: their operations are modelled  *)
(* from the calls in src/patches/files/scheduler.py.                       *)
(***************************************************************************)
EXTENDS Naturals, SequencesExt

CONSTANTS
  Reqs, \* request ids
  Rank  \* the place of a request's (priority, arrival_time) among them all

Policies == {"fcfs", "priority"}

ASSUME RankAssumption == /\ IsFiniteSet(Reqs)
                         /\ Rank \in [Reqs -> Nat]
                         /\ \A r, s \in Reqs : Rank[r] = Rank[s] => r = s

IsEmpty(q) == q = <<>>

Least(S) == CHOOSE r \in S : \A s \in S : Rank[r] <= Rank[s]

Greatest(S) == CHOOSE r \in S : \A s \in S : Rank[r] >= Rank[s]

peek_request(policy, q) == IF policy = "fcfs" THEN Head(q) ELSE Least(ToSet(q))

remove_requests(q, S) ==
  FoldLeft(LAMBDA kept, r : IF r \in S THEN kept ELSE Append(kept, r), <<>>, q)

pop_request(policy, q) == remove_requests(q, {peek_request(policy, q)})

add_request(q, r) == Append(q, r)

prepend_request(q, r) == <<r>> \o q

\* A deque takes the requests of the other queue one by one from its head, so
\* they end up in front in reverse order.
prepend_requests(q, other) == Reverse(other) \o q
=============================================================================
