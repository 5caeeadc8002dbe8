--------------------------- MODULE SchedulerQueues ---------------------------
(***************************************************************************)
(* Machine-checked proofs about Scheduler, for any finite set of requests, *)
(* any configurations and any number of steps in flight: its types, that   *)
(* no request is lost or queued twice, slots of the model runner, the      *)
(* budget of a step, and where prefill chunks stop.                        *)
(*                                                                         *)
(* The invariant Base speaks of every point between two turns of the loops *)
(* of schedule() and update_from_output: who is in which queue while the   *)
(* skipped requests are set aside and while stopped ones wait to be        *)
(* removed, and which requests the steps hold.                             *)
(***************************************************************************)
EXTENDS Scheduler, FoldLemmas

---------------------------------------------------------------------------
(* The queues of requests (request_queue as scheduler.py uses it).         *)

KeptTable(q, S) == CHOOSE it : it = [s \in SUBSET (DOMAIN q) |->
   IF s = {} THEN <<>>
   ELSE IF q[Max(s)] \in S THEN it[s \ {Max(s)}] ELSE Append(it[s \ {Max(s)}], q[Max(s)])]

\* remove_requests is the table of what is kept, at the whole queue.
LEMMA KeptIsTable ==
  ASSUME NEW q, NEW S PROVE remove_requests(q, S) = KeptTable(q, S)[DOMAIN q]
  BY SMT DEF remove_requests, FoldLeft, MapThenFoldSet, KeptTable

Removing(f, A, q, S) ==
  /\ f \in [0 .. Len(q) -> Seq(A)]
  /\ f[0] = <<>> /\ f[Len(q)] = remove_requests(q, S)
  /\ \A k \in 1 .. Len(q) : f[k] = IF q[k] \in S THEN f[k - 1] ELSE Append(f[k - 1], q[k])

\* remove_requests goes through the queue, and keeps or drops each element.
LEMMA RemoveSteps ==
  ASSUME NEW A, NEW q \in Seq(A), NEW S
  PROVE  \E f : Removing(f, A, q, S)
<1> DEFINE n == Len(q)
           G == [p \in (1 .. n) \X Seq(A) |-> IF q[p[1]] \in S THEN p[2] ELSE Append(p[2], q[p[1]])]
<1>1. n \in Nat /\ DOMAIN q = 1 .. n /\ \A i \in 1 .. n : q[i] \in A
  OBVIOUS
<1>2. G \in [(1 .. n) \X Seq(A) -> Seq(A)]
  OBVIOUS
<1>3. \A i \in 1 .. n, v \in Seq(A) : G[<<i, v>>] = IF q[i] \in S THEN v ELSE Append(v, q[i])
  OBVIOUS
<1>4. <<>> \in Seq(A)
  OBVIOUS
<1>0. n \in Nat
  OBVIOUS
<1> HIDE DEF G, n
<1>40. PICK it : IsFold(it, n, Seq(A), <<>>, G)
  BY <1>0, <1>2, <1>4, FoldTable
<1>5. /\ it \in [SUBSET (1 .. n) -> Seq(A)]
      /\ \A s \in SUBSET (1 .. n) :
           it[s] = IF s = {} THEN <<>> ELSE G[<<Max(s), it[s \ {Max(s)}]>>]
  BY <1>40 DEF IsFold
<1> DEFINE Following(g, s) == IF s = {} THEN <<>>
                         ELSE IF q[Max(s)] \in S THEN g[s \ {Max(s)}]
                              ELSE Append(g[s \ {Max(s)}], q[Max(s)])
           E(g) == g = [s \in SUBSET (DOMAIN q) |-> Following(g, s)]
<1>6. ASSUME NEW s \in SUBSET (1 .. n) PROVE it[s] = Following(it, s)
  <2>1. CASE s = {}
    BY <2>1, <1>5
  <2>2. CASE s # {}
    <3>1. Max(s) \in 1 .. n /\ s \ {Max(s)} \in SUBSET (1 .. n)
      BY <2>2, <1>1, MaxOfInterval
    <3>2. it[s \ {Max(s)}] \in Seq(A)
      BY <3>1, <1>5
    <3>3. it[s] = G[<<Max(s), it[s \ {Max(s)}]>>]
      BY <2>2, <1>5
    <3>4. QED BY <3>1, <3>2, <3>3, <1>3, <2>2
  <2>3. QED BY <2>1, <2>2
<1> HIDE DEF Following
<1>7. E(it)
  BY <1>1, <1>5, <1>6
<1>8. KeptTable(q, S) = CHOOSE g : E(g)
  BY DEF KeptTable, Following
<1> HIDE DEF E
<1>9. E(KeptTable(q, S))
  BY <1>7, <1>8
<1> DEFINE kt == KeptTable(q, S)
<1>10. kt = [s \in SUBSET (1 .. n) |-> Following(kt, s)]
  BY <1>9, <1>1 DEF E
<1> HIDE DEF kt
<1>11. \A s \in SUBSET (1 .. n) : kt[s] = Following(kt, s)
  BY <1>10
<1> DEFINE f == [k \in 0 .. n |-> kt[1 .. k]]
<1>12. f[0] = <<>>
  <2>1. 1 .. 0 = {} /\ 0 \in 0 .. n /\ 1 .. 0 \in SUBSET (1 .. n)
    BY <1>1
  <2>2. QED BY <2>1, <1>11 DEF Following
<1>13. ASSUME NEW k \in 1 .. n
       PROVE  f[k] = IF q[k] \in S THEN f[k - 1] ELSE Append(f[k - 1], q[k])
  <2>0. k \in Nat \ {0} /\ k <= n
    BY <1>0
  <2>10. k \in 0 .. n /\ k - 1 \in 0 .. n
    BY <2>0, <1>0
  <2>11. \A i \in 1 .. k : i \in 1 .. n
    BY <2>0, <1>0
  <2>12. k \in 1 .. k
    BY <2>0
  <2>1. k \in 0 .. n /\ k - 1 \in 0 .. n /\ 1 .. k \in SUBSET (1 .. n) /\ 1 .. k # {}
    BY <2>10, <2>11, <2>12
  <2>2. Max(1 .. k) = k /\ (1 .. k) \ {k} = 1 .. (k - 1)
    BY <2>0, MaxIsLast
  <2>3. kt[1 .. k] = Following(kt, 1 .. k)
    BY <2>1, <1>11
  <2>4. kt[1 .. k] = IF q[k] \in S THEN kt[1 .. (k - 1)] ELSE Append(kt[1 .. (k - 1)], q[k])
    BY <2>1, <2>2, <2>3 DEF Following
  <2>5. QED BY <2>1, <2>4
<1>14. f[n] = remove_requests(q, S)
  <2>1. n \in 0 .. n
    BY <1>1
  <2>2. QED BY <2>1, <1>1, KeptIsTable DEF kt
<1>15. DOMAIN f = 0 .. n /\ f = [k \in 0 .. n |-> f[k]]
  OBVIOUS
<1> HIDE DEF f
<1>16. f \in [0 .. n -> Seq(A)]
  <2> DEFINE Good == {k \in Nat : k <= n => f[k] \in Seq(A)}
  <2>1. 0 \in Good
    BY <1>4, <1>12
  <2>2. ASSUME NEW k \in Nat, k \in Good PROVE k + 1 \in Good
    <3>1. ASSUME k + 1 <= n PROVE f[k + 1] \in Seq(A)
      <4>1. k + 1 \in 1 .. n /\ k <= n /\ (k + 1) - 1 = k
        BY <3>1, <1>0
      <4>2. f[k] \in Seq(A) /\ q[k + 1] \in A
        BY <4>1, <2>2, <1>1
      <4>3. f[k + 1] = IF q[k + 1] \in S THEN f[k] ELSE Append(f[k], q[k + 1])
        BY <4>1, <1>13
      <4>4. QED BY <4>2, <4>3
    <3>2. k + 1 \in Nat
      OBVIOUS
    <3>3. QED BY <3>1, <3>2
  <2>3. \A k \in Nat : k \in Good
    <3> HIDE DEF Good
    <3>1. QED BY <2>1, <2>2, NatInductionSet
  <2>4. \A k \in 0 .. n : k \in Nat /\ k <= n
    BY <1>0
  <2>5. \A k \in 0 .. n : f[k] \in Seq(A)
    BY <2>3, <2>4
  <2>6. QED BY <2>5, <1>15
<1>17. QED BY <1>12, <1>13, <1>14, <1>16 DEF n, Removing
Distinct(q) == \A i, j \in DOMAIN q : q[i] = q[j] => i = j

\* append() adds one element, and a new one keeps the queue without repetition.
LEMMA AppendFacts ==
  ASSUME NEW A, NEW q \in Seq(A), NEW x \in A
  PROVE  /\ Append(q, x) \in Seq(A)
         /\ ToSet(Append(q, x)) = ToSet(q) \cup {x}
         /\ Distinct(q) /\ x \notin ToSet(q) => Distinct(Append(q, x))
<1>1. /\ Append(q, x) \in Seq(A)
      /\ Len(Append(q, x)) = Len(q) + 1
      /\ DOMAIN Append(q, x) = 1 .. Len(q) + 1
      /\ \A i \in 1 .. Len(q) : Append(q, x)[i] = q[i]
      /\ Append(q, x)[Len(q) + 1] = x
  OBVIOUS
<1>2. DOMAIN q = 1 .. Len(q) /\ Len(q) \in Nat
  OBVIOUS
<1>3. 1 .. Len(q) + 1 = 1 .. Len(q) \cup {Len(q) + 1}
  BY <1>2
<1>4. ToSet(Append(q, x)) = ToSet(q) \cup {x}
  <2> DEFINE p == Append(q, x)
  <2>1. ToSet(p) = {p[i] : i \in 1 .. Len(q) + 1} /\ ToSet(q) = {q[i] : i \in 1 .. Len(q)}
    BY <1>1, <1>2 DEF ToSet
  <2> HIDE DEF p
  <2>2. {p[i] : i \in 1 .. Len(q) + 1} = {p[i] : i \in 1 .. Len(q)} \cup {p[Len(q) + 1]}
    BY <1>3
  <2>3. QED BY <2>1, <2>2, <1>1 DEF p
<1>5. ASSUME Distinct(q), x \notin ToSet(q) PROVE Distinct(Append(q, x))
  <2>1. \A i \in 1 .. Len(q) : q[i] # x
    BY <1>2, <1>5 DEF ToSet
  <2>2. QED BY <1>1, <1>2, <1>3, <1>5, <2>1 DEF Distinct
<1>6. QED BY <1>1, <1>4, <1>5

\* remove_requests takes exactly the given elements out.
LEMMA RemoveFacts ==
  ASSUME NEW A, NEW q \in Seq(A), NEW S
  PROVE  /\ remove_requests(q, S) \in Seq(A)
         /\ ToSet(remove_requests(q, S)) = ToSet(q) \ S
         /\ Distinct(q) => Distinct(remove_requests(q, S))
<1>0. PICK f : Removing(f, A, q, S)
  BY RemoveSteps
<1>1. /\ f \in [0 .. Len(q) -> Seq(A)]
      /\ f[0] = <<>> /\ f[Len(q)] = remove_requests(q, S)
      /\ \A k \in 1 .. Len(q) : f[k] = IF q[k] \in S THEN f[k - 1] ELSE Append(f[k - 1], q[k])
  BY <1>0 DEF Removing
<1> DEFINE n == Len(q)
           First(k) == {q[i] : i \in 1 .. k}
           Good == {k \in Nat : k <= n => /\ ToSet(f[k]) = First(k) \ S
                                          /\ Distinct(q) => Distinct(f[k])}
<1>2. n \in Nat /\ DOMAIN q = 1 .. n /\ \A i \in 1 .. n : q[i] \in A
  OBVIOUS
<1>3. 0 \in Good
  <2>1. f[0] = <<>> /\ 1 .. 0 = {}
    BY <1>1
  <2>2. ToSet(f[0]) = {} /\ Distinct(f[0]) /\ First(0) = {}
    BY <2>1 DEF ToSet, Distinct
  <2>3. QED BY <2>2
<1>4. ASSUME NEW k \in Nat, k \in Good PROVE k + 1 \in Good
  <2>1. SUFFICES ASSUME k + 1 <= n
                 PROVE  /\ ToSet(f[k + 1]) = First(k + 1) \ S
                        /\ Distinct(q) => Distinct(f[k + 1])
    OBVIOUS
  <2>2. k \in 0 .. n /\ k + 1 \in 1 .. n /\ (k + 1) - 1 = k /\ k <= n
    BY <2>1, <1>2
  <2>3. f[k + 1] = IF q[k + 1] \in S THEN f[k] ELSE Append(f[k], q[k + 1])
    BY <2>2, <1>1
  <2>4. f[k] \in Seq(A) /\ q[k + 1] \in A
    BY <2>2, <1>1, <1>2
  <2>5. ToSet(f[k]) = First(k) \ S /\ (Distinct(q) => Distinct(f[k]))
    BY <2>2, <1>4
  <2>6. First(k + 1) = First(k) \cup {q[k + 1]}
    <3>1. 1 .. k + 1 = 1 .. k \cup {k + 1}
      OBVIOUS
    <3>2. QED BY <3>1
  <2>7. Distinct(q) => q[k + 1] \notin First(k)
    <3>1. \A i \in 1 .. k : i \in 1 .. n /\ i # k + 1
      BY <2>2, <1>2
    <3>2. QED BY <3>1, <2>2, <1>2 DEF Distinct
  <2> HIDE DEF First
  <2>8. CASE q[k + 1] \in S
    BY <2>3, <2>5, <2>6, <2>8
  <2>9. CASE q[k + 1] \notin S
    <3>1. f[k + 1] = Append(f[k], q[k + 1])
      BY <2>3, <2>9
    <3>2. ToSet(f[k + 1]) = ToSet(f[k]) \cup {q[k + 1]}
      BY <3>1, <2>4, AppendFacts
    <3>3. Distinct(f[k]) /\ q[k + 1] \notin ToSet(f[k]) => Distinct(f[k + 1])
      BY <3>1, <2>4, AppendFacts
    <3>4. QED BY <2>5, <2>6, <2>7, <2>9, <3>2, <3>3
  <2>10. QED BY <2>8, <2>9
<1>5. n \in Good
  <2> HIDE DEF Good
  <2>1. \A k \in Nat : k \in Good
    BY <1>3, <1>4, NatInductionSet
  <2>2. QED BY <2>1, <1>2
<1>6. n \in 0 .. n
  BY <1>2
<1>7. f[n] \in Seq(A) /\ f[n] = remove_requests(q, S)
  BY <1>1, <1>6
<1>8. First(n) = ToSet(q)
  BY <1>2 DEF ToSet
<1>9. QED BY <1>5, <1>7, <1>8

\* The requests that are left keep their order.
LEMMA RemoveOne ==
  ASSUME NEW A, NEW q \in Seq(A), Distinct(q), NEW i \in DOMAIN q
  PROVE  /\ Len(remove_requests(q, {q[i]})) = Len(q) - 1
         /\ \A k \in 1 .. Len(q) - 1 :
              remove_requests(q, {q[i]})[k] = IF k < i THEN q[k] ELSE q[k + 1]
<1> DEFINE n == Len(q)
           S == {q[i]}
<1>0. PICK f : Removing(f, A, q, S)
  BY RemoveSteps
<1>1. /\ f \in [0 .. Len(q) -> Seq(A)]
      /\ f[0] = <<>> /\ f[Len(q)] = remove_requests(q, S)
      /\ \A k \in 1 .. Len(q) : f[k] = IF q[k] \in S THEN f[k - 1] ELSE Append(f[k - 1], q[k])
  BY <1>0 DEF Removing
<1> DEFINE Size(k) == IF k < i THEN k ELSE k - 1
           Good == {k \in Nat : k <= n =>
                      /\ Len(f[k]) = Size(k)
                      /\ \A j \in 1 .. Size(k) : f[k][j] = IF j < i THEN q[j] ELSE q[j + 1]}
<1>2. n \in Nat /\ DOMAIN q = 1 .. n /\ i \in 1 .. n /\ \A j \in 1 .. n : q[j] \in A
  OBVIOUS
<1>3. 0 \in Good
  BY <1>1, <1>2
<1>4. ASSUME NEW k \in Nat, k \in Good PROVE k + 1 \in Good
  <2>1. SUFFICES ASSUME k + 1 <= n
                 PROVE  /\ Len(f[k + 1]) = Size(k + 1)
                        /\ \A j \in 1 .. Size(k + 1) :
                             f[k + 1][j] = IF j < i THEN q[j] ELSE q[j + 1]
    OBVIOUS
  <2>2. k \in 0 .. n /\ k + 1 \in 1 .. n /\ (k + 1) - 1 = k /\ k <= n
    BY <2>1, <1>2
  <2>3. f[k + 1] = IF q[k + 1] = q[i] THEN f[k] ELSE Append(f[k], q[k + 1])
    BY <2>2, <1>1
  <2>4. f[k] \in Seq(A) /\ q[k + 1] \in A
    BY <2>2, <1>1, <1>2
  <2>5. /\ Len(f[k]) = Size(k)
        /\ \A j \in 1 .. Size(k) : f[k][j] = IF j < i THEN q[j] ELSE q[j + 1]
    BY <2>2, <1>4
  <2>6. q[k + 1] = q[i] <=> k + 1 = i
    BY <2>2, <1>2 DEF Distinct
  <2>7. CASE k + 1 = i
    BY <2>3, <2>5, <2>6, <2>7, <1>2
  <2>8. CASE k + 1 # i
    <3>1. f[k + 1] = Append(f[k], q[k + 1])
      BY <2>3, <2>6, <2>8
    <3>2. Size(k) \in Nat /\ Size(k + 1) = Size(k) + 1
      BY <2>2, <2>8, <1>2
    <3>3. /\ Len(f[k + 1]) = Size(k) + 1
          /\ f[k + 1][Size(k) + 1] = q[k + 1]
          /\ \A j \in 1 .. Size(k) : f[k + 1][j] = f[k][j]
      BY <3>1, <3>2, <2>4, <2>5
    <3>4. q[k + 1] = IF Size(k) + 1 < i THEN q[Size(k) + 1] ELSE q[Size(k) + 1 + 1]
      BY <2>2, <2>8, <1>2
    <3>5. 1 .. Size(k + 1) = 1 .. Size(k) \cup {Size(k) + 1}
      BY <3>2
    <3> HIDE DEF Size
    <3>6. QED BY <2>5, <3>2, <3>3, <3>4, <3>5
  <2>9. QED BY <2>7, <2>8
<1>5. n \in Good
  <2> HIDE DEF Good
  <2>1. \A k \in Nat : k \in Good
    BY <1>3, <1>4, NatInductionSet
  <2>2. QED BY <2>1, <1>2
<1>6. Size(n) = n - 1
  <2>1. i <= n /\ i \in Int /\ n \in Int
    BY <1>2
  <2>2. ~(n < i)
    BY <2>1
  <2> HIDE DEF n
  <2>3. QED BY <2>2
<1>7. /\ Len(f[n]) = Size(n)
      /\ \A j \in 1 .. Size(n) : f[n][j] = IF j < i THEN q[j] ELSE q[j + 1]
  BY <1>2, <1>5
<1> HIDE DEF Size, Good
<1>8. QED BY <1>1, <1>6, <1>7

\* Removing nobody changes nothing.
LEMMA RemoveNone ==
  ASSUME NEW A, NEW q \in Seq(A), NEW S, S \cap ToSet(q) = {}
  PROVE  remove_requests(q, S) = q
<1> DEFINE n == Len(q)
<1>0. PICK f : Removing(f, A, q, S)
  BY RemoveSteps
<1>1. /\ f \in [0 .. Len(q) -> Seq(A)]
      /\ f[0] = <<>> /\ f[Len(q)] = remove_requests(q, S)
      /\ \A k \in 1 .. Len(q) : f[k] = IF q[k] \in S THEN f[k - 1] ELSE Append(f[k - 1], q[k])
  BY <1>0 DEF Removing
<1> DEFINE Good == {k \in Nat : k <= n => /\ Len(f[k]) = k
                                          /\ \A j \in 1 .. k : f[k][j] = q[j]}
<1>2. n \in Nat /\ DOMAIN q = 1 .. n /\ \A j \in 1 .. n : q[j] \in A /\ q[j] \notin S
  BY DEF ToSet
<1>3. 0 \in Good
  BY <1>1, <1>2
<1>4. ASSUME NEW k \in Nat, k \in Good PROVE k + 1 \in Good
  <2>1. SUFFICES ASSUME k + 1 <= n
                 PROVE  Len(f[k + 1]) = k + 1 /\ \A j \in 1 .. k + 1 : f[k + 1][j] = q[j]
    OBVIOUS
  <2>2. k \in 0 .. n /\ k + 1 \in 1 .. n /\ (k + 1) - 1 = k /\ k <= n
    BY <2>1, <1>2
  <2>3. f[k + 1] = Append(f[k], q[k + 1])
    BY <2>2, <1>1, <1>2
  <2>4. f[k] \in Seq(A) /\ q[k + 1] \in A
    BY <2>2, <1>1, <1>2
  <2>5. Len(f[k]) = k /\ \A j \in 1 .. k : f[k][j] = q[j]
    BY <2>2, <1>4
  <2>6. Len(f[k + 1]) = k + 1 /\ f[k + 1][k + 1] = q[k + 1]
        /\ \A j \in 1 .. k : f[k + 1][j] = f[k][j]
    BY <2>3, <2>4, <2>5
  <2>7. 1 .. k + 1 = 1 .. k \cup {k + 1}
    OBVIOUS
  <2>8. QED BY <2>5, <2>6, <2>7
<1>5. n \in Good
  <2> HIDE DEF Good
  <2>1. \A k \in Nat : k \in Good
    BY <1>3, <1>4, NatInductionSet
  <2>2. QED BY <2>1, <1>2
<1>6. n \in 0 .. n
  BY <1>2
<1>7. f[n] \in Seq(A)
  BY <1>1, <1>6
<1>8. f[n] = q
  BY <1>2, <1>5, <1>7
<1>9. QED BY <1>1, <1>8

\* Sets of requests are finite.
LEMMA ReqsFinite == \A S \in SUBSET Reqs : IsFiniteSet(S) /\ Cardinality(S) \in Nat
  BY RankAssumption, Subsets

\* The request of least rank is one of them.
LEMMA LeastIn == ASSUME NEW S \in SUBSET Reqs, S # {} PROVE Least(S) \in S
<1> DEFINE T == {Rank[r] : r \in S}
<1>1. T \in SUBSET Nat /\ T # {}
  BY RankAssumption
<1>2. PICK m \in T : \A k \in T : m <= k
  BY <1>1, LeastNat
<1>3. PICK r \in S : Rank[r] = m
  OBVIOUS
<1>4. \A s \in S : Rank[r] <= Rank[s]
  BY <1>2, <1>3
<1>5. QED BY <1>4 DEF Least

\* The request of greatest rank is one of them.
LEMMA GreatestIn == ASSUME NEW S \in SUBSET Reqs, S # {} PROVE Greatest(S) \in S
<1> DEFINE f == [r \in S |-> Rank[r]]
<1>1. f \in [S -> Int] /\ \A r \in S : f[r] = Rank[r] /\ Rank[r] \in Int
  BY RankAssumption
<1>2. IsFiniteSet(S)
  BY ReqsFinite
<1> HIDE DEF f
<1>3. PICK m \in S : \A x \in S : f[x] <= f[m]
  BY <1>1, <1>2, FiniteGreatest
<1>4. \A x \in S : Rank[m] >= Rank[x]
  BY <1>1, <1>3
<1>5. QED BY <1>4 DEF Greatest

\* peek_request() gives a request of the queue, under either policy.
LEMMA PeekIn ==
  ASSUME NEW q \in Seq(Reqs), q # <<>>, NEW policy
  PROVE  peek_request(policy, q) \in ToSet(q)
<1>1. Head(q) \in ToSet(q) /\ ToSet(q) \in SUBSET Reqs /\ ToSet(q) # {}
  <2>1. 1 \in DOMAIN q /\ Head(q) = q[1]
    OBVIOUS
  <2>2. \A i \in DOMAIN q : q[i] \in Reqs
    OBVIOUS
  <2>3. QED BY <2>1, <2>2 DEF ToSet
<1>2. Least(ToSet(q)) \in ToSet(q)
  BY <1>1, LeastIn
<1>3. QED BY <1>1, <1>2 DEF peek_request

\* Two queues with nothing in common, one behind the other.
LEMMA ConcatFacts ==
  ASSUME NEW A, NEW p \in Seq(A), NEW q \in Seq(A)
  PROVE  /\ p \o q \in Seq(A)
         /\ ToSet(p \o q) = ToSet(p) \cup ToSet(q)
         /\ Distinct(p) /\ Distinct(q) /\ ToSet(p) \cap ToSet(q) = {} => Distinct(p \o q)
<1> DEFINE c == p \o q
           m == Len(p)
           n == Len(q)
<1>1. /\ c \in Seq(A) /\ DOMAIN c = 1 .. m + n /\ m \in Nat /\ n \in Nat
      /\ DOMAIN p = 1 .. m /\ DOMAIN q = 1 .. n
  OBVIOUS
<1>2. \A i \in 1 .. m + n : c[i] = IF i <= m THEN p[i] ELSE q[i - m]
  OBVIOUS
<1>20. \A i \in 1 .. m : i \in 1 .. m + n /\ c[i] = p[i]
  BY <1>1, <1>2
<1>21. \A i \in 1 .. n : i + m \in 1 .. m + n /\ c[i + m] = q[i]
  OBVIOUS
<1>22. \A i \in 1 .. m + n : i \in 1 .. m \/ (i - m \in 1 .. n /\ ~(i <= m) /\ i \in Int)
  BY <1>1
<1> HIDE DEF c, m, n
<1>3. ToSet(c) = ToSet(p) \cup ToSet(q)
  <2>1. ASSUME NEW i \in 1 .. m + n PROVE c[i] \in ToSet(p) \cup ToSet(q)
    <3>1. CASE i \in 1 .. m
      BY <3>1, <1>1, <1>20 DEF ToSet
    <3>2. CASE i - m \in 1 .. n /\ ~(i <= m)
      BY <3>2, <1>1, <1>2 DEF ToSet
    <3>3. QED BY <3>1, <3>2, <1>22
  <2>2. ASSUME NEW i \in 1 .. m PROVE p[i] \in ToSet(c)
    BY <1>1, <1>20 DEF ToSet
  <2>3. ASSUME NEW i \in 1 .. n PROVE q[i] \in ToSet(c)
    BY <1>1, <1>21 DEF ToSet
  <2>4. QED BY <1>1, <2>1, <2>2, <2>3 DEF ToSet
<1>4. ASSUME Distinct(p), Distinct(q), ToSet(p) \cap ToSet(q) = {},
             NEW i \in 1 .. m + n, NEW j \in 1 .. m + n, c[i] = c[j]
      PROVE  i = j
  <2>1. CASE i \in 1 .. m /\ j \in 1 .. m
    BY <2>1, <1>1, <1>4, <1>20 DEF Distinct
  <2>2. CASE i - m \in 1 .. n /\ ~(i <= m) /\ j - m \in 1 .. n /\ ~(j <= m)
    <3>1. i - m = j - m
      BY <2>2, <1>1, <1>2, <1>4 DEF Distinct
    <3>2. QED BY <3>1, <1>1
  <2>3. CASE i \in 1 .. m /\ j - m \in 1 .. n /\ ~(j <= m)
    <3>1. c[i] \in ToSet(p) /\ c[j] \in ToSet(q)
      BY <2>3, <1>1, <1>2, <1>20 DEF ToSet
    <3>2. QED BY <3>1, <1>4
  <2>4. CASE j \in 1 .. m /\ i - m \in 1 .. n /\ ~(i <= m)
    <3>1. c[j] \in ToSet(p) /\ c[i] \in ToSet(q)
      BY <2>4, <1>1, <1>2, <1>20 DEF ToSet
    <3>2. QED BY <3>1, <1>4
  <2>5. QED BY <2>1, <2>2, <2>3, <2>4, <1>22
<1>5. QED BY <1>1, <1>3, <1>4 DEF Distinct, c

\* A queue of one.
LEMMA SingleFacts == ASSUME NEW A, NEW x \in A
                     PROVE  <<x>> \in Seq(A) /\ ToSet(<<x>>) = {x} /\ Distinct(<<x>>)
<1>1. <<x>> \in Seq(A) /\ DOMAIN <<x>> = {1} /\ <<x>>[1] = x
  OBVIOUS
<1>2. QED BY <1>1 DEF ToSet, Distinct

\* The empty queue.
LEMMA EmptyFacts == ASSUME NEW A
                    PROVE  <<>> \in Seq(A) /\ ToSet(<<>>) = {} /\ Distinct(<<>>)
  BY DEF ToSet, Distinct

\* Reversing a queue keeps its elements.
LEMMA ReverseFacts ==
  ASSUME NEW A, NEW q \in Seq(A)
  PROVE  /\ Reverse(q) \in Seq(A)
         /\ ToSet(Reverse(q)) = ToSet(q)
         /\ Distinct(q) => Distinct(Reverse(q))
<1> DEFINE n == Len(q)
           p == Reverse(q)
<1>1. n \in Nat /\ DOMAIN q = 1 .. n /\ \A i \in 1 .. n : q[i] \in A
  OBVIOUS
<1>2. p = [i \in 1 .. n |-> q[(n - i) + 1]]
  BY DEF Reverse
<1> HIDE DEF n, p
<1>3. \A i \in 1 .. n : (n - i) + 1 \in 1 .. n /\ (n - ((n - i) + 1)) + 1 = i
  BY <1>1
<1>4. p \in [1 .. n -> A] /\ DOMAIN p = 1 .. n
  BY <1>1, <1>2, <1>3
<1>5. p \in Seq(A)
  <2>1. Seq(A) = UNION {[1 .. k -> A] : k \in Nat}
    OBVIOUS
  <2>2. QED BY <1>1, <1>4, <2>1
<1>6. \A i \in 1 .. n : p[i] = q[(n - i) + 1]
  BY <1>2
<1>7. \A i \in 1 .. n : q[i] = p[(n - i) + 1]
  BY <1>3, <1>6
<1>8. ToSet(p) = ToSet(q)
  BY <1>1, <1>3, <1>4, <1>6, <1>7 DEF ToSet
<1>9. Distinct(q) => Distinct(p)
  <2>1. ASSUME Distinct(q), NEW i \in 1 .. n, NEW j \in 1 .. n, p[i] = p[j] PROVE i = j
    <3>1. (n - i) + 1 = (n - j) + 1
      BY <2>1, <1>1, <1>3, <1>6 DEF Distinct
    <3>2. QED BY <3>1, <1>1
  <2>2. QED BY <2>1, <1>4 DEF Distinct
<1>10. QED BY <1>5, <1>8, <1>9 DEF p

\* A queue without repetition is as long as it has elements.
LEMMA LenIsCardinality ==
  ASSUME NEW A, NEW q \in Seq(A), Distinct(q)
  PROVE  IsFiniteSet(ToSet(q)) /\ Cardinality(ToSet(q)) = Len(q)
<1> DEFINE n == Len(q)
           T == ToSet(q)
<1>1. n \in Nat /\ DOMAIN q = 1 .. n /\ n \in Int
  OBVIOUS
<1>2. q \in [1 .. n -> T] /\ (\A t \in T : \E i \in 1 .. n : q[i] = t)
  <2>1. q = [i \in 1 .. n |-> q[i]]
    OBVIOUS
  <2>2. QED BY <1>1, <2>1 DEF ToSet
<1>3. q \in Bijection(1 .. n, T)
  BY <1>1, <1>2 DEF Distinct, Bijection, Injection, Surjection, IsInjective
<1>4. ExistsBijection(1 .. n, T)
  BY <1>3 DEF ExistsBijection
<1>5. IsFiniteSet(1 .. n) /\ Cardinality(1 .. n) = n
  <2>1. 1 \in Int
    OBVIOUS
  <2>2. IsFiniteSet(1 .. n) /\ Cardinality(1 .. n) = IF 1 > n THEN 0 ELSE n - 1 + 1
    BY <1>1, <2>1, FS_Interval
  <2>3. QED BY <2>2, <1>1
<1>6. QED BY <1>4, <1>5, FS_Bijection

\* What a sequence weighs, when an element weighs w.
Weight(w, q) == SumFunction([j \in DOMAIN q |-> w[q[j]]])

\* One element more adds its weight.
LEMMA WeightFacts ==
  ASSUME NEW A, NEW w \in [A -> Int], NEW q \in Seq(A)
  PROVE  /\ Weight(w, q) \in Int
         /\ \A x \in A : Weight(w, Append(q, x)) = Weight(w, q) + w[x]
<1> DEFINE n == Len(q)
           f == [j \in DOMAIN q |-> w[q[j]]]
<1>1. n \in Nat /\ DOMAIN q = 1 .. n /\ \A i \in 1 .. n : q[i] \in A
  OBVIOUS
<1>2. f \in [1 .. n -> Int]
  BY <1>1
<1>3. IsFiniteSet(1 .. n)
  BY <1>1, FS_Interval
<1>4. SumFunction(f) \in Int
  <2> HIDE DEF f
  <2>1. QED BY <1>2, <1>3, SumIsInt
<1>5. ASSUME NEW x \in A PROVE Weight(w, Append(q, x)) = Weight(w, q) + w[x]
  <2> DEFINE p == Append(q, x)
             g == [j \in DOMAIN p |-> w[p[j]]]
  <2>1. /\ DOMAIN p = 1 .. n + 1 /\ p[n + 1] = x
        /\ \A i \in 1 .. n : p[i] = q[i] /\ i \in 1 .. n + 1
    OBVIOUS
  <2>2. g \in [1 .. n + 1 -> Int] /\ g[n + 1] = w[x] /\ [i \in 1 .. n |-> g[i]] = f
    <3>1. \A i \in 1 .. n + 1 : p[i] \in A
      <4>1. p \in Seq(A)
        OBVIOUS
      <4> HIDE DEF p
      <4>2. QED BY <2>1, <4>1
    <3> HIDE DEF p
    <3>2. n + 1 \in 1 .. n + 1
      BY <1>1
    <3>3. QED BY <2>1, <3>1, <3>2, <1>1
  <2> HIDE DEF g
  <2>3. g \in [1 .. n + 1 -> Int] /\ n \in Nat
    BY <2>2, <1>1
  <2>4. SumFunction(g) = g[n + 1] + SumFunction([i \in 1 .. n |-> g[i]])
    BY <2>3, SumToNext
  <2>5. SumFunction(g) = w[x] + SumFunction(f)
    BY <2>2, <2>4, Zenon
  <2> HIDE DEF f
  <2>6. SumFunction(g) = SumFunction(f) + w[x]
    BY <2>5, <1>4
  <2>7. QED BY <2>6 DEF Weight, f, g
<1>6. QED BY <1>4, <1>5 DEF Weight

\* The empty queue weighs nothing.
LEMMA WeightOfNothing == ASSUME NEW w PROVE Weight(w, <<>>) = 0
<1> DEFINE f == [j \in DOMAIN <<>> |-> w[<<>>[j]]]
<1>1. f \in [{} -> Int]
  OBVIOUS
<1> HIDE DEF f
<1>2. SumFunction(f) = 0
  BY <1>1, SumOfNothing
<1>3. QED BY <1>2 DEF Weight, f

\* Removing one element removes its weight.
LEMMA WeightRemoved ==
  ASSUME NEW A, NEW w \in [A -> Int], NEW q \in Seq(A), Distinct(q), NEW i \in DOMAIN q
  PROVE  Weight(w, remove_requests(q, {q[i]})) = Weight(w, q) - w[q[i]]
<1> DEFINE n == Len(q)
           S == {q[i]}
           d(k) == IF k < i THEN 0 ELSE w[q[i]]
           first(k) == [j \in 1 .. k |-> w[q[j]]]
<1>0. PICK f : Removing(f, A, q, S)
  BY RemoveSteps
<1>1. /\ f \in [0 .. n -> Seq(A)]
      /\ f[0] = <<>> /\ f[n] = remove_requests(q, S)
      /\ \A k \in 1 .. n : f[k] = IF q[k] \in S THEN f[k - 1] ELSE Append(f[k - 1], q[k])
  BY <1>0 DEF Removing
<1>2. n \in Nat /\ DOMAIN q = 1 .. n /\ i \in 1 .. n /\ \A j \in 1 .. n : q[j] \in A /\ w[q[j]] \in Int
  OBVIOUS
<1> DEFINE Good == {k \in Nat : k <= n => Weight(w, f[k]) = SumFunction(first(k)) - d(k)}
<1>3. 0 \in Good
  <2>1. first(0) \in [{} -> Int]
    OBVIOUS
  <2>2. SumFunction(first(0)) = 0
    <3> HIDE DEF first
    <3>1. QED BY <2>1, SumOfNothing
  <2>3. Weight(w, f[0]) = 0
    BY <1>1, WeightOfNothing
  <2>4. d(0) = 0
    BY <1>2
  <2> HIDE DEF first, d
  <2>5. Weight(w, f[0]) = SumFunction(first(0)) - d(0)
    BY <2>2, <2>3, <2>4
  <2>6. QED BY <2>5
<1>4. ASSUME NEW k \in Nat, k \in Good PROVE k + 1 \in Good
  <2>1. SUFFICES ASSUME k + 1 <= n
                 PROVE  Weight(w, f[k + 1]) = SumFunction(first(k + 1)) - d(k + 1)
    OBVIOUS
  <2>2. k \in 0 .. n /\ k + 1 \in 1 .. n /\ (k + 1) - 1 = k /\ k <= n
    BY <2>1, <1>2
  <2>3. f[k + 1] = IF q[k + 1] = q[i] THEN f[k] ELSE Append(f[k], q[k + 1])
    BY <2>2, <1>1
  <2>4. f[k] \in Seq(A) /\ q[k + 1] \in A /\ w[q[k + 1]] \in Int /\ w[q[i]] \in Int
    BY <2>2, <1>1, <1>2
  <2>5. Weight(w, f[k]) = SumFunction(first(k)) - d(k)
    BY <2>2, <1>4
  <2>6. q[k + 1] = q[i] <=> k + 1 = i
    BY <2>2, <1>2 DEF Distinct
  <2>7. first(k + 1) \in [1 .. k + 1 -> Int] /\ first(k) \in [1 .. k -> Int]
    <3>1. \A j \in 1 .. k + 1 : j \in 1 .. n
      BY <2>2, <1>2
    <3>2. \A j \in 1 .. k : j \in 1 .. n
      BY <2>2, <1>2
    <3>3. QED BY <3>1, <3>2, <1>2
  <2>8. [j \in 1 .. k |-> first(k + 1)[j]] = first(k) /\ first(k + 1)[k + 1] = w[q[k + 1]]
    OBVIOUS
  <2> HIDE DEF first
  <2>9. SumFunction(first(k + 1)) = w[q[k + 1]] + SumFunction(first(k))
    <3>1. first(k + 1) \in [1 .. k + 1 -> Int]
      BY <2>7
    <3>2. SumFunction(first(k + 1))
            = first(k + 1)[k + 1] + SumFunction([j \in 1 .. k |-> first(k + 1)[j]])
      BY <3>1, SumToNext
    <3>3. QED BY <3>2, <2>8, Zenon
  <2>10. SumFunction(first(k)) \in Int
    <3>1. IsFiniteSet(1 .. k)
      BY FS_Interval
    <3>2. first(k) \in [1 .. k -> Int]
      BY <2>7
    <3>3. QED BY <3>1, <3>2, SumIsInt
  <2>11. CASE k + 1 = i
    <3>1. f[k + 1] = f[k]
      BY <2>3, <2>6, <2>11
    <3>2. d(k) = 0 /\ d(k + 1) = w[q[k + 1]]
      BY <2>11, <1>2
    <3> HIDE DEF d
    <3>3. QED BY <3>1, <3>2, <2>4, <2>5, <2>9, <2>10
  <2>12. CASE k + 1 # i
    <3>1. f[k + 1] = Append(f[k], q[k + 1])
      BY <2>3, <2>6, <2>12
    <3>2. Weight(w, f[k + 1]) = Weight(w, f[k]) + w[q[k + 1]]
      BY <3>1, <2>4, WeightFacts
    <3>3. d(k + 1) = d(k) /\ d(k) \in Int
      BY <2>4, <2>12, <1>2
    <3> HIDE DEF d
    <3>4. QED BY <3>2, <3>3, <2>4, <2>5, <2>9, <2>10
  <2>13. QED BY <2>11, <2>12
<1>5. n \in Good
  <2> HIDE DEF Good
  <2>1. \A k \in Nat : k \in Good
    BY <1>3, <1>4, NatInductionSet
  <2>2. QED BY <2>1, <1>2
<1>6. d(n) = w[q[i]]
  <2>1. ~(n < i)
    BY <1>2
  <2>2. QED BY <2>1
<1>7. SumFunction(first(n)) = Weight(w, q)
  BY <1>2 DEF Weight
<1>8. Weight(w, f[n]) = SumFunction(first(n)) - d(n)
  BY <1>2, <1>5
<1> HIDE DEF d, first, Good
<1>9. QED BY <1>1, <1>6, <1>7, <1>8

---------------------------------------------------------------------------
(* Types.                                                                  *)

\* What ConfigsAssumption says of the configuration in use.
LEMMA ConfigFacts ==
  ASSUME config \in Configs
  PROVE  /\ Policy \in Policies
         /\ Depth \in Nat \ {0} /\ TokenBudget \in Nat \ {0} /\ MaxRunning \in Nat \ {0}
         /\ BlockSize \in Nat \ {0} /\ MaxTokens \in Nat \ {0}
         /\ NumBlocks \in Nat /\ NumSpec \in Nat /\ MaxModelLen \in Nat /\ MaxChunks \in Nat
         /\ Aligned \in BOOLEAN /\ UseEagle \in BOOLEAN /\ KvDelivery \in BOOLEAN
         /\ PromptLen \in [Reqs -> 1 .. MaxModelLen - 1]
         /\ Sessions # {} => Depth = 1
  BY ConfigsAssumption DEF Policy, Depth, TokenBudget, MaxRunning, BlockSize, MaxTokens,
       NumBlocks, NumSpec, MaxModelLen, MaxChunks, Aligned, UseEagle, KvDelivery, PromptLen, Sessions

\* FloorToBlock gives a multiple of the block size, less than a block below.
LEMMA Floor ==
  ASSUME config \in Configs, NEW n \in Int
  PROVE  /\ FloorToBlock(n) \in Int
         /\ FloorToBlock(n) <= n /\ n < FloorToBlock(n) + BlockSize
<1>1. BlockSize \in Nat \ {0}
  BY ConfigFacts
<1> HIDE DEF BlockSize
<1>2. n \div BlockSize \in Int
  BY <1>1
<1>3. QED BY <1>1, <1>2 DEF FloorToBlock

AnyRequest ==
  [status : Statuses, num_tokens : Int, num_prompt_tokens : Int,
   num_computed_tokens : Int, num_output_placeholders : Int,
   num_in_flight_tokens : Int, num_stale_output_tokens : Int,
   drop_stale_output : BOOLEAN, num_spec : Int, is_prefill_chunk : BOOLEAN,
   shared_prefix_boundary : Int, streaming_queue : Seq({"chunk", "end"})]

\* Where a chunk may stop: at its end, or at the last block boundary before, or at
\* a mandatory stop inside it.
ChunkStop(q, start, end) ==
  IF /\ end < PrefillEnd(q)
     /\ FloorToBlock(end) > start \/ BlockSize <= TokenBudget
  THEN FloorToBlock(end) ELSE end

StopsAfter(q, start, end) ==
  {ChunkStop(q, start, end)} \cup
  {s \in MandatoryStops(q, start, ChunkStop(q, start, end)) : s > start}

\* The positions a prefill may have to stop at are finitely many integers.
LEMMA StopsFinite ==
  ASSUME config \in Configs, NEW q \in AnyRequest, NEW start \in Int, NEW end \in Int
  PROVE  /\ StopsAfter(q, start, end) \in SUBSET Int
         /\ IsFiniteSet(StopsAfter(q, start, end))
         /\ ChunkStop(q, start, end) \in StopsAfter(q, start, end)
         /\ ChunkStop(q, start, end) \in Int /\ ChunkStop(q, start, end) <= end
<1> DEFINE stop == ChunkStop(q, start, end)
           b == q.shared_prefix_boundary
           A1 == {LastCachePosition(q)}
           A2 == IF start % BlockSize # 0 THEN {FloorToBlock(start) + BlockSize} ELSE {}
           A3 == IF start < b /\ b < stop THEN {start + FloorToBlock(b - start)} ELSE {}
<1>1. BlockSize \in Nat \ {0} /\ b \in Int /\ q.num_tokens \in Int
  BY ConfigFacts DEF AnyRequest
<1>2. /\ FloorToBlock(q.num_tokens) \in Int /\ FloorToBlock(start) \in Int
      /\ FloorToBlock(b - start) \in Int /\ FloorToBlock(end) \in Int /\ FloorToBlock(end) <= end
  BY <1>1, Floor
<1>3. stop \in Int /\ stop <= end
  BY <1>2 DEF ChunkStop
<1> HIDE DEF stop
<1>4. LastCachePosition(q) \in Int
  BY <1>1, <1>2 DEF LastCachePosition, AtLeast
<1>5. MandatoryStops(q, start, stop) = A1 \cup A2 \cup A3
  BY DEF MandatoryStops
<1>6. A1 \in SUBSET Int /\ A2 \in SUBSET Int /\ A3 \in SUBSET Int
  <2>1. FloorToBlock(start) + BlockSize \in Int /\ start + FloorToBlock(b - start) \in Int
    BY <1>1, <1>2
  <2>2. QED BY <2>1, <1>4
<1>7. IsFiniteSet(A1) /\ IsFiniteSet(A2) /\ IsFiniteSet(A3) /\ IsFiniteSet({stop})
  BY FS_Singleton, FS_EmptySet
<1> HIDE DEF A1, A2, A3
<1>8. IsFiniteSet(A1 \cup A2)
  BY <1>7, FS_Union
<1>9. IsFiniteSet((A1 \cup A2) \cup A3)
  BY <1>7, <1>8, FS_Union
<1> DEFINE T == {s \in MandatoryStops(q, start, stop) : s > start}
<1>10. IsFiniteSet(T)
  <2>1. T \in SUBSET ((A1 \cup A2) \cup A3)
    BY <1>5
  <2>2. QED BY <2>1, <1>9, FS_Subset
<1>11. T \in SUBSET Int
  BY <1>5, <1>6
<1> HIDE DEF T
<1>12. IsFiniteSet({stop} \cup T)
  BY <1>7, <1>10, FS_Union
<1>13. StopsAfter(q, start, end) = {stop} \cup T
  BY DEF StopsAfter, stop, T
<1>14. QED BY <1>3, <1>11, <1>12, <1>13 DEF stop

\* A chunk ends where the first of these is.
LEMMA AlignedSplitFacts ==
  ASSUME config \in Configs, NEW q \in AnyRequest, NEW start \in Int, NEW end \in Int
  PROVE  /\ AlignedSplit(q, start, end) \in Int
         /\ AlignedSplit(q, start, end) <= AtLeast(end - start, 0)
         /\ start < PrefillEnd(q) /\ AlignedSplit(q, start, end) > 0 =>
              \A s \in StopsAfter(q, start, end) : start + AlignedSplit(q, start, end) <= s
         /\ start < PrefillEnd(q) /\ AlignedSplit(q, start, end) > 0 =>
              start + AlignedSplit(q, start, end) \in StopsAfter(q, start, end)
<1> DEFINE C == StopsAfter(q, start, end)
           stop == ChunkStop(q, start, end)
<1>1. C \in SUBSET Int /\ stop \in C /\ stop <= end
  BY StopsFinite
<1>2. IsFiniteSet(C) /\ C # {}
  BY StopsFinite
<1>3. PrefillEnd(q) \in Int
  BY DEF AnyRequest, PrefillEnd, AtLeast
<1>4. AlignedSplit(q, start, end) = IF start >= PrefillEnd(q) THEN end - start
                                    ELSE Max({0, Min(C) - start})
  BY DEF AlignedSplit, StopsAfter, ChunkStop
<1> HIDE DEF C, stop
<1>5. Min(C) \in C /\ \A x \in C : Min(C) <= x
  BY <1>1, <1>2, MinOfInts
<1>6. ASSUME NEW m \in Int PROVE Max({0, m}) = IF m < 0 THEN 0 ELSE m
  <2>1. {0, m} \in SUBSET Int /\ {0, m} # {} /\ {0, m} = {0} \cup {m}
    OBVIOUS
  <2>20. IsFiniteSet({0}) /\ IsFiniteSet({m})
    BY FS_Singleton
  <2>21. IsFiniteSet({0} \cup {m})
    BY <2>20, FS_Union
  <2>2. IsFiniteSet({0, m})
    BY <2>1, <2>21
  <2>3. Max({0, m}) \in {0, m} /\ \A x \in {0, m} : x <= Max({0, m})
    BY <2>1, <2>2, MaxOfInts
  <2>4. QED BY <2>3
<1>7. Min(C) \in Int /\ Min(C) <= end
  <2>1. Min(C) \in Int /\ stop \in Int /\ Min(C) <= stop /\ stop <= end
    BY <1>1, <1>5
  <2>2. QED BY <2>1
<1>8. Max({0, Min(C) - start}) = IF Min(C) - start < 0 THEN 0 ELSE Min(C) - start
  <2>1. Min(C) - start \in Int
    BY <1>7
  <2>2. QED BY <2>1, <1>6
<1>9. QED BY <1>1, <1>3, <1>4, <1>5, <1>7, <1>8 DEF AtLeast, C

\* Min of one.
LEMMA MinOfOne == ASSUME NEW x \in Int PROVE Min({x}) = x
<1>1. {x} \in SUBSET Int /\ IsFiniteSet({x}) /\ {x} # {}
  BY FS_Singleton
<1>2. Min({x}) \in {x}
  BY <1>1, MinOfInts
<1>3. QED BY <1>2

\* A split is an integer, and never gives more tokens than were asked for.
LEMMA SplitFacts ==
  ASSUME config \in Configs, NEW q \in AnyRequest, NEW start \in Int, NEW n \in Int
  PROVE  /\ Split(q, start, n) \in Int
         /\ Split(q, start, n) <= AtLeast(n, 0)
         /\ Aligned => Split(q, start, n) = AlignedSplit(q, start, start + n)
<1>1. Aligned => Split(q, start, n) = Min({AlignedSplit(q, start, start + n)})
  <2>1. {AlignedSplit(q, start, end) : end \in {start + n}} = {AlignedSplit(q, start, start + n)}
    OBVIOUS
  <2>2. QED BY <2>1 DEF Split
<1>2. start + n \in Int
  OBVIOUS
<1>3. /\ AlignedSplit(q, start, start + n) \in Int
      /\ AlignedSplit(q, start, start + n) <= AtLeast((start + n) - start, 0)
  BY <1>2, AlignedSplitFacts
<1>4. Aligned => Split(q, start, n) = AlignedSplit(q, start, start + n)
  BY <1>1, <1>3, MinOfOne
<1>5. ~Aligned => Split(q, start, n) = n
  BY DEF Split
<1>6. (start + n) - start = n
  OBVIOUS
<1>7. QED BY <1>3, <1>4, <1>5, <1>6 DEF AtLeast

\* Min of three.
LEMMA MinOfThree ==
  ASSUME NEW a \in Int, NEW b \in Int, NEW c \in Int
  PROVE  Min({a, b, c}) \in Int /\ Min({a, b, c}) <= a /\ Min({a, b, c}) <= b /\ Min({a, b, c}) <= c
<1> DEFINE T == {a, b, c}
<1>1. IsFiniteSet({a}) /\ IsFiniteSet({b}) /\ IsFiniteSet({c})
  BY FS_Singleton
<1>2. IsFiniteSet({a} \cup {b})
  BY <1>1, FS_Union
<1>3. IsFiniteSet(({a} \cup {b}) \cup {c})
  BY <1>1, <1>2, FS_Union
<1>4. T = ({a} \cup {b}) \cup {c} /\ T \in SUBSET Int /\ T # {}
  OBVIOUS
<1>5. Min(T) \in T /\ \A x \in T : Min(T) <= x
  <2>1. IsFiniteSet(T)
    BY <1>3, <1>4
  <2>2. T \in SUBSET Int /\ T # {}
    BY <1>4
  <2> HIDE DEF T
  <2>3. QED BY <2>1, <2>2, MinOfInts
<1>6. a \in T /\ b \in T /\ c \in T
  OBVIOUS
<1>7. QED BY <1>4, <1>5, <1>6

BatchEntry == [req : Reqs, n : Int, new : BOOLEAN, drafts : Int, padded : BOOLEAN]

StepEntry == [req : Reqs, n : Int, drafts : Int, padded : BOOLEAN, samples : BOOLEAN,
              prefix : Int]

Locals == [idx : Nat \ {0}, token_budget : Int, want : Int, batch : Seq(BatchEntry),
           preempted : BOOLEAN, prefill_scheduled : BOOLEAN, step_skipped : Seq(Reqs)]

Typed ==
  /\ config \in Configs
  /\ pc \in {"idle", "running", "waiting", "commit", "output"}
  /\ request \in [Reqs -> AnyRequest]
  /\ held \in [Reqs -> Int]
  /\ waiting \in Seq(Reqs) /\ skipped_waiting \in Seq(Reqs) /\ running \in Seq(Reqs)
  /\ finished_req_ids \in SUBSET Reqs /\ reset_preempted_req_ids \in SUBSET Reqs
  /\ num_waiting_for_streaming_input \in Int
  /\ grammar_compile_error_reqs \in SUBSET Reqs
  /\ pause_state \in {"UNPAUSED", "PAUSED_NEW", "PAUSED_ALL"}
  /\ inflight \in Seq(Seq(StepEntry))
  /\ slots \in SUBSET Reqs /\ sampled \in [Reqs -> Int]
  /\ loc \in Locals
  /\ todo \in Seq(StepEntry)
  /\ stopped \in [running : SUBSET Reqs, preempted : SUBSET Reqs]

\* A request that is new, or gone, is a request.
LEMMA NewRequestTyped ==
  ASSUME config \in Configs, NEW r \in Reqs
  PROVE  NewRequest(r) \in AnyRequest /\ Gone(r) \in AnyRequest
<1>1. PromptLen[r] \in Int
  BY ConfigFacts
<1>2. <<>> \in Seq({"chunk", "end"})
  OBVIOUS
<1>3. NewRequest(r) \in AnyRequest
  BY <1>1, <1>2 DEF NewRequest, AnyRequest, Statuses, Blocked
<1>4. QED BY <1>3 DEF Gone, AnyRequest, Statuses

\* The locals between two calls of schedule().
LEMMA IdleTyped == Idle \in Locals
<1>1. <<>> \in Seq(BatchEntry) /\ <<>> \in Seq(Reqs)
  OBVIOUS
<1>2. QED BY <1>1 DEF Idle, Locals

\* The first state is typed.
LEMMA TypedInit == ASSUME Init PROVE Typed
<1> USE DEF Init
<1>1. request \in [Reqs -> AnyRequest]
  BY NewRequestTyped
<1>2. loc \in Locals
  BY IdleTyped
<1>3. <<>> \in Seq(Reqs) /\ <<>> \in Seq(StepEntry) /\ <<>> \in Seq(Seq(StepEntry))
  OBVIOUS
<1>4. QED BY <1>1, <1>2, <1>3 DEF Typed, NobodyStopped

\* The request whose turn it is, and the tokens it may get.
LEMMA RunningTurnFacts ==
  ASSUME Typed, RunningTurn
  PROVE  /\ loc.idx \in DOMAIN running
         /\ running[loc.idx] \in Reqs
         /\ request[running[loc.idx]] \in AnyRequest
         /\ running # <<>>
<1>1. /\ running \in Seq(Reqs) /\ loc.idx \in Nat \ {0} /\ loc.idx <= Len(running)
      /\ request \in [Reqs -> AnyRequest]
  BY DEF Typed, RunningTurn, Locals
<1>2. loc.idx \in DOMAIN running
  BY <1>1
<1>3. running[loc.idx] \in Reqs
  BY <1>1, <1>2
<1>4. QED BY <1>1, <1>2, <1>3

\* What is asked for a running request is within the budget.
LEMMA NumNewTokensFacts ==
  ASSUME Typed, NEW q \in AnyRequest
  PROVE  /\ NumNewTokens(q) \in Int
         /\ 0 <= loc.want /\ loc.want <= loc.token_budget /\ 0 <= loc.token_budget =>
              0 <= NumNewTokens(q) /\ NumNewTokens(q) <= loc.token_budget
         /\ loc.want <= 0 => NumNewTokens(q) >= 0
         /\ NumNewTokens(q) > 0 /\ loc.want <= 0 =>
              \E m \in Int : NumNewTokens(q) = Split(q, q.num_computed_tokens, m)
<1> DEFINE a == q.num_tokens + q.num_spec + q.num_output_placeholders - q.num_computed_tokens
           b == loc.token_budget
           c == MaxModelLen - q.num_computed_tokens - 1
           start == q.num_computed_tokens
           m == Min({a, b, c})
           p == Split(q, start, m)
<1>0. config \in Configs /\ loc.want \in Int
  BY DEF Typed, Locals
<1>1. a \in Int /\ b \in Int /\ c \in Int /\ start \in Int
  <2>1. MaxModelLen \in Int /\ b \in Int
    BY ConfigFacts, <1>0 DEF Typed, Locals
  <2> HIDE DEF MaxModelLen, b
  <2>2. QED BY <2>1 DEF AnyRequest
<1>2. NumNewTokens(q) = IF loc.want > 0 THEN loc.want ELSE AtLeast(p, 0)
  BY DEF NumNewTokens
<1> HIDE DEF a, b, c, start
<1>3. m \in Int /\ m <= b
  BY <1>1, MinOfThree
<1> HIDE DEF m
<1>4. p \in Int /\ p <= AtLeast(m, 0)
  BY <1>0, <1>1, <1>3, SplitFacts
<1> HIDE DEF p
<1>5. NumNewTokens(q) \in Int
  BY <1>0, <1>2, <1>4 DEF AtLeast
<1>6. ASSUME 0 <= loc.want, loc.want <= b, 0 <= b
      PROVE  0 <= NumNewTokens(q) /\ NumNewTokens(q) <= b
  BY <1>0, <1>1, <1>2, <1>3, <1>4, <1>6 DEF AtLeast
<1>7. ASSUME NumNewTokens(q) > 0, loc.want <= 0 PROVE NumNewTokens(q) = p
  BY <1>0, <1>2, <1>4, <1>7 DEF AtLeast
<1>8. loc.want <= 0 => NumNewTokens(q) >= 0
  BY <1>0, <1>2, <1>4 DEF AtLeast
<1>9. QED BY <1>3, <1>5, <1>6, <1>7, <1>8 DEF p, b, start

\* A table's size is an integer, and no less than it was.
LEMMA TableSizeFacts ==
  ASSUME Typed, NEW r \in Reqs, NEW computed \in Int, NEW n \in Int
  PROVE  /\ TableSize(r, computed, n) \in Int
         /\ TableSize(r, computed, n) >= held[r]
         /\ TableSize(r, computed, n) >= BlocksFor(computed + n + NumSpec)
         /\ BlocksFor(n) \in Int
<1>1. BlockSize \in Nat \ {0} /\ MaxModelLen \in Nat /\ NumSpec \in Nat /\ held[r] \in Int
  BY ConfigFacts DEF Typed
<1> HIDE DEF BlockSize, MaxModelLen, NumSpec
<1>2. \A k \in Int : BlocksFor(k) \in Int
  BY <1>1 DEF BlocksFor, AtMost
<1>3. computed + n + NumSpec \in Int
  BY <1>1
<1>4. BlocksFor(computed + n + NumSpec) \in Int
  BY <1>2, <1>3
<1>5. QED BY <1>1, <1>2, <1>4 DEF TableSize, AtLeast

\* schedule() starts on typed locals.
LEMMA TypedBegin == ASSUME Typed, BeginSchedule PROVE Typed'
<1>1. loc' \in Locals
  <2>1. TokenBudget \in Int
    BY ConfigFacts DEF Typed
  <2>2. QED BY <2>1, IdleTyped DEF BeginSchedule, Locals
<1>2. QED BY <1>1 DEF Typed, BeginSchedule, queues, notices, env, worker, output

\* A running request that is skipped leaves the state typed.
LEMMA TypedSkipRunning == ASSUME Typed, SkipRunning PROVE Typed'
<1>1. loc' \in Locals
  <2>1. loc.idx + 1 \in Nat \ {0} /\ loc \in Locals
    BY DEF Typed, Locals
  <2>2. loc' = [loc EXCEPT !.idx = @ + 1]
    BY Zenon DEF SkipRunning
  <2>3. QED BY <2>1, <2>2, Zenon DEF Locals
<1>2. QED BY <1>1 DEF Typed, SkipRunning, queues, notices, env, worker, output

\* A running request that gets an entry leaves the state typed.
LEMMA TypedScheduleRunning == ASSUME Typed, ScheduleRunning PROVE Typed'
<1> DEFINE r == running[loc.idx]
           q == request[r]
           n == NumNewTokens(q)
           e == [req |-> r, n |-> n, new |-> FALSE, drafts |-> NumDrafts(q, n), padded |-> FALSE]
<1>1. r \in Reqs /\ q \in AnyRequest
  BY RunningTurnFacts DEF ScheduleRunning
<1>2. n \in Int
  BY <1>1, NumNewTokensFacts
<1>3. q.num_computed_tokens \in Int /\ q.is_prefill_chunk \in BOOLEAN
  BY <1>1 DEF AnyRequest
<1>4. TableSize(r, q.num_computed_tokens, n) \in Int
  BY <1>1, <1>2, <1>3, TableSizeFacts
<1>5. /\ held' = [held EXCEPT ![r] = TableSize(r, q.num_computed_tokens, n)]
      /\ request' = [request EXCEPT ![r].num_spec = 0]
      /\ loc' = [loc EXCEPT !.idx = @ + 1, !.want = 0, !.token_budget = @ - n,
                            !.prefill_scheduled = @ \/ q.is_prefill_chunk,
                            !.batch = Append(@, e)]
  BY Zenon DEF ScheduleRunning
<1>6. e \in BatchEntry
  <2> DEFINE m == n + q.num_computed_tokens - q.num_tokens - q.num_output_placeholders
  <2>3. /\ q.num_computed_tokens \in Int /\ q.num_tokens \in Int /\ q.num_spec \in Int
        /\ q.num_output_placeholders \in Int
    BY <1>1 DEF AnyRequest
  <2>4. m \in Int
    BY <2>3, <1>2
  <2>5. NumDrafts(q, n) = AtMost(q.num_spec, AtLeast(m, 0))
    BY DEF NumDrafts
  <2> HIDE DEF m, n
  <2>1. NumDrafts(q, n) \in Int
    BY <2>3, <2>4, <2>5 DEF AtMost, AtLeast
  <2>2. QED BY <2>1, <1>1, <1>2 DEF BatchEntry
<1> HIDE DEF e, n
<1>7. loc' \in Locals
  <2>1. /\ loc \in Locals /\ loc.idx + 1 \in Nat \ {0} /\ loc.token_budget - n \in Int
        /\ loc.prefill_scheduled \in BOOLEAN /\ loc.batch \in Seq(BatchEntry)
    <3>1. loc \in Locals
      BY DEF Typed
    <3>2. QED BY <3>1, <1>2 DEF Locals
  <2>2. Append(loc.batch, e) \in Seq(BatchEntry)
    BY <2>1, <1>6
  <2>3. (loc.prefill_scheduled \/ q.is_prefill_chunk) \in BOOLEAN /\ 0 \in Int
    BY <2>1, <1>3
  <2>4. QED BY <2>1, <2>2, <2>3, <1>5, Zenon DEF Locals
<1>8. held' \in [Reqs -> Int]
  BY <1>4, <1>5 DEF Typed
<1>9. request' \in [Reqs -> AnyRequest]
  <2>1. [q EXCEPT !.num_spec = 0] \in AnyRequest
    <3>1. 0 \in Int
      OBVIOUS
    <3>2. QED BY <1>1, <3>1, Zenon DEF AnyRequest
  <2>2. request' = [request EXCEPT ![r] = [q EXCEPT !.num_spec = 0]]
    BY <1>5
  <2> HIDE DEF q
  <2>3. QED BY <2>1, <2>2 DEF Typed
<1>10. QED BY <1>7, <1>8, <1>9
           DEF Typed, ScheduleRunning, queues, notices, env, worker, output

\* A preempted request is a request.
LEMMA PreemptedTyped ==
  ASSUME NEW q \in AnyRequest, NEW drop \in BOOLEAN
  PROVE  Preempted(q, drop) \in AnyRequest
<1>1. /\ 0 \in Int /\ "PREEMPTED" \in Statuses /\ q.num_in_flight_tokens \in Int
      /\ (drop \/ (q.drop_stale_output /\ q.num_stale_output_tokens > 0)) \in BOOLEAN
  BY DEF AnyRequest, Statuses
<1>2. QED BY <1>1, Zenon DEF Preempted, AnyRequest

\* The victim: the last running request, or the one of lowest priority.
LEMMA VictimFacts ==
  ASSUME running \in Seq(Reqs), running # <<>>
  PROVE  /\ Last(running) \in ToSet(running)
         /\ Greatest(ToSet(running)) \in ToSet(running)
         /\ ToSet(running) \in SUBSET Reqs
<1>1. \A i \in DOMAIN running : running[i] \in Reqs
  OBVIOUS
<1>2. ToSet(running) \in SUBSET Reqs
  BY <1>1 DEF ToSet
<1>3. Last(running) \in ToSet(running)
  <2>1. Len(running) \in DOMAIN running
    OBVIOUS
  <2>2. QED BY <2>1 DEF ToSet, Last
<1>4. Greatest(ToSet(running)) \in ToSet(running)
  BY <1>2, <1>3, GreatestIn
<1>5. QED BY <1>2, <1>3, <1>4

\* Where a request is in a queue.
Place(q, v) == SelectInSeq(q, LAMBDA s : s = v)

\* A request of a queue has a place in it.
LEMMA PlaceOf ==
  ASSUME NEW A, NEW q \in Seq(A), NEW v \in ToSet(q)
  PROVE  Place(q, v) \in DOMAIN q /\ Place(q, v) \in Nat /\ q[Place(q, v)] = v
<1> DEFINE I == {j \in 1 .. Len(q) : q[j] = v}
<1>1. DOMAIN q = 1 .. Len(q) /\ Len(q) \in Nat
  OBVIOUS
<1>2. I # {}
  BY <1>1 DEF ToSet
<1>3. I \in SUBSET Int
  OBVIOUS
<1>4. IsFiniteSet(I)
  <2>1. IsFiniteSet(1 .. Len(q))
    BY <1>1, FS_Interval
  <2>2. I \in SUBSET (1 .. Len(q))
    OBVIOUS
  <2> HIDE DEF I
  <2>3. QED BY <2>1, <2>2, FS_Subset
<1>5. Place(q, v) = IF I # {} THEN Min(I) ELSE 0
  BY DEF SelectInSeq, Place
<1>6. Min(I) \in I
  <2> HIDE DEF I
  <2>1. QED BY <1>2, <1>3, <1>4, MinOfInts
<1>7. QED BY <1>1, <1>2, <1>5, <1>6

\* What a step loses with its victim.
Restored(v) == {j \in DOMAIN loc.batch : loc.batch[j].req = v}
RestoredTokens(v) == SumFunction([j \in Restored(v) |-> loc.batch[j].n])
BatchWithout(v) == remove_requests(loc.batch, {loc.batch[j] : j \in Restored(v)})
IndexWithout(v) == IF Place(running, v) < loc.idx THEN loc.idx - 1 ELSE loc.idx

\* What is left of the step under construction without the victim: its entries
\* go, their tokens return to the budget, and the index follows the list.
LEMMA WithoutVictimFacts ==
  ASSUME Typed, NEW v \in ToSet(running)
  PROVE  /\ WithoutVictim(v) = [loc EXCEPT !.idx = IndexWithout(v),
                                  !.token_budget = loc.token_budget + RestoredTokens(v),
                                  !.batch = BatchWithout(v), !.preempted = TRUE]
         /\ IndexWithout(v) \in Nat \ {0}
         /\ RestoredTokens(v) \in Int
         /\ BatchWithout(v) \in Seq(BatchEntry)
         /\ WithoutVictim(v) \in Locals
<1> DEFINE i == Place(running, v)
<1>1. WithoutVictim(v) = [loc EXCEPT !.idx = IndexWithout(v),
                                  !.token_budget = loc.token_budget + RestoredTokens(v),
                                  !.batch = BatchWithout(v), !.preempted = TRUE]
  BY Zenon DEF WithoutVictim, IndexWithout, Place, RestoredTokens, BatchWithout, Restored
<1>2. i \in Nat /\ i \in DOMAIN running
  <2>1. running \in Seq(Reqs)
    BY DEF Typed
  <2>2. QED BY <2>1, PlaceOf
<1>3. IndexWithout(v) = IF i < loc.idx THEN loc.idx - 1 ELSE loc.idx
  BY DEF IndexWithout
<1> HIDE DEF i
<1>4. loc \in Locals /\ loc.idx \in Nat \ {0} /\ loc.token_budget \in Int
      /\ loc.batch \in Seq(BatchEntry) /\ running \in Seq(Reqs)
  BY DEF Typed, Locals
<1>5. IndexWithout(v) \in Nat \ {0}
  BY <1>2, <1>3, <1>4
<1>6. RestoredTokens(v) \in Int
  <2> DEFINE D == Restored(v)
             f == [j \in D |-> loc.batch[j].n]
  <2>1. D \in SUBSET (1 .. Len(loc.batch)) /\ Len(loc.batch) \in Nat
    BY <1>4 DEF Restored
  <2>2. IsFiniteSet(1 .. Len(loc.batch))
    BY <2>1, FS_Interval
  <2>3. \A j \in D : loc.batch[j].n \in Int
    <3>1. \A j \in D : loc.batch[j] \in BatchEntry
      BY <1>4, <2>1
    <3>2. QED BY <3>1 DEF BatchEntry
  <2>30. f \in [D -> Int]
    BY <2>3
  <2> HIDE DEF D, f
  <2>4. IsFiniteSet(D)
    BY <2>1, <2>2, FS_Subset
  <2>5. SumFunction(f) \in Int
    BY <2>30, <2>4, SumIsInt
  <2>6. QED BY <2>5 DEF RestoredTokens, D, f
<1>7. BatchWithout(v) \in Seq(BatchEntry)
  BY <1>4, RemoveFacts DEF BatchWithout
<1>8. WithoutVictim(v) \in Locals
  <2>1. loc.token_budget + RestoredTokens(v) \in Int /\ TRUE \in BOOLEAN
    BY <1>4, <1>6
  <2>2. QED BY <2>1, <1>1, <1>4, <1>5, <1>7, Zenon DEF Locals
<1>9. QED BY <1>1, <1>5, <1>6, <1>7, <1>8

Victim == IF Policy = "priority" THEN Greatest(ToSet(running)) ELSE Last(running)

\* A preemption, in terms of its victim.
LEMMA PreemptFacts ==
  ASSUME Typed, PreemptForRunning
  PROVE  LET r == running[loc.idx]
             n == NumNewTokens(request[r])
         IN  /\ Victim \in ToSet(running) /\ Victim \in Reqs /\ request[Victim] \in AnyRequest
             /\ ~LengthIsSure(request[r]) /\ n # 0
             /\ ~Fits(r, request[r].num_computed_tokens, n)
             /\ running' = remove_requests(running, {Victim})
             /\ waiting' = <<Victim>> \o waiting
             /\ request' = [request EXCEPT ![Victim] = Preempted(request[Victim], KvDelivery)]
             /\ held' = [held EXCEPT ![Victim] = 0]
             /\ reset_preempted_req_ids' = reset_preempted_req_ids \cup {Victim}
             /\ loc' = [WithoutVictim(Victim) EXCEPT !.want = IF Victim = r THEN 0 ELSE n]
             /\ pc' = IF Victim = r THEN "commit" ELSE "running"
<1>1. running \in Seq(Reqs) /\ running # <<>>
  BY RunningTurnFacts DEF PreemptForRunning, Typed
<1>2. Victim \in ToSet(running) /\ ToSet(running) \in SUBSET Reqs
  BY <1>1, VictimFacts DEF Victim
<1>3. request[Victim] \in AnyRequest
  BY <1>2 DEF Typed
<1>4. QED BY <1>2, <1>3, Zenon DEF PreemptForRunning, Victim, prepend_request, RunningTurn

\* A preemption leaves the state typed.
LEMMA TypedPreemptForRunning == ASSUME Typed, PreemptForRunning PROVE Typed'
<1> DEFINE r == running[loc.idx]
           n == NumNewTokens(request[r])
           v == Victim
<1>1. r \in Reqs /\ request[r] \in AnyRequest
  BY RunningTurnFacts DEF PreemptForRunning
<1>2. n \in Int
  BY <1>1, NumNewTokensFacts
<1>3. /\ v \in ToSet(running) /\ v \in Reqs /\ request[v] \in AnyRequest
      /\ running' = remove_requests(running, {v})
      /\ waiting' = <<v>> \o waiting
      /\ request' = [request EXCEPT ![v] = Preempted(request[v], KvDelivery)]
      /\ held' = [held EXCEPT ![v] = 0]
      /\ reset_preempted_req_ids' = reset_preempted_req_ids \cup {v}
      /\ loc' = [WithoutVictim(v) EXCEPT !.want = IF v = r THEN 0 ELSE n]
      /\ pc' = IF v = r THEN "commit" ELSE "running"
  BY PreemptFacts
<1> HIDE DEF n, v
<1>4. WithoutVictim(v) \in Locals
  BY <1>3, WithoutVictimFacts
<1>5. loc' \in Locals
  <2>1. (IF v = r THEN 0 ELSE n) \in Int
    BY <1>2
  <2>2. QED BY <2>1, <1>3, <1>4, Zenon DEF Locals
<1>6. request' \in [Reqs -> AnyRequest]
  <2>1. KvDelivery \in BOOLEAN
    BY ConfigFacts DEF Typed
  <2>2. Preempted(request[v], KvDelivery) \in AnyRequest
    BY <1>3, <2>1, PreemptedTyped
  <2>3. QED BY <1>3, <2>2 DEF Typed
<1>7. running' \in Seq(Reqs)
  BY <1>3, RemoveFacts DEF Typed
<1>8. waiting' \in Seq(Reqs)
  BY <1>3 DEF Typed
<1>9. held' \in [Reqs -> Int]
  BY <1>3 DEF Typed
<1>10. pc' \in {"idle", "running", "waiting", "commit", "output"}
  BY <1>3
<1>11. reset_preempted_req_ids' \in SUBSET Reqs
  BY <1>3 DEF Typed
<1>12. QED BY <1>5, <1>6, <1>7, <1>8, <1>9, <1>10, <1>11
           DEF Typed, PreemptForRunning, env, worker, output

\* The loop over running requests ends in a typed state.
LEMMA TypedEndRunning == ASSUME Typed, EndRunning PROVE Typed'
  BY DEF Typed, EndRunning, queues, notices, env, worker, output

\* The queue a waiting request is taken from holds it.
CandidateQueue == IF FromSkipped THEN skipped_waiting ELSE waiting

\* The candidate is in the queue it is looked for in.
LEMMA CandidateFacts ==
  ASSUME Typed, WaitingTurn
  PROVE  /\ Candidate \in ToSet(CandidateQueue) /\ Candidate \in Reqs
         /\ request[Candidate] \in AnyRequest
<1>1. CandidateQueue \in Seq(Reqs) /\ CandidateQueue # <<>>
  BY DEF CandidateQueue, FromSkipped, WaitingTurn, IsEmpty, Typed
<1>2. Candidate = peek_request(Policy, CandidateQueue)
  BY DEF Candidate, CandidateQueue
<1> HIDE DEF CandidateQueue
<1>3. Candidate \in ToSet(CandidateQueue)
  BY <1>1, <1>2, PeekIn
<1>4. Candidate \in Reqs
  <2>1. \A i \in DOMAIN CandidateQueue : CandidateQueue[i] \in Reqs
    BY <1>1
  <2>2. QED BY <2>1, <1>3 DEF ToSet
<1>5. QED BY <1>3, <1>4 DEF Typed

\* Without their candidate the waiting queues are queues of requests.
LEMMA PopFacts ==
  ASSUME Typed, WaitingTurn, PopCandidate
  PROVE  /\ waiting' \in Seq(Reqs) /\ skipped_waiting' \in Seq(Reqs)
         /\ waiting' = IF FromSkipped THEN waiting ELSE remove_requests(waiting, {Candidate})
         /\ skipped_waiting' = IF FromSkipped THEN remove_requests(skipped_waiting, {Candidate})
                               ELSE skipped_waiting
<1>1. waiting \in Seq(Reqs) /\ skipped_waiting \in Seq(Reqs)
  BY DEF Typed
<1>2. remove_requests(waiting, {Candidate}) \in Seq(Reqs)
  BY <1>1, RemoveFacts
<1>3. remove_requests(skipped_waiting, {Candidate}) \in Seq(Reqs)
  BY <1>1, RemoveFacts
<1>4. waiting' = IF FromSkipped THEN waiting ELSE remove_requests(waiting, {Candidate})
  BY Zenon DEF PopCandidate, Candidate, pop_request
<1>5. skipped_waiting' = IF FromSkipped THEN remove_requests(skipped_waiting, {Candidate})
                               ELSE skipped_waiting
  BY Zenon DEF PopCandidate, Candidate, pop_request
<1>6. QED BY <1>1, <1>2, <1>3, <1>4, <1>5

\* A promotion changes nothing but the status, and that only once the grammar
\* is there.
LEMMA PromotedFacts ==
  ASSUME Typed, NEW r \in Reqs
  PROVE  /\ Promoted(r) \in AnyRequest
         /\ Promoted(r) = [request[r] EXCEPT !.status = Promoted(r).status]
         /\ \/ Promoted(r).status = request[r].status
            \/ /\ request[r].status = "WAITING_FOR_STRUCTURED_OUTPUT_GRAMMAR"
               /\ Promoted(r).status = "WAITING"
<1>1. request[r] \in AnyRequest
  BY DEF Typed
<1>2. CASE request[r].status = "WAITING_FOR_STRUCTURED_OUTPUT_GRAMMAR" /\ grammar[r] = "ready"
  <2>1. Promoted(r) = [request[r] EXCEPT !.status = "WAITING"]
    BY <1>2 DEF Promoted
  <2>2. "WAITING" \in Statuses
    BY DEF Statuses
  <2>3. [request[r] EXCEPT !.status = "WAITING"] \in AnyRequest
    BY <1>1, <2>2, Zenon DEF AnyRequest
  <2>4. [request[r] EXCEPT !.status = "WAITING"].status = "WAITING"
    BY <1>1, Zenon DEF AnyRequest
  <2>5. QED BY <1>2, <2>1, <2>3, <2>4
<1>3. CASE ~(request[r].status = "WAITING_FOR_STRUCTURED_OUTPUT_GRAMMAR" /\ grammar[r] = "ready")
  <2>1. Promoted(r) = request[r]
    BY <1>3 DEF Promoted
  <2>2. request[r] = [request[r] EXCEPT !.status = request[r].status]
    BY <1>1, Zenon DEF AnyRequest
  <2>3. QED BY <1>1, <2>1, <2>2
<1>4. QED BY <1>2, <1>3

\* The prefix cache never holds all the tokens of a request.
LEMMA CacheHitsFacts ==
  ASSUME config \in Configs, NEW q \in AnyRequest, NEW hit \in CacheHits(q)
  PROVE  hit \in Int /\ (q.num_tokens > 0 => 0 <= hit /\ hit < q.num_tokens)
                    /\ (hit = 0 \/ hit < q.num_tokens)
<1>1. q.num_tokens - 1 \in Int /\ q.num_tokens \in Int
  BY DEF AnyRequest
<1>2. FloorToBlock(q.num_tokens - 1) \in Int /\ FloorToBlock(q.num_tokens - 1) <= q.num_tokens - 1
  BY <1>1, Floor
<1>3. q.num_tokens > 0 => 0 <= FloorToBlock(q.num_tokens - 1)
  <2>1. BlockSize \in Nat \ {0}
    BY ConfigFacts
  <2> HIDE DEF BlockSize
  <2>2. q.num_tokens > 0 => (q.num_tokens - 1) \div BlockSize \in Nat
    BY <2>1, <1>1
  <2>3. q.num_tokens > 0 => ((q.num_tokens - 1) \div BlockSize) * BlockSize \in Nat
    BY <2>1, <2>2
  <2>4. QED BY <2>3 DEF FloorToBlock
<1>4. hit = 0 \/ hit = FloorToBlock(q.num_tokens - 1)
  BY DEF CacheHits, FloorToBlock
<1>5. QED BY <1>1, <1>2, <1>3, <1>4

\* What a lookup leaves of a candidate.
LEMMA LookupFacts ==
  ASSUME config \in Configs, NEW q \in AnyRequest, NEW found \in Lookups(q)
  PROVE  /\ found.q \in AnyRequest /\ found.computed \in Int
         /\ found.q = [q EXCEPT !.shared_prefix_boundary = found.q.shared_prefix_boundary]
         /\ \/ q.num_computed_tokens > 0 /\ found.q = q /\ found.computed = q.num_computed_tokens
            \/ ~(q.num_computed_tokens > 0) /\ found.computed \in CacheHits(q)
<1>1. CASE q.num_computed_tokens > 0
  <2>1. found = [q |-> q, computed |-> q.num_computed_tokens]
    BY <1>1 DEF Lookups
  <2>2. q.num_computed_tokens \in Int
    BY DEF AnyRequest
  <2>3. q = [q EXCEPT !.shared_prefix_boundary = q.shared_prefix_boundary]
    BY Zenon DEF AnyRequest
  <2>4. QED BY <2>1, <2>2, <2>3, <1>1
<1>2. CASE ~(q.num_computed_tokens > 0)
  <2>1. PICK hit \in CacheHits(q) : \E junction \in Junctions(q, hit) :
          found = [q |-> [q EXCEPT !.shared_prefix_boundary = junction], computed |-> hit]
    BY <1>2 DEF Lookups
  <2>2. PICK junction \in Junctions(q, hit) :
          found = [q |-> [q EXCEPT !.shared_prefix_boundary = junction], computed |-> hit]
    BY <2>1
  <2>3. hit \in Int
    BY CacheHitsFacts
  <2>4. junction \in Int
    BY DEF Junctions, AnyRequest
  <2>5. [q EXCEPT !.shared_prefix_boundary = junction] \in AnyRequest
    BY <2>4, Zenon DEF AnyRequest
  <2>6. [q EXCEPT !.shared_prefix_boundary = junction].shared_prefix_boundary = junction
    BY Zenon DEF AnyRequest
  <2>7. QED BY <2>2, <2>3, <2>5, <2>6, <1>2
<1>3. QED BY <1>1, <1>2

\* Its other fields are those of the candidate.
LEMMA LookupFields ==
  ASSUME NEW q \in AnyRequest, NEW p, NEW j, p = [q EXCEPT !.shared_prefix_boundary = j]
  PROVE  /\ p.status = q.status /\ p.num_tokens = q.num_tokens
         /\ p.num_prompt_tokens = q.num_prompt_tokens
         /\ p.num_computed_tokens = q.num_computed_tokens
         /\ p.num_output_placeholders = q.num_output_placeholders
         /\ p.num_in_flight_tokens = q.num_in_flight_tokens
         /\ p.num_stale_output_tokens = q.num_stale_output_tokens
         /\ p.drop_stale_output = q.drop_stale_output /\ p.num_spec = q.num_spec
         /\ p.is_prefill_chunk = q.is_prefill_chunk /\ p.streaming_queue = q.streaming_queue
  BY DEF AnyRequest

\* What a new status leaves alone.
LEMMA StatusFields ==
  ASSUME NEW q \in AnyRequest, NEW p, NEW s, p = [q EXCEPT !.status = s]
  PROVE  /\ p.status = s /\ p.num_tokens = q.num_tokens
         /\ p.num_prompt_tokens = q.num_prompt_tokens
         /\ p.num_computed_tokens = q.num_computed_tokens
         /\ p.num_output_placeholders = q.num_output_placeholders
         /\ p.num_in_flight_tokens = q.num_in_flight_tokens
         /\ p.num_stale_output_tokens = q.num_stale_output_tokens
         /\ p.drop_stale_output = q.drop_stale_output /\ p.num_spec = q.num_spec
         /\ p.is_prefill_chunk = q.is_prefill_chunk /\ p.streaming_queue = q.streaming_queue
         /\ p.shared_prefix_boundary = q.shared_prefix_boundary
  BY DEF AnyRequest

\* What is asked for a waiting request is within the budget.
LEMMA AdmitTokensFacts ==
  ASSUME Typed, NEW q \in AnyRequest, NEW computed \in Int
  PROVE  /\ AdmitTokens(q, computed) \in Int
         /\ AdmitTokens(q, computed) <= AtLeast(IF Padded(q.num_tokens - computed) THEN 1 + NumSpec
                                        ELSE loc.token_budget, 0)
         /\ \E m \in Int : AdmitTokens(q, computed) = Split(q, computed, m)
<1> DEFINE rest == q.num_tokens - computed
           m == IF Padded(rest) THEN 1 + NumSpec ELSE AtMost(rest, loc.token_budget)
<1>0. config \in Configs
  BY DEF Typed
<1>1. q.num_tokens \in Int /\ NumSpec \in Nat /\ loc.token_budget \in Int
  BY <1>0, ConfigFacts DEF AnyRequest, Typed, Locals
<1>2. m \in Int
  BY <1>1 DEF AtMost
<1>3. m <= IF Padded(rest) THEN 1 + NumSpec ELSE loc.token_budget
  BY <1>1 DEF AtMost
<1>4. AdmitTokens(q, computed) = Split(q, computed, m)
  BY DEF AdmitTokens
<1> HIDE DEF m
<1>5. Split(q, computed, m) \in Int /\ Split(q, computed, m) <= AtLeast(m, 0)
  BY <1>0, <1>2, SplitFacts
<1> HIDE DEF rest
<1>6. AdmitTokens(q, computed) <= AtLeast(IF Padded(rest) THEN 1 + NumSpec
                                        ELSE loc.token_budget, 0)
  BY <1>1, <1>2, <1>3, <1>4, <1>5 DEF AtLeast
<1>7. QED BY <1>2, <1>4, <1>5, <1>6 DEF rest

\* A waiting request that is skipped leaves the state typed.
LEMMA TypedSkipWaiting == ASSUME Typed, SkipWaiting PROVE Typed'
<1>1. WaitingTurn /\ PopCandidate
  BY DEF SkipWaiting
<1>2. Candidate \in Reqs
  BY <1>1, CandidateFacts
<1>3. Promoted(Candidate) \in AnyRequest
  BY <1>2, PromotedFacts
<1>4. loc' = [loc EXCEPT !.step_skipped = <<Candidate>> \o @]
      /\ request' = [request EXCEPT ![Candidate] = Promoted(Candidate)]
  BY Zenon DEF SkipWaiting, prepend_request
<1>5. waiting' \in Seq(Reqs) /\ skipped_waiting' \in Seq(Reqs)
  BY <1>1, PopFacts
<1>6. loc' \in Locals
  <2>1. loc \in Locals /\ loc.step_skipped \in Seq(Reqs)
    BY DEF Typed, Locals
  <2>2. <<Candidate>> \o loc.step_skipped \in Seq(Reqs)
    BY <2>1, <1>2
  <2>3. QED BY <2>1, <2>2, <1>4, Zenon DEF Locals
<1>7. request' \in [Reqs -> AnyRequest]
  BY <1>3, <1>4 DEF Typed
<1>8. grammar_compile_error_reqs' \in SUBSET Reqs
  BY <1>2 DEF SkipWaiting, Typed
<1>9. QED BY <1>5, <1>6, <1>7, <1>8 DEF Typed, SkipWaiting, notices, env, worker, output

\* An admission, in terms of its candidate.
LEMMA AdmitFacts ==
  ASSUME Typed, WaitingTurn, NEW found \in Lookups(Promoted(Candidate)), Admit(found)
  PROVE  LET r == Candidate
             q == found.q
             computed == found.computed
             n == AdmitTokens(q, computed)
             pad == Padded(q.num_tokens - computed)
         IN  /\ r \in Reqs /\ q \in AnyRequest /\ computed \in Int /\ n \in Int
             /\ MayResume(q) /\ CanAdmit(r, q, computed) /\ PopCandidate
             /\ running' = Append(running, r)
             /\ held' = [held EXCEPT ![r] = TableSize(r, computed, n)]
             /\ request' = [request EXCEPT ![r] = [q EXCEPT !.status = "RUNNING",
                                                            !.num_computed_tokens = computed]]
             /\ [q EXCEPT !.status = "RUNNING", !.num_computed_tokens = computed] \in AnyRequest
             /\ loc' = [loc EXCEPT !.token_budget = @ - n,
                               !.batch = Append(@, [req |-> r, n |-> n, new |-> TRUE,
                                  drafts |-> IF pad THEN NumSpec ELSE 0, padded |-> pad])]
             /\ [req |-> r, n |-> n, new |-> TRUE,
                 drafts |-> IF pad THEN NumSpec ELSE 0, padded |-> pad] \in BatchEntry
<1> DEFINE r == Candidate
           q == found.q
           computed == found.computed
           n == AdmitTokens(q, computed)
           pad == Padded(q.num_tokens - computed)
<1>1. r \in Reqs
  BY CandidateFacts
<1>2. Promoted(r) \in AnyRequest
  BY <1>1, PromotedFacts
<1>3. config \in Configs
  BY DEF Typed
<1>4. q \in AnyRequest /\ computed \in Int
  BY <1>2, <1>3, LookupFacts
<1>5. n \in Int
  BY <1>4, AdmitTokensFacts
<1>6. [q EXCEPT !.status = "RUNNING", !.num_computed_tokens = computed] \in AnyRequest
  <2>1. "RUNNING" \in Statuses
    BY DEF Statuses
  <2>2. QED BY <2>1, <1>4, Zenon DEF AnyRequest
<1>7. [req |-> r, n |-> n, new |-> TRUE,
       drafts |-> IF pad THEN NumSpec ELSE 0, padded |-> pad] \in BatchEntry
  <2>1. NumSpec \in Int /\ pad \in BOOLEAN
    BY <1>3, ConfigFacts DEF Padded
  <2>2. (IF pad THEN NumSpec ELSE 0) \in Int
    BY <2>1
  <2> HIDE DEF n, pad, r
  <2>3. QED BY <2>1, <2>2, <1>1, <1>5 DEF BatchEntry
<1>8. QED BY <1>1, <1>4, <1>5, <1>6, <1>7, Zenon DEF Admit

\* An admission leaves the state typed.
LEMMA TypedAdmit ==
  ASSUME Typed, WaitingTurn, NEW found \in Lookups(Promoted(Candidate)), Admit(found)
  PROVE  Typed'
<1> DEFINE r == Candidate
           n == AdmitTokens(found.q, found.computed)
           e == [req |-> r, n |-> n, new |-> TRUE,
                 drafts |-> IF Padded(found.q.num_tokens - found.computed) THEN NumSpec ELSE 0,
                 padded |-> Padded(found.q.num_tokens - found.computed)]
           p == [found.q EXCEPT !.status = "RUNNING", !.num_computed_tokens = found.computed]
           t == TableSize(r, found.computed, n)
<1>1. /\ r \in Reqs /\ n \in Int /\ PopCandidate /\ found.computed \in Int
      /\ running' = Append(running, r)
      /\ held' = [held EXCEPT ![r] = t]
      /\ request' = [request EXCEPT ![r] = p]
      /\ p \in AnyRequest
      /\ loc' = [loc EXCEPT !.token_budget = @ - n, !.batch = Append(@, e)]
      /\ e \in BatchEntry
  BY AdmitFacts, Zenon
<1> HIDE DEF e, p, n
<1>2. t \in Int
  BY <1>1, TableSizeFacts
<1> HIDE DEF t, r
<1>3. waiting' \in Seq(Reqs) /\ skipped_waiting' \in Seq(Reqs)
  BY <1>1, PopFacts
<1>4. loc' \in Locals
  <2>1. loc \in Locals /\ loc.token_budget - n \in Int /\ loc.batch \in Seq(BatchEntry)
    BY <1>1 DEF Typed, Locals
  <2>2. Append(loc.batch, e) \in Seq(BatchEntry)
    BY <2>1, <1>1
  <2>3. QED BY <2>1, <2>2, <1>1, Zenon DEF Locals
<1>5. request' \in [Reqs -> AnyRequest]
  BY <1>1 DEF Typed
<1>6. held' \in [Reqs -> Int]
  BY <1>1, <1>2 DEF Typed
<1>7. running' \in Seq(Reqs)
  BY <1>1 DEF Typed
<1>8. QED BY <1>3, <1>4, <1>5, <1>6, <1>7 DEF Typed, Admit, notices, env, worker, output

\* Skipped requests return to a queue of requests.
LEMMA TypedRequeue ==
  ASSUME Typed, Requeue, request' \in [Reqs -> AnyRequest]
  PROVE  Typed'
<1>1. skipped_waiting' \in Seq(Reqs)
  <2>1. loc.step_skipped \in Seq(Reqs) /\ skipped_waiting \in Seq(Reqs)
    BY DEF Typed, Locals
  <2>2. Reverse(loc.step_skipped) \in Seq(Reqs)
    BY <2>1, ReverseFacts
  <2>3. QED BY <2>1, <2>2 DEF Requeue, prepend_requests
<1>2. loc' \in Locals
  <2>1. loc \in Locals /\ <<>> \in Seq(Reqs)
    BY DEF Typed
  <2>2. loc' = [loc EXCEPT !.step_skipped = <<>>]
    BY Zenon DEF Requeue
  <2>3. QED BY <2>1, <2>2, Zenon DEF Locals
<1>3. QED BY <1>1, <1>2 DEF Typed, Requeue, notices, env, worker, output

\* The loop over waiting requests stops in a typed state.
LEMMA TypedStopWaiting ==
  ASSUME Typed, WaitingTurn, NEW found \in Lookups(Promoted(Candidate)), StopWaiting(found)
  PROVE  Typed'
<1>1. Candidate \in Reqs
  BY CandidateFacts
<1>2. Promoted(Candidate) \in AnyRequest
  BY <1>1, PromotedFacts
<1>3. config \in Configs
  BY DEF Typed
<1>4. found.q \in AnyRequest
  BY <1>2, <1>3, LookupFacts
<1>5. request' = [request EXCEPT ![Candidate] = found.q] /\ Requeue
  BY Zenon DEF StopWaiting
<1>6. request' \in [Reqs -> AnyRequest]
  BY <1>4, <1>5 DEF Typed
<1>7. QED BY <1>5, <1>6, TypedRequeue

\* The loop over waiting requests ends in a typed state.
LEMMA TypedEndWaiting == ASSUME Typed, EndWaiting PROVE Typed'
<1>1. request' \in [Reqs -> AnyRequest] /\ Requeue
  BY DEF EndWaiting, Typed
<1>2. QED BY <1>1, TypedRequeue

\* The entry of a request in the step being built.
LEMMA EntryFacts ==
  ASSUME Typed, NEW r \in {e.req : e \in ToSet(loc.batch)}
  PROVE  Entry(r) \in BatchEntry /\ Entry(r) \in ToSet(loc.batch) /\ Entry(r).req = r /\ r \in Reqs
<1>1. loc.batch \in Seq(BatchEntry)
  BY DEF Typed, Locals
<1>2. \A i \in DOMAIN loc.batch : loc.batch[i] \in BatchEntry
  BY <1>1
<1>3. \A e \in ToSet(loc.batch) : e \in BatchEntry
  BY <1>2 DEF ToSet
<1>4. \E e \in ToSet(loc.batch) : e.req = r
  OBVIOUS
<1>5. Entry(r) \in ToSet(loc.batch) /\ Entry(r).req = r
  BY <1>4, Zenon DEF Entry
<1>6. QED BY <1>3, <1>5 DEF BatchEntry

\* _update_after_schedule, field by field.
LEMMA AdvancedFacts ==
  ASSUME config \in Configs, NEW q \in AnyRequest, NEW n \in Int, NEW drafts \in Int
  PROVE  /\ Advanced(q, n, drafts) \in AnyRequest
         /\ Advanced(q, n, drafts).status = q.status
         /\ Advanced(q, n, drafts).num_computed_tokens = q.num_computed_tokens + n
         /\ Advanced(q, n, drafts).num_in_flight_tokens = q.num_in_flight_tokens + n
         /\ Advanced(q, n, drafts).num_stale_output_tokens = q.num_stale_output_tokens
         /\ Advanced(q, n, drafts).num_tokens = q.num_tokens
         /\ Advanced(q, n, drafts).drop_stale_output = q.drop_stale_output
<1> DEFINE computed == q.num_computed_tokens + n
           chunk == computed < q.num_tokens + q.num_output_placeholders
           async == Depth > 1 /\ ~chunk
           ph == IF async THEN q.num_output_placeholders + 1 + drafts
                 ELSE q.num_output_placeholders
           sp == IF async THEN NumSpec ELSE q.num_spec
           fl == q.num_in_flight_tokens + n
<1>1. NumSpec \in Int
  BY ConfigFacts
<1>2. computed \in Int /\ ph \in Int /\ sp \in Int /\ fl \in Int /\ chunk \in BOOLEAN
  BY <1>1, SMTT(30) DEF AnyRequest
<1>3. Advanced(q, n, drafts) =
        [q EXCEPT !.num_computed_tokens = computed, !.num_in_flight_tokens = fl,
                  !.is_prefill_chunk = chunk, !.num_output_placeholders = ph, !.num_spec = sp]
  BY Zenon DEF Advanced
<1> HIDE DEF computed, ph, sp, fl, chunk
<1>4. [q EXCEPT !.num_computed_tokens = computed, !.num_in_flight_tokens = fl,
                  !.is_prefill_chunk = chunk, !.num_output_placeholders = ph, !.num_spec = sp]
        \in AnyRequest
  BY <1>2, Zenon DEF AnyRequest
<1>5. QED BY <1>3, <1>4 DEF AnyRequest, computed, fl

Launched ==
  LET batch == {e.req : e \in ToSet(loc.batch)}
  IN  [r \in Reqs |-> IF r \in batch
         THEN Advanced(request[r], Entry(r).n, Entry(r).drafts) ELSE request[r]]

LaunchedStep ==
  [j \in DOMAIN loc.batch |->
     LET e == loc.batch[j]
     IN  [req |-> e.req, n |-> e.n, drafts |-> e.drafts, padded |-> e.padded,
          samples |-> ~Launched[e.req].is_prefill_chunk,
          prefix |-> IF e.new THEN request[e.req].num_tokens ELSE 0]]

\* The launch of a step, in terms of its entries.
LEMMA CommitFacts ==
  ASSUME Typed, Commit
  PROVE  /\ request' = Launched
         /\ inflight' = Append(inflight, LaunchedStep)
         /\ slots' = ((slots \ finished_req_ids) \ reset_preempted_req_ids)
                       \cup {e.req : e \in ToSet(loc.batch)}
         /\ Launched \in [Reqs -> AnyRequest]
         /\ LaunchedStep \in Seq(StepEntry)
         /\ {e.req : e \in ToSet(loc.batch)} \in SUBSET Reqs
<1>1. request' = Launched /\ inflight' = Append(inflight, LaunchedStep)
      /\ slots' = ((slots \ finished_req_ids) \ reset_preempted_req_ids)
                       \cup {e.req : e \in ToSet(loc.batch)}
  BY Zenon DEF Commit, Launched, LaunchedStep
<1> DEFINE B == {e.req : e \in ToSet(loc.batch)}
<1>2. \A r \in B : Entry(r) \in BatchEntry /\ r \in Reqs
  BY EntryFacts
<1>3. \A r \in B : Advanced(request[r], Entry(r).n, Entry(r).drafts) \in AnyRequest
  <2> SUFFICES ASSUME NEW r \in B
               PROVE  Advanced(request[r], Entry(r).n, Entry(r).drafts) \in AnyRequest
    OBVIOUS
  <2>1. Entry(r).n \in Int /\ Entry(r).drafts \in Int
    BY <1>2 DEF BatchEntry
  <2>2. request[r] \in AnyRequest /\ config \in Configs
    BY <1>2 DEF Typed
  <2>3. QED BY <2>1, <2>2, AdvancedFacts
<1>4. Launched = [r \in Reqs |-> IF r \in B
         THEN Advanced(request[r], Entry(r).n, Entry(r).drafts) ELSE request[r]]
  BY Zenon DEF Launched
<1> HIDE DEF B
<1>5. Launched \in [Reqs -> AnyRequest]
  BY <1>3, <1>4 DEF Typed
<1>6. LaunchedStep \in Seq(StepEntry)
  <2>1. loc.batch \in Seq(BatchEntry)
    BY DEF Typed, Locals
  <2>2. \A j \in DOMAIN loc.batch : loc.batch[j] \in BatchEntry
    BY <2>1
  <2>3. DOMAIN loc.batch = 1 .. Len(loc.batch) /\ Len(loc.batch) \in Nat
    BY <2>1
  <2>4. \A j \in DOMAIN loc.batch : LaunchedStep[j] \in StepEntry
    <3> SUFFICES ASSUME NEW j \in DOMAIN loc.batch PROVE LaunchedStep[j] \in StepEntry
      OBVIOUS
    <3> DEFINE e == loc.batch[j]
               pre == IF e.new THEN request[e.req].num_tokens ELSE 0
               sam == ~Launched[e.req].is_prefill_chunk
    <3>1. e \in BatchEntry
      BY <2>2
    <3> HIDE DEF e
    <3>2. e.req \in Reqs /\ e.n \in Int /\ e.drafts \in Int /\ e.padded \in BOOLEAN
      BY <3>1 DEF BatchEntry
    <3>3. request[e.req].num_tokens \in Int
      BY <3>2 DEF Typed, AnyRequest
    <3>4. pre \in Int /\ sam \in BOOLEAN
      BY <3>3
    <3>5. LaunchedStep[j] = [req |-> e.req, n |-> e.n, drafts |-> e.drafts,
                             padded |-> e.padded, samples |-> sam, prefix |-> pre]
      BY Zenon DEF LaunchedStep, e
    <3> HIDE DEF sam, pre
    <3>6. QED BY <3>2, <3>4, <3>5 DEF StepEntry
  <2>5. DOMAIN LaunchedStep = 1 .. Len(loc.batch)
    BY <2>3 DEF LaunchedStep
  <2>6. LaunchedStep = [j \in 1 .. Len(loc.batch) |-> LaunchedStep[j]]
    BY <2>3 DEF LaunchedStep
  <2> HIDE DEF LaunchedStep
  <2>7. LaunchedStep \in [1 .. Len(loc.batch) -> StepEntry]
    BY <2>3, <2>4, <2>6
  <2>8. Seq(StepEntry) = UNION {[1 .. n -> StepEntry] : n \in Nat}
    OBVIOUS
  <2>9. QED BY <2>3, <2>7, <2>8
<1>7. QED BY <1>1, <1>2, <1>5, <1>6 DEF B

\* The launch of a step leaves the state typed.
LEMMA TypedCommit == ASSUME Typed, Commit PROVE Typed'
<1>1. /\ request' = Launched
      /\ inflight' = Append(inflight, LaunchedStep)
      /\ slots' = ((slots \ finished_req_ids) \ reset_preempted_req_ids)
                       \cup {e.req : e \in ToSet(loc.batch)}
      /\ Launched \in [Reqs -> AnyRequest]
      /\ LaunchedStep \in Seq(StepEntry)
      /\ {e.req : e \in ToSet(loc.batch)} \in SUBSET Reqs
  BY CommitFacts
<1>2. inflight' \in Seq(Seq(StepEntry))
  BY <1>1 DEF Typed
<1>3. slots' \in SUBSET Reqs
  BY <1>1 DEF Typed
<1>4. /\ sampled' = [r \in Reqs |-> IF r \in finished_req_ids THEN 0 ELSE sampled[r]]
      /\ finished_req_ids' = {} /\ reset_preempted_req_ids' = {} /\ loc' = Idle /\ pc' = "idle"
  BY Zenon DEF Commit
<1>5. sampled' \in [Reqs -> Int]
  BY <1>4 DEF Typed
<1>6. loc' \in Locals
  BY <1>4, IdleTyped
<1>7. QED BY <1>1, <1>2, <1>3, <1>4, <1>5, <1>6 DEF Typed, Commit, queues, env, output

\* Taking up a step's output leaves the state typed.
LEMMA TypedBeginOutput == ASSUME Typed, BeginOutput PROVE Typed'
<1>1. inflight' \in Seq(Seq(StepEntry)) /\ todo' \in Seq(StepEntry)
  BY DEF Typed, BeginOutput
<1>2. QED BY <1>1 DEF Typed, BeginOutput, queues, notices, env

\* The entry whose output is next.
LEMMA HeadFacts ==
  ASSUME Typed, OutputTurn
  PROVE  /\ Head(todo) \in StepEntry /\ Head(todo).req \in Reqs /\ Head(todo).n \in Int
         /\ request[Head(todo).req] \in AnyRequest
         /\ Head(todo).drafts \in Int /\ Head(todo).samples \in BOOLEAN
         /\ Head(todo).prefix \in Int /\ Head(todo).padded \in BOOLEAN
         /\ Tail(todo) \in Seq(StepEntry) /\ config \in Configs
<1>1. todo \in Seq(StepEntry) /\ todo # <<>>
  BY DEF Typed, OutputTurn
<1>2. Head(todo) \in StepEntry /\ Tail(todo) \in Seq(StepEntry)
  BY <1>1
<1>3. Head(todo).req \in Reqs
  BY <1>2 DEF StepEntry
<1>4. QED BY <1>2, <1>3 DEF StepEntry, Typed

\* A request whose tokens came back is a request.
LEMMA ReturnedTyped ==
  ASSUME NEW q \in AnyRequest, NEW n \in Int
  PROVE  /\ Returned(q, n) \in AnyRequest
         /\ Returned(q, n) = [q EXCEPT !.num_in_flight_tokens = q.num_in_flight_tokens - n,
                !.num_stale_output_tokens = IF q.num_stale_output_tokens > 0
                   THEN q.num_stale_output_tokens - n ELSE q.num_stale_output_tokens]
<1> DEFINE fl == q.num_in_flight_tokens - n
           st == IF q.num_stale_output_tokens > 0
                 THEN q.num_stale_output_tokens - n ELSE q.num_stale_output_tokens
<1>1. fl \in Int /\ st \in Int
  BY DEF AnyRequest
<1>2. Returned(q, n) = [q EXCEPT !.num_in_flight_tokens = fl, !.num_stale_output_tokens = st]
  BY Zenon DEF Returned, IsStale
<1> HIDE DEF fl, st
<1>3. [q EXCEPT !.num_in_flight_tokens = fl, !.num_stale_output_tokens = st] \in AnyRequest
  BY <1>1, Zenon DEF AnyRequest
<1>4. QED BY <1>2, <1>3 DEF fl, st

\* Output that is dropped leaves the state typed.
LEMMA TypedDropOutput == ASSUME Typed, DropOutput PROVE Typed'
<1>1. OutputTurn /\ todo' = Tail(todo)
  BY DEF DropOutput
<1> DEFINE e == Head(todo)
<1>2. e.req \in Reqs /\ e.n \in Int /\ request[e.req] \in AnyRequest /\ Tail(todo) \in Seq(StepEntry)
  BY <1>1, HeadFacts
<1>3. request' = IF Live(e.req) THEN [request EXCEPT ![e.req] = Returned(request[e.req], e.n)]
                       ELSE request
  BY Zenon DEF DropOutput
<1> HIDE DEF e
<1>4. Returned(request[e.req], e.n) \in AnyRequest
  BY <1>2, ReturnedTyped
<1>5. request' \in [Reqs -> AnyRequest]
  BY <1>2, <1>3, <1>4 DEF Typed
<1>6. QED BY <1>1, <1>2, <1>5 DEF Typed, DropOutput, queues, notices, env, worker

\* Rejected drafts take back two counters and no other field.
LEMMA RolledBackFacts ==
  ASSUME NEW q \in AnyRequest, NEW k \in Int, NEW stale \in BOOLEAN
  PROVE  /\ RolledBack(q, k, stale) \in AnyRequest
         /\ RolledBack(q, k, stale) =
              [q EXCEPT !.num_computed_tokens = RolledBack(q, k, stale).num_computed_tokens,
                        !.num_output_placeholders = RolledBack(q, k, stale).num_output_placeholders]
         /\ RolledBack(q, k, stale).num_computed_tokens =
              IF ~stale /\ q.num_computed_tokens > 0 THEN q.num_computed_tokens - k
              ELSE q.num_computed_tokens
<1> DEFINE c == IF q.num_computed_tokens > 0 THEN q.num_computed_tokens - k
                ELSE q.num_computed_tokens
           o == IF q.num_output_placeholders > 0 THEN q.num_output_placeholders - k
                ELSE q.num_output_placeholders
<1>1. c \in Int /\ o \in Int
  BY DEF AnyRequest
<1>2. RolledBack(q, k, stale) =
        IF stale THEN q ELSE [q EXCEPT !.num_computed_tokens = c, !.num_output_placeholders = o]
  BY Zenon DEF RolledBack
<1> HIDE DEF c, o
<1>3. [q EXCEPT !.num_computed_tokens = c, !.num_output_placeholders = o] \in AnyRequest
  BY <1>1, Zenon DEF AnyRequest
<1>4. q = [q EXCEPT !.num_computed_tokens = q.num_computed_tokens,
                    !.num_output_placeholders = q.num_output_placeholders]
  BY Zenon DEF AnyRequest
<1>5. /\ [q EXCEPT !.num_computed_tokens = c, !.num_output_placeholders = o].num_computed_tokens = c
      /\ [q EXCEPT !.num_computed_tokens = c, !.num_output_placeholders = o].num_output_placeholders = o
  BY DEF AnyRequest
<1>6. CASE stale
  <2>1. RolledBack(q, k, stale) = q
    BY <1>6, <1>2
  <2>2. QED BY <2>1, <1>4, <1>6
<1>7. CASE ~stale
  <2>1. RolledBack(q, k, stale) = [q EXCEPT !.num_computed_tokens = c, !.num_output_placeholders = o]
    BY <1>7, <1>2
  <2>2. RolledBack(q, k, stale).num_computed_tokens = c
        /\ RolledBack(q, k, stale).num_output_placeholders = o
    BY <2>1, <1>5
  <2>3. QED BY <2>1, <2>2, <1>3, <1>7 DEF c
<1>8. QED BY <1>6, <1>7

\* What one entry's output makes of its request.
Took(e, accepted) == IF e.samples THEN accepted + 1 ELSE 0

Rejected(e, accepted) ==
  LET q1 == Returned(request[e.req], e.n)
  IN  IF e.drafts > 0 /\ Took(e, accepted) > 0
      THEN RolledBack(q1, e.drafts - accepted, IsStale(request[e.req])) ELSE q1

Keeps(e, accepted, eos) ==
  AtMost(AtMost(Took(e, accepted), AtLeast(Allowance(Rejected(e, accepted)), 1)),
         IF eos > 0 THEN eos ELSE Took(e, accepted))

Output(e, accepted, eos, drafts) ==
  [WithOutput(Rejected(e, accepted), Keeps(e, accepted, eos), IsStale(request[e.req])) EXCEPT
     !.num_spec = IF Depth = 1 THEN (IF e.samples THEN drafts ELSE 0) ELSE @]

StopsWith(e, accepted, eos, error) ==
  error \/ (Took(e, accepted) > 0 /\ (Keeps(e, accepted, eos) = eos
                                      \/ Keeps(e, accepted, eos) >= Allowance(Rejected(e, accepted))))

\* What Deliver says of the entry e, of request r, whose output makes it q.
Delivered(e, r, q, accepted, eos, error, drafts) ==
  /\ OutputTurn /\ Live(r)
  /\ ~(IsStale(request[r]) /\ request[r].drop_stale_output)
  /\ accepted \in 0 .. (IF e.samples /\ ~e.padded THEN e.drafts ELSE 0)
  /\ eos \in 0 .. Took(e, accepted)
  /\ error => r \in Structured /\ Took(e, accepted) > 0
  /\ Depth > 1 => drafts = 0
  /\ sampled' = [sampled EXCEPT ![r] = SampledBefore(e) + Took(e, accepted)]
  /\ \/ /\ StopsWith(e, accepted, eos, error)
        /\ Stop(r, q, error)
        /\ stopped' = IF request[r].status = "RUNNING"
                      THEN [stopped EXCEPT !.running = @ \cup {r}]
                      ELSE [stopped EXCEPT !.preempted = @ \cup {r}]
     \/ /\ ~StopsWith(e, accepted, eos, error)
        /\ request' = [request EXCEPT ![r] = q]
        /\ UNCHANGED <<held, finished_req_ids, waiting, skipped_waiting,
                       num_waiting_for_streaming_input, stopped>>
  /\ todo' = Tail(todo)
  /\ UNCHANGED <<pc, running, reset_preempted_req_ids, grammar_compile_error_reqs,
                 pause_state, env, inflight, slots, loc>>

\* Whose output is delivered.
LEMMA DeliverFacts ==
  ASSUME NEW accepted, NEW eos, NEW error, NEW drafts, Deliver(accepted, eos, error, drafts)
  PROVE  Delivered(Head(todo), Head(todo).req, Output(Head(todo), accepted, eos, drafts),
                   accepted, eos, error, drafts)
  BY Zenon DEF Deliver, Took, Rejected, Keeps, Output, StopsWith, Delivered

\* What a delivered output makes of its request.
LEMMA OutputFacts ==
  ASSUME Typed, OutputTurn, NEW accepted \in Int, NEW eos \in Int, NEW drafts \in Int
  PROVE  LET e == Head(todo)
             p == request[e.req]
             q == Output(e, accepted, eos, drafts)
         IN  /\ q \in AnyRequest /\ Took(e, accepted) \in Int
             /\ q.status = p.status /\ q.streaming_queue = p.streaming_queue
             /\ q.num_in_flight_tokens = p.num_in_flight_tokens - e.n
             /\ q.num_stale_output_tokens = IF p.num_stale_output_tokens > 0
                   THEN p.num_stale_output_tokens - e.n ELSE p.num_stale_output_tokens
             /\ q.num_computed_tokens =
                  IF e.drafts > 0 /\ Took(e, accepted) > 0
                     /\ p.num_stale_output_tokens <= 0 /\ p.num_computed_tokens > 0
                  THEN p.num_computed_tokens - (e.drafts - accepted) ELSE p.num_computed_tokens
<1> DEFINE e == Head(todo)
           p == request[e.req]
           t == Took(e, accepted)
           q1 == Returned(p, e.n)
           stale == IsStale(p)
           q2 == Rejected(e, accepted)
           kept == Keeps(e, accepted, eos)
           nt == q2.num_tokens + kept
           ph == IF Depth > 1 /\ ~stale THEN q2.num_output_placeholders - kept
                 ELSE q2.num_output_placeholders
           ns == IF Depth = 1 THEN (IF e.samples THEN drafts ELSE 0) ELSE q2.num_spec
<1>1. p \in AnyRequest /\ e.n \in Int /\ e.drafts \in Int /\ config \in Configs
  BY HeadFacts
<1> HIDE DEF p, e
<1>2. t \in Int
  BY DEF Took
<1>3. /\ q1 \in AnyRequest
      /\ q1 = [p EXCEPT !.num_in_flight_tokens = p.num_in_flight_tokens - e.n,
                !.num_stale_output_tokens = IF p.num_stale_output_tokens > 0
                   THEN p.num_stale_output_tokens - e.n ELSE p.num_stale_output_tokens]
  BY <1>1, ReturnedTyped
<1>4. stale \in BOOLEAN /\ (stale <=> p.num_stale_output_tokens > 0)
  BY DEF IsStale
<1>5. q2 = IF e.drafts > 0 /\ t > 0 THEN RolledBack(q1, e.drafts - accepted, stale) ELSE q1
  BY Zenon DEF Rejected, p
<1> HIDE DEF q1, q2, t, stale
<1>6. q1.num_computed_tokens = p.num_computed_tokens /\ q1.status = p.status
      /\ q1.streaming_queue = p.streaming_queue
      /\ q1.num_in_flight_tokens = p.num_in_flight_tokens - e.n
      /\ q1.num_stale_output_tokens = IF p.num_stale_output_tokens > 0
                   THEN p.num_stale_output_tokens - e.n ELSE p.num_stale_output_tokens
  BY <1>1, <1>3 DEF AnyRequest
<1>7. /\ q2 \in AnyRequest /\ q2.status = p.status /\ q2.streaming_queue = p.streaming_queue
      /\ q2.num_in_flight_tokens = q1.num_in_flight_tokens
      /\ q2.num_stale_output_tokens = q1.num_stale_output_tokens
      /\ q2.num_computed_tokens = IF e.drafts > 0 /\ t > 0 /\ ~stale /\ p.num_computed_tokens > 0
                  THEN p.num_computed_tokens - (e.drafts - accepted) ELSE p.num_computed_tokens
  <2>1. CASE e.drafts > 0 /\ t > 0
    <3> DEFINE b == RolledBack(q1, e.drafts - accepted, stale)
    <3>1. e.drafts - accepted \in Int
      BY <1>1
    <3>10. q1 \in AnyRequest
      BY <1>3
    <3>11. stale \in BOOLEAN
      BY <1>4
    <3>2. /\ b \in AnyRequest
          /\ b = [q1 EXCEPT !.num_computed_tokens = b.num_computed_tokens,
                        !.num_output_placeholders = b.num_output_placeholders]
          /\ b.num_computed_tokens =
              IF ~stale /\ q1.num_computed_tokens > 0
              THEN q1.num_computed_tokens - (e.drafts - accepted) ELSE q1.num_computed_tokens
      BY <3>1, <3>10, <3>11, RolledBackFacts, ZenonT(30)
    <3>3. q2 = b
      BY <2>1, <1>5
    <3> HIDE DEF b
    <3>4. /\ b.status = q1.status /\ b.streaming_queue = q1.streaming_queue
          /\ b.num_in_flight_tokens = q1.num_in_flight_tokens
          /\ b.num_stale_output_tokens = q1.num_stale_output_tokens
      BY <3>2, <1>3 DEF AnyRequest
    <3>5. QED BY <3>2, <3>3, <3>4, <1>6, <2>1
  <2>2. CASE ~(e.drafts > 0 /\ t > 0)
    BY <2>2, <1>3, <1>5, <1>6
  <2>3. QED BY <2>1, <2>2
<1>8. kept \in Int
  <2>1. MaxModelLen \in Int /\ MaxTokens \in Int
    BY <1>1, ConfigFacts
  <2>2. Allowance(q2) \in Int
    BY <1>7, <2>1 DEF Allowance, AtMost, AnyRequest
  <2>3. kept = AtMost(AtMost(t, AtLeast(Allowance(q2), 1)), IF eos > 0 THEN eos ELSE t)
    BY Zenon DEF Keeps, q2, t
  <2>4. QED BY <1>2, <2>2, <2>3 DEF AtMost, AtLeast
<1>9. Output(e, accepted, eos, drafts) =
        [[q2 EXCEPT !.num_tokens = nt, !.num_output_placeholders = ph] EXCEPT !.num_spec = ns]
  <2>1. WithOutput(q2, kept, stale) = [q2 EXCEPT !.num_tokens = nt, !.num_output_placeholders = ph]
    BY Zenon DEF WithOutput
  <2>2. Output(e, accepted, eos, drafts) = [WithOutput(q2, kept, stale) EXCEPT
             !.num_spec = IF Depth = 1 THEN (IF e.samples THEN drafts ELSE 0) ELSE @]
    BY Zenon DEF Output, q2, stale, p
  <2>3. [q2 EXCEPT !.num_tokens = nt, !.num_output_placeholders = ph].num_spec = q2.num_spec
    <3> HIDE DEF nt, ph
    <3>1. QED BY <1>7 DEF AnyRequest
  <2>4. QED BY <2>1, <2>2, <2>3, Zenon
<1> HIDE DEF kept
<1>10. nt \in Int /\ ph \in Int /\ ns \in Int
  BY <1>7, <1>8 DEF AnyRequest
<1> HIDE DEF nt, ph, ns
<1>11. [q2 EXCEPT !.num_tokens = nt, !.num_output_placeholders = ph] \in AnyRequest
  BY <1>7, <1>10, Zenon DEF AnyRequest
<1>12. Output(e, accepted, eos, drafts) \in AnyRequest
  BY <1>9, <1>10, <1>11, Zenon DEF AnyRequest
<1>13. LET q == Output(e, accepted, eos, drafts)
       IN  /\ q.status = q2.status /\ q.streaming_queue = q2.streaming_queue
           /\ q.num_in_flight_tokens = q2.num_in_flight_tokens
           /\ q.num_stale_output_tokens = q2.num_stale_output_tokens
           /\ q.num_computed_tokens = q2.num_computed_tokens
  BY <1>7, <1>9 DEF AnyRequest
<1>14. p.num_stale_output_tokens \in Int
  BY <1>1 DEF AnyRequest
<1>15. LET q == Output(e, accepted, eos, drafts)
       IN  /\ q \in AnyRequest /\ t \in Int
           /\ q.status = p.status /\ q.streaming_queue = p.streaming_queue
           /\ q.num_in_flight_tokens = p.num_in_flight_tokens - e.n
           /\ q.num_stale_output_tokens = IF p.num_stale_output_tokens > 0
                 THEN p.num_stale_output_tokens - e.n ELSE p.num_stale_output_tokens
           /\ q.num_computed_tokens =
                IF e.drafts > 0 /\ t > 0
                   /\ p.num_stale_output_tokens <= 0 /\ p.num_computed_tokens > 0
                THEN p.num_computed_tokens - (e.drafts - accepted) ELSE p.num_computed_tokens
  <2>1. ~stale <=> p.num_stale_output_tokens <= 0
    <3>1. (p.num_stale_output_tokens > 0) <=> ~(p.num_stale_output_tokens <= 0)
      BY <1>14
    <3>2. QED BY <1>4, <3>1, Zenon
  <2>2. LET q == Output(e, accepted, eos, drafts)
        IN q.num_computed_tokens = IF e.drafts > 0 /\ t > 0 /\ ~stale /\ p.num_computed_tokens > 0
                  THEN p.num_computed_tokens - (e.drafts - accepted) ELSE p.num_computed_tokens
    BY <1>7, <1>13
  <2>3. LET q == Output(e, accepted, eos, drafts)
        IN q.num_computed_tokens =
                IF e.drafts > 0 /\ t > 0
                   /\ p.num_stale_output_tokens <= 0 /\ p.num_computed_tokens > 0
                THEN p.num_computed_tokens - (e.drafts - accepted) ELSE p.num_computed_tokens
    BY <2>1, <2>2, Zenon
  <2>4. QED BY <1>2, <1>6, <1>7, <1>12, <1>13, <2>3
<1>16. QED BY <1>15, Zenon DEF e, p, t

\* A session's request with its next chunk.
LEMMA UpdatedSessionFacts ==
  ASSUME NEW q \in AnyRequest
  PROVE  /\ UpdatedSession(q) \in AnyRequest
         /\ UpdatedSession(q).status = "WAITING"
         /\ UpdatedSession(q).num_computed_tokens = q.num_computed_tokens
         /\ UpdatedSession(q).num_in_flight_tokens = q.num_in_flight_tokens
         /\ UpdatedSession(q).num_stale_output_tokens = q.num_stale_output_tokens
<1> DEFINE kept == AtMost(q.num_tokens, q.num_computed_tokens)
           a == kept + 1
           b == AtLeast(kept, q.num_prompt_tokens) + 1
<1>1. a \in Int /\ b \in Int /\ "WAITING" \in Statuses
  BY DEF AtMost, AtLeast, AnyRequest, Statuses
<1>2. UpdatedSession(q) = [q EXCEPT !.status = "WAITING", !.num_tokens = a,
                                    !.num_prompt_tokens = b]
  BY Zenon DEF UpdatedSession
<1> HIDE DEF a, b
<1>3. [q EXCEPT !.status = "WAITING", !.num_tokens = a, !.num_prompt_tokens = b] \in AnyRequest
  BY <1>1, Zenon DEF AnyRequest
<1>4. QED BY <1>2, <1>3 DEF AnyRequest

Popped(q) == [q EXCEPT !.streaming_queue = IF @ = <<>> THEN @ ELSE Tail(@)]

\* A session that takes its next chunk, or ends.
LEMMA PoppedFacts ==
  ASSUME NEW q \in AnyRequest
  PROVE  /\ Popped(q) \in AnyRequest
         /\ Popped(q).num_computed_tokens = q.num_computed_tokens
         /\ Popped(q).num_in_flight_tokens = q.num_in_flight_tokens
         /\ Popped(q).num_stale_output_tokens = q.num_stale_output_tokens
<1> DEFINE s == IF q.streaming_queue = <<>> THEN q.streaming_queue ELSE Tail(q.streaming_queue)
<1>1. s \in Seq({"chunk", "end"})
  <2>1. q.streaming_queue \in Seq({"chunk", "end"})
    BY DEF AnyRequest
  <2>2. QED BY <2>1
<1>2. Popped(q) = [q EXCEPT !.streaming_queue = s]
  BY Zenon DEF Popped
<1> HIDE DEF s
<1>3. [q EXCEPT !.streaming_queue = s] \in AnyRequest
  BY <1>1, Zenon DEF AnyRequest
<1>4. QED BY <1>2, <1>3 DEF AnyRequest

\* A request that stops: it is gone, goes on with its next chunk, or waits for one.
LEMMA StopCases ==
  ASSUME NEW r, NEW q, NEW error, Stop(r, q, error)
  PROVE  \/ /\ request' = [request EXCEPT ![r] = Gone(r)]
            /\ held' = [held EXCEPT ![r] = 0]
            /\ finished_req_ids' = finished_req_ids \cup {r}
            /\ UNCHANGED <<waiting, skipped_waiting, num_waiting_for_streaming_input>>
         \/ /\ r \in Sessions
            /\ request' = [request EXCEPT ![r] = UpdatedSession(Popped(q))]
            /\ waiting' = Append(waiting, r)
            /\ UNCHANGED <<held, finished_req_ids, skipped_waiting,
                           num_waiting_for_streaming_input>>
         \/ /\ r \in Sessions
            /\ request' = [request EXCEPT ![r] = [q EXCEPT !.status = "WAITING_FOR_STREAMING_REQ"]]
            /\ skipped_waiting' = Append(skipped_waiting, r)
            /\ num_waiting_for_streaming_input' = num_waiting_for_streaming_input + 1
            /\ UNCHANGED <<held, finished_req_ids, waiting>>
  BY Zenon DEF Stop, Popped, add_request

\* A request that stops leaves the queues typed.
LEMMA StopTyped ==
  ASSUME Typed, NEW r \in Reqs, NEW q \in AnyRequest, NEW error, Stop(r, q, error)
  PROVE  /\ request' \in [Reqs -> AnyRequest] /\ held' \in [Reqs -> Int]
         /\ finished_req_ids' \in SUBSET Reqs
         /\ waiting' \in Seq(Reqs) /\ skipped_waiting' \in Seq(Reqs)
         /\ num_waiting_for_streaming_input' \in Int
<1>1. /\ request \in [Reqs -> AnyRequest] /\ held \in [Reqs -> Int]
      /\ finished_req_ids \in SUBSET Reqs
      /\ waiting \in Seq(Reqs) /\ skipped_waiting \in Seq(Reqs)
      /\ num_waiting_for_streaming_input \in Int /\ config \in Configs
  BY DEF Typed
<1>2. CASE /\ request' = [request EXCEPT ![r] = Gone(r)]
           /\ held' = [held EXCEPT ![r] = 0]
           /\ finished_req_ids' = finished_req_ids \cup {r}
           /\ UNCHANGED <<waiting, skipped_waiting, num_waiting_for_streaming_input>>
  <2>1. Gone(r) \in AnyRequest
    BY <1>1, NewRequestTyped
  <2>2. QED BY <1>1, <1>2, <2>1
<1>3. CASE /\ request' = [request EXCEPT ![r] = UpdatedSession(Popped(q))]
           /\ waiting' = Append(waiting, r)
           /\ UNCHANGED <<held, finished_req_ids, skipped_waiting,
                          num_waiting_for_streaming_input>>
  <2>1. UpdatedSession(Popped(q)) \in AnyRequest
    BY PoppedFacts, UpdatedSessionFacts
  <2>2. QED BY <1>1, <1>3, <2>1
<1>4. CASE /\ request' = [request EXCEPT ![r] = [q EXCEPT !.status = "WAITING_FOR_STREAMING_REQ"]]
           /\ skipped_waiting' = Append(skipped_waiting, r)
           /\ num_waiting_for_streaming_input' = num_waiting_for_streaming_input + 1
           /\ UNCHANGED <<held, finished_req_ids, waiting>>
  <2>0. "WAITING_FOR_STREAMING_REQ" \in Statuses
    BY DEF Statuses, Blocked
  <2>1. [q EXCEPT !.status = "WAITING_FOR_STREAMING_REQ"] \in AnyRequest
    BY <2>0, Zenon DEF AnyRequest
  <2>2. QED BY <1>1, <1>4, <2>1
<1>5. QED BY <1>2, <1>3, <1>4, StopCases

\* A delivered output leaves the state typed.
LEMMA TypedDeliver ==
  ASSUME Typed, NEW accepted \in Int, NEW eos \in Int, NEW error, NEW drafts \in Int,
         Deliver(accepted, eos, error, drafts)
  PROVE  Typed'
<1> DEFINE e == Head(todo)
           r == e.req
           q == Output(e, accepted, eos, drafts)
<1>1. Delivered(e, r, q, accepted, eos, error, drafts)
  BY DeliverFacts
<1>2. e \in StepEntry /\ r \in Reqs /\ e.prefix \in Int /\ Tail(todo) \in Seq(StepEntry)
  BY <1>1, HeadFacts DEF Delivered
<1>3. q \in AnyRequest /\ Took(e, accepted) \in Int
  BY <1>1, OutputFacts DEF Delivered
<1> HIDE DEF r, q
<1>4. /\ request' \in [Reqs -> AnyRequest] /\ held' \in [Reqs -> Int]
      /\ finished_req_ids' \in SUBSET Reqs
      /\ waiting' \in Seq(Reqs) /\ skipped_waiting' \in Seq(Reqs)
      /\ num_waiting_for_streaming_input' \in Int
  <2>1. CASE Stop(r, q, error)
    BY <1>2, <1>3, <2>1, StopTyped
  <2>2. CASE /\ request' = [request EXCEPT ![r] = q]
             /\ UNCHANGED <<held, finished_req_ids, waiting, skipped_waiting,
                            num_waiting_for_streaming_input, stopped>>
    BY <2>2, <1>3 DEF Typed
  <2>3. QED BY <1>1, <2>1, <2>2 DEF Delivered
<1>5. stopped' \in [running : SUBSET Reqs, preempted : SUBSET Reqs]
  <2>1. stopped \in [running : SUBSET Reqs, preempted : SUBSET Reqs]
    BY DEF Typed
  <2>2. \/ stopped' = [stopped EXCEPT !.running = @ \cup {r}]
        \/ stopped' = [stopped EXCEPT !.preempted = @ \cup {r}]
        \/ stopped' = stopped
    BY <1>1 DEF Delivered
  <2>3. QED BY <2>1, <2>2, <1>2
<1>6. sampled' \in [Reqs -> Int]
  <2>1. sampled[e.req] \in Int
    BY <1>2 DEF Typed, r
  <2>2. SampledBefore(e) \in Int
    BY <1>2, <2>1 DEF SampledBefore
  <2>3. SampledBefore(e) + Took(e, accepted) \in Int
    BY <2>2, <1>3
  <2>4. sampled' = [sampled EXCEPT ![r] = SampledBefore(e) + Took(e, accepted)]
    BY <1>1 DEF Delivered
  <2>5. sampled \in [Reqs -> Int]
    BY DEF Typed
  <2>6. QED BY <2>3, <2>4, <2>5
<1>7. QED BY <1>1, <1>2, <1>4, <1>5, <1>6 DEF Typed, env, Delivered

\* finish_requests leaves its variables typed.
LEMMA FinishTyped ==
  ASSUME Typed, NEW S \in SUBSET Reqs, NEW run \in Seq(Reqs), NEW w \in Seq(Reqs),
         NEW k \in Seq(Reqs), NEW f \in SUBSET Reqs, FinishRequests(S, run, w, k, f)
  PROVE  /\ running' \in Seq(Reqs) /\ waiting' \in Seq(Reqs) /\ skipped_waiting' \in Seq(Reqs)
         /\ request' \in [Reqs -> AnyRequest] /\ held' \in [Reqs -> Int]
         /\ finished_req_ids' \in SUBSET Reqs
         /\ num_waiting_for_streaming_input' \in Int
<1>1. remove_requests(run, S) \in Seq(Reqs)
  BY RemoveFacts
<1>2. remove_requests(w, S) \in Seq(Reqs)
  BY RemoveFacts
<1>3. remove_requests(k, S) \in Seq(Reqs)
  BY RemoveFacts
<1>4. \A r \in Reqs : Gone(r) \in AnyRequest
  BY NewRequestTyped DEF Typed
<1>5. request' = [r \in Reqs |-> IF r \in S THEN Gone(r) ELSE request[r]]
      /\ held' = [r \in Reqs |-> IF r \in S THEN 0 ELSE held[r]]
  BY Zenon DEF FinishRequests
<1>6. request' \in [Reqs -> AnyRequest] /\ held' \in [Reqs -> Int]
  BY <1>4, <1>5 DEF Typed
<1>7. {r \in S : request[r].status = "WAITING_FOR_STREAMING_REQ"} \in SUBSET Reqs
  OBVIOUS
<1>8. Cardinality({r \in S : request[r].status = "WAITING_FOR_STREAMING_REQ"}) \in Nat
  BY <1>7, ReqsFinite
<1>9. num_waiting_for_streaming_input' \in Int
  BY <1>8 DEF Typed, FinishRequests
<1>10. QED BY <1>1, <1>2, <1>3, <1>6, <1>9 DEF FinishRequests

\* The end of update_from_output leaves the state typed.
LEMMA TypedEndOutput == ASSUME Typed, EndOutput PROVE Typed'
<1> DEFINE S == grammar_compile_error_reqs \cap LiveReqs
           run == remove_requests(running, stopped.running)
           w == Leave(waiting, stopped.preempted)
           k == Leave(skipped_waiting, stopped.preempted)
<1>1. FinishRequests(S, run, w, k, finished_req_ids)
  BY Zenon DEF EndOutput
<1>2. S \in SUBSET Reqs /\ finished_req_ids \in SUBSET Reqs
  BY DEF Typed
<1>3. run \in Seq(Reqs)
  BY RemoveFacts DEF Typed
<1>4. w \in Seq(Reqs) 
  BY RemoveFacts DEF Typed, Leave
<1>5. k \in Seq(Reqs) 
  BY RemoveFacts DEF Typed, Leave
<1> HIDE DEF S, run, w, k
<1>6. /\ running' \in Seq(Reqs) /\ waiting' \in Seq(Reqs) /\ skipped_waiting' \in Seq(Reqs)
      /\ request' \in [Reqs -> AnyRequest] /\ held' \in [Reqs -> Int]
      /\ finished_req_ids' \in SUBSET Reqs
      /\ num_waiting_for_streaming_input' \in Int
  BY <1>1, <1>2, <1>3, <1>4, <1>5, FinishTyped
<1>7. stopped' \in [running : SUBSET Reqs, preempted : SUBSET Reqs]
  BY DEF EndOutput, NobodyStopped
<1>8. QED BY <1>6, <1>7 DEF Typed, EndOutput, env, worker

\* add_request leaves the state typed.
LEMMA TypedAddRequest == ASSUME Typed, NEW r \in Reqs, AddRequest(r) PROVE Typed'
<1> DEFINE s == IF r \in Structured THEN "WAITING_FOR_STRUCTURED_OUTPUT_GRAMMAR" ELSE "WAITING"
<1>1. request[r] \in AnyRequest /\ s \in Statuses
  BY DEF Typed, Statuses, Blocked
<1>2. request' = [request EXCEPT ![r].status = s]
  BY DEF AddRequest
<1> HIDE DEF s
<1>3. [request[r] EXCEPT !.status = s] \in AnyRequest
  BY <1>1, Zenon DEF AnyRequest
<1>4. request' = [request EXCEPT ![r] = [request[r] EXCEPT !.status = s]]
  BY <1>2
<1>5. request' \in [Reqs -> AnyRequest]
  BY <1>3, <1>4 DEF Typed
<1>6. waiting' \in Seq(Reqs) /\ skipped_waiting' \in Seq(Reqs)
  <2>1. Append(waiting, r) \in Seq(Reqs) /\ Append(skipped_waiting, r) \in Seq(Reqs)
        /\ waiting \in Seq(Reqs) /\ skipped_waiting \in Seq(Reqs)
    BY DEF Typed
  <2>2. \/ waiting' = waiting /\ skipped_waiting' = Append(skipped_waiting, r)
        \/ waiting' = Append(waiting, r) /\ skipped_waiting' = skipped_waiting
    BY Zenon DEF AddRequest, add_request
  <2>3. QED BY <2>1, <2>2
<1>7. QED BY <1>5, <1>6 DEF Typed, AddRequest, notices, env, worker, output

\* An abort leaves the state typed.
LEMMA TypedAbort == ASSUME Typed, NEW r \in Reqs, Abort(r) PROVE Typed'
<1>1. FinishRequests({r}, running, waiting, skipped_waiting, finished_req_ids)
  BY Zenon DEF Abort
<1>2. {r} \in SUBSET Reqs /\ running \in Seq(Reqs) /\ waiting \in Seq(Reqs)
      /\ skipped_waiting \in Seq(Reqs) /\ finished_req_ids \in SUBSET Reqs
  BY DEF Typed
<1>3. /\ running' \in Seq(Reqs) /\ waiting' \in Seq(Reqs) /\ skipped_waiting' \in Seq(Reqs)
      /\ request' \in [Reqs -> AnyRequest] /\ held' \in [Reqs -> Int]
      /\ finished_req_ids' \in SUBSET Reqs
      /\ num_waiting_for_streaming_input' \in Int
  BY <1>1, <1>2, FinishTyped
<1>4. QED BY <1>3 DEF Typed, Abort, env, worker, output

\* The two ways a session's update is taken.
LEMMA AddUpdateCases ==
  ASSUME NEW r, NEW update, AddUpdate(r, update)
  PROVE  /\ BetweenSteps /\ r \in Sessions /\ Live(r)
         /\ \/ /\ request[r].status # "WAITING_FOR_STREAMING_REQ"
               /\ request' = [request EXCEPT ![r] = [request[r] EXCEPT
                                !.streaming_queue = Append(@, update)]]
               /\ UNCHANGED <<held, queues, finished_req_ids, num_waiting_for_streaming_input>>
            \/ /\ request[r].status = "WAITING_FOR_STREAMING_REQ"
               /\ request' = [request EXCEPT ![r] = UpdatedSession(request[r])]
               /\ num_waiting_for_streaming_input' = num_waiting_for_streaming_input - 1
               /\ UNCHANGED <<held, queues, finished_req_ids>>
            \/ /\ request[r].status = "WAITING_FOR_STREAMING_REQ"
               /\ FinishRequests({r}, running, waiting, skipped_waiting, finished_req_ids)
         /\ UNCHANGED <<pc, reset_preempted_req_ids, grammar_compile_error_reqs, pause_state,
                        config, grammar, worker, loc, output>>
  BY Zenon DEF AddUpdate

\* A session's update leaves the state typed.
LEMMA TypedAddUpdate ==
  ASSUME Typed, NEW r \in Reqs, NEW update \in {"chunk", "end"}, AddUpdate(r, update)
  PROVE  Typed'
<1>1. request[r] \in AnyRequest /\ request[r].streaming_queue \in Seq({"chunk", "end"})
  BY DEF Typed, AnyRequest
<1>2. /\ running' \in Seq(Reqs) /\ waiting' \in Seq(Reqs) /\ skipped_waiting' \in Seq(Reqs)
      /\ request' \in [Reqs -> AnyRequest] /\ held' \in [Reqs -> Int]
      /\ finished_req_ids' \in SUBSET Reqs
      /\ num_waiting_for_streaming_input' \in Int
  <2>1. CASE /\ request' = [request EXCEPT ![r] = [request[r] EXCEPT
                                !.streaming_queue = Append(@, update)]]
             /\ UNCHANGED <<held, queues, finished_req_ids, num_waiting_for_streaming_input>>
    <3>1. Append(request[r].streaming_queue, update) \in Seq({"chunk", "end"})
      BY <1>1
    <3>2. [request[r] EXCEPT !.streaming_queue = Append(@, update)] \in AnyRequest
      BY <3>1, <1>1, Zenon DEF AnyRequest
    <3>3. request' \in [Reqs -> AnyRequest]
      BY <3>2, <2>1 DEF Typed
    <3>4. QED BY <3>3, <2>1 DEF Typed, queues
  <2>2. CASE /\ request' = [request EXCEPT ![r] = UpdatedSession(request[r])]
             /\ num_waiting_for_streaming_input' = num_waiting_for_streaming_input - 1
             /\ UNCHANGED <<held, queues, finished_req_ids>>
    <3>1. UpdatedSession(request[r]) \in AnyRequest
      BY <1>1, UpdatedSessionFacts
    <3>2. QED BY <3>1, <2>2 DEF Typed, queues
  <2>3. CASE FinishRequests({r}, running, waiting, skipped_waiting, finished_req_ids)
    <3>1. {r} \in SUBSET Reqs /\ running \in Seq(Reqs) /\ waiting \in Seq(Reqs)
          /\ skipped_waiting \in Seq(Reqs) /\ finished_req_ids \in SUBSET Reqs
      BY DEF Typed
    <3>2. QED BY <2>3, <3>1, FinishTyped
  <2>4. QED BY <2>1, <2>2, <2>3, AddUpdateCases
<1>3. UNCHANGED <<pc, reset_preempted_req_ids, grammar_compile_error_reqs, pause_state,
                  config, grammar, worker, loc, output>>
  BY AddUpdateCases
<1>4. QED BY <1>2, <1>3 DEF Typed, worker, output

\* reset_prefix_cache leaves the state typed.
LEMMA TypedReset == ASSUME Typed, ResetPrefixCache PROVE Typed'
<1>1. \A r \in Reqs : request[r] \in AnyRequest
  BY DEF Typed
<1>2. \A r \in Reqs : Preempted(request[r], TRUE) \in AnyRequest
  BY <1>1, PreemptedTyped
<1>3. /\ request' = [r \in Reqs |-> IF r \in ToSet(running) THEN Preempted(request[r], TRUE)
                                ELSE request[r]]
      /\ held' = [r \in Reqs |-> IF r \in ToSet(running) THEN 0 ELSE held[r]]
      /\ waiting' = running \o waiting
      /\ reset_preempted_req_ids' = reset_preempted_req_ids \cup ToSet(running)
  BY Zenon DEF ResetPrefixCache
<1>4. request' \in [Reqs -> AnyRequest] /\ held' \in [Reqs -> Int]
  <2>1. request' \in [Reqs -> AnyRequest]
    BY <1>1, <1>2, <1>3
  <2>2. held' \in [Reqs -> Int]
    BY <1>3 DEF Typed
  <2>3. QED BY <2>1, <2>2
<1>5. reset_preempted_req_ids' \in SUBSET Reqs
  BY <1>3, VictimFacts DEF Typed, ResetPrefixCache
<1>6. waiting' \in Seq(Reqs)
  BY <1>3 DEF Typed
<1>60. running' \in Seq(Reqs)
  BY DEF ResetPrefixCache
<1>7. QED BY <1>4, <1>5, <1>6, <1>60 DEF Typed, ResetPrefixCache, env, worker, output

\* A pause leaves the state typed.
LEMMA TypedPause ==
  ASSUME Typed, NEW p \in {"UNPAUSED", "PAUSED_NEW", "PAUSED_ALL"}, set_pause_state(p)
  PROVE  Typed'
  BY DEF Typed, set_pause_state, queues, notices, env, worker, output

\* A compiled grammar, or its error, leaves the state typed.
LEMMA TypedGrammarDone ==
  ASSUME Typed, NEW r \in Reqs, NEW result, GrammarDone(r, result) PROVE Typed'
  BY DEF Typed, GrammarDone, queues, notices, worker, output

\* So does a step of somebody else.
LEMMA TypedStutter == ASSUME Typed, UNCHANGED vars PROVE Typed'
  BY DEF Typed, vars, queues, notices, env, worker, output

\* Every step leaves the state typed.
LEMMA TypedNext == ASSUME Typed, [Next]_vars PROVE Typed'
<1>1. ASSUME Schedule PROVE Typed'
  BY <1>1, TypedBegin, TypedSkipRunning, TypedScheduleRunning, TypedPreemptForRunning,
     TypedEndRunning, TypedSkipWaiting, TypedAdmit, TypedStopWaiting, TypedEndWaiting,
     TypedCommit DEF Schedule
<1>2. ASSUME UpdateFromOutput PROVE Typed'
  <2>1. NumSpec \in Nat
    BY ConfigFacts DEF Typed
  <2>2. ASSUME NEW accepted \in 0 .. NumSpec, NEW eos \in 0 .. NumSpec + 1,
               NEW error \in BOOLEAN, NEW drafts \in {0, NumSpec},
               Deliver(accepted, eos, error, drafts)
        PROVE  Typed'
    <3>1. accepted \in Int /\ eos \in Int /\ drafts \in Int
      BY <2>1
    <3>2. QED BY <3>1, <2>2, TypedDeliver
  <2>3. QED BY <1>2, <2>2, TypedBeginOutput, TypedDropOutput, TypedEndOutput
            DEF UpdateFromOutput
<1>3. ASSUME GrammarStep PROVE Typed'
  BY <1>3, TypedGrammarDone DEF GrammarStep
<1>4. ASSUME Handlers PROVE Typed'
  BY <1>4, TypedAddRequest, TypedAbort, TypedAddUpdate, TypedReset, TypedPause DEF Handlers
<1>5. QED BY <1>1, <1>2, <1>3, <1>4, TypedStutter DEF Next

(* Every variable of the scheduler stays in its domain, the counters of a       *)
(* request being integers: no handler writes a field that another does not know *)
(* (schedule, update_from_output and the request handlers of scheduler.py).     *)
THEOREM TypedInvariant == Spec => []Typed
<1>1. Init => Typed
  BY TypedInit
<1>2. Typed /\ [Next]_vars => Typed'
  BY TypedNext
<1>3. QED BY <1>1, <1>2, PTL DEF Spec

---------------------------------------------------------------------------
(* Phases, steps and queues.                                               *)

\* No request has two entries in a step.
OncePerStep(step) == \A i, j \in DOMAIN step : step[i].req = step[j].req => i = j

WithStatus(s) == {r \in Reqs : request[r].status = s}

InSchedule == pc \in {"running", "waiting", "commit"}

\* Where in the loop the locals of a handler hold something.
Phases ==
  /\ pc \in {"idle", "output"} => loc = Idle
  /\ pc # "waiting" => loc.step_skipped = <<>>
  /\ pc # "output" => todo = <<>> /\ stopped = NobodyStopped
  /\ Len(inflight) + (IF pc = "idle" THEN 0 ELSE 1) <= Depth

\* The first state is between two calls.
LEMMA PhasesInit == ASSUME Init PROVE Phases
<1>1. Typed
  BY TypedInit
<1>2. Depth \in Nat \ {0}
  BY <1>1, ConfigFacts DEF Typed
<1>3. QED BY <1>2 DEF Init, Phases, Idle

\* The locals of a handler are empty outside it, and no more steps are in
\* flight than the depth allows.
LEMMA PhasesNext == ASSUME Typed, Phases, [Next]_vars PROVE Phases'
<1>1. /\ Len(inflight) \in Nat /\ Depth \in Nat \ {0} /\ inflight \in Seq(Seq(StepEntry))
      /\ loc \in Locals /\ config \in Configs
  BY ConfigFacts DEF Typed
<1>2. CASE BeginSchedule
  <2>1. loc' = [Idle EXCEPT !.token_budget = IF pause_state = "PAUSED_ALL" THEN 0
                                          ELSE TokenBudget]
    BY <1>2, Zenon DEF BeginSchedule
  <2>2. loc'.step_skipped = <<>>
    BY <2>1 DEF Idle
  <2>3. QED BY <1>1, <1>2, <2>2 DEF BeginSchedule, Phases, env, worker, output, Depth
<1>3. CASE SkipRunning
  <2>1. loc' = [loc EXCEPT !.idx = @ + 1]
    BY <1>3, Zenon DEF SkipRunning
  <2>2. loc'.step_skipped = loc.step_skipped
    BY <2>1, <1>1 DEF Locals
  <2>3. QED BY <1>1, <1>3, <2>2 DEF SkipRunning, RunningTurn, Phases, env, worker, output, Depth
<1>4. CASE ScheduleRunning
  <2>1. loc'.step_skipped = loc.step_skipped
    BY <1>1, <1>4 DEF ScheduleRunning, Locals
  <2>3. QED BY <1>1, <1>4, <2>1 DEF ScheduleRunning, RunningTurn, Phases, env, worker, output, Depth
<1>5. CASE PreemptForRunning
  <2> DEFINE w == IF Victim = running[loc.idx] THEN 0 ELSE NumNewTokens(request[running[loc.idx]])
  <2>1. /\ loc' = [WithoutVictim(Victim) EXCEPT !.want = w]
        /\ pc' = IF Victim = running[loc.idx] THEN "commit" ELSE "running"
        /\ Victim \in ToSet(running)
    BY <1>5, PreemptFacts, Zenon
  <2> HIDE DEF w
  <2>2. WithoutVictim(Victim) = [loc EXCEPT !.idx = IndexWithout(Victim),
                                  !.token_budget = loc.token_budget + RestoredTokens(Victim),
                                  !.batch = BatchWithout(Victim), !.preempted = TRUE]
    BY <2>1, WithoutVictimFacts
  <2>3. loc'.step_skipped = loc.step_skipped
    BY <2>1, <2>2, <1>1 DEF Locals
  <2>4. QED BY <1>1, <1>5, <2>1, <2>3 DEF PreemptForRunning, RunningTurn, Phases, env, worker, output, Depth
<1>6. CASE EndRunning
  BY <1>6, <1>1 DEF EndRunning, Phases, env, worker, output, Depth
<1>7. CASE SkipWaiting
  BY <1>7, <1>1 DEF SkipWaiting, WaitingTurn, Phases, env, worker, output, Depth
<1>8. ASSUME NEW found, Admit(found) PROVE Phases'
  <2>1. pc = "waiting" /\ UNCHANGED <<pc, env, worker, output>>
    BY <1>8 DEF Admit, WaitingTurn
  <2>2. QED BY <1>1, <2>1 DEF Phases, env, worker, output, Depth
<1>9. ASSUME Requeue, pc = "waiting" PROVE Phases'
  <2>1. loc' = [loc EXCEPT !.step_skipped = <<>>] /\ pc' = "commit"
    BY <1>9, Zenon DEF Requeue
  <2>2. loc'.step_skipped = <<>>
    BY <2>1, <1>1 DEF Locals
  <2>3. UNCHANGED <<env, worker, output>>
    BY <1>9 DEF Requeue
  <2>4. QED BY <1>1, <1>9, <2>1, <2>2, <2>3 DEF Phases, env, worker, output, Depth
<1>10. CASE Commit
  <2>1. loc' = Idle /\ pc' = "idle" /\ pc = "commit" /\ UNCHANGED <<env, output>>
    BY <1>10, Zenon DEF Commit
  <2>2. inflight' = Append(inflight, LaunchedStep)
    BY <1>10, CommitFacts
  <2>3. Len(inflight') = Len(inflight) + 1
    BY <1>1, <2>2
  <2>4. QED BY <1>1, <2>1, <2>3 DEF Phases, env, output, Depth, Idle
<1>11. CASE BeginOutput
  <2>1. Len(inflight') = Len(inflight) - 1
    BY <1>1, <1>11 DEF BeginOutput
  <2>2. QED BY <1>1, <1>11, <2>1 DEF BeginOutput, Phases, env, Depth, Idle
<1>12. CASE DropOutput
  <2>1. pc = "output" /\ UNCHANGED <<pc, env, worker, loc, stopped>>
    BY <1>12 DEF DropOutput, OutputTurn
  <2>2. QED BY <1>1, <2>1 DEF Phases, env, worker, Depth
<1>13. ASSUME NEW a, NEW b, NEW c, NEW d, Deliver(a, b, c, d) PROVE Phases'
  <2>1. pc = "output" /\ UNCHANGED <<pc, env, inflight, loc>>
    BY <1>13, DeliverFacts DEF Delivered, OutputTurn
  <2>2. QED BY <1>1, <2>1 DEF Phases, env, Depth
<1>14. CASE EndOutput
  BY <1>14, <1>1 DEF EndOutput, Phases, env, worker, Depth
<1>15. ASSUME UNCHANGED <<pc, config, inflight, loc, output>> PROVE Phases'
  BY <1>15 DEF Phases, output, Depth
<1>16. ASSUME GrammarStep PROVE Phases'
  <2>1. UNCHANGED <<pc, config, inflight, loc, output>>
    BY <1>16 DEF GrammarStep, GrammarDone, worker
  <2>2. QED BY <2>1, <1>15
<1>17. ASSUME Handlers PROVE Phases'
  <2>1. UNCHANGED <<pc, config, inflight, loc, output>>
    BY <1>17, Zenon DEF Handlers, AddRequest, Abort, AddUpdate, ResetPrefixCache,
         set_pause_state, worker, env
  <2>2. QED BY <2>1, <1>15
<1>18. ASSUME UNCHANGED vars PROVE Phases'
  <2>1. UNCHANGED <<pc, config, inflight, loc, output>>
    BY <1>18 DEF vars, worker, env
  <2>2. QED BY <2>1, <1>15
<1>19. ASSUME Schedule PROVE Phases'
  <2>1. CASE EndWaiting
    BY <1>9, <2>1 DEF EndWaiting
  <2>2. ASSUME NEW found, WaitingTurn, StopWaiting(found) PROVE Phases'
    BY <1>9, <2>2 DEF StopWaiting, WaitingTurn
  <2>3. QED BY <1>19, <2>1, <2>2, <1>2, <1>3, <1>4, <1>5, <1>6, <1>7, <1>8, <1>10 DEF Schedule
<1>20. ASSUME UpdateFromOutput PROVE Phases'
  BY <1>20, <1>11, <1>12, <1>13, <1>14 DEF UpdateFromOutput
<1>21. QED BY <1>16, <1>17, <1>18, <1>19, <1>20 DEF Next

\* The steps in flight, and what is left of the one update_from_output is at.
Steps == {inflight[i] : i \in DOMAIN inflight} \cup {todo}

StepSound(step) ==
  /\ OncePerStep(step)
  /\ \A i \in DOMAIN step :
       /\ step[i].n > 0
       /\ request[step[i].req].status # "NEW"
       /\ Depth = 1 /\ Live(step[i].req) => request[step[i].req].status = "RUNNING"

StepsSound == \A step \in Steps : StepSound(step)

BatchSound ==
  /\ OncePerStep(loc.batch)
  /\ \A i \in DOMAIN loc.batch :
       /\ loc.batch[i].n > 0
       /\ request[loc.batch[i].req].status = "RUNNING"
       /\ pc = "running" => \E k \in DOMAIN running : k < loc.idx /\ running[k] = loc.batch[i].req

Queued == ToSet(waiting) \cup ToSet(skipped_waiting) \cup ToSet(loc.step_skipped)

Queues ==
  /\ Distinct(waiting) /\ Distinct(skipped_waiting) /\ Distinct(running)
  /\ Distinct(loc.step_skipped)
  /\ ToSet(waiting) \cap ToSet(skipped_waiting) = {}
  /\ ToSet(waiting) \cap ToSet(loc.step_skipped) = {}
  /\ ToSet(skipped_waiting) \cap ToSet(loc.step_skipped) = {}
  /\ stopped.running \subseteq ToSet(running)
  /\ ToSet(running) \ stopped.running = WithStatus("RUNNING")
  /\ stopped.preempted \subseteq WithStatus("FINISHED")
  /\ Queued \ stopped.preempted = LiveReqs \ WithStatus("RUNNING")
  /\ \A r \in Reqs : request[r].status \in Blocked => r \notin ToSet(waiting)

SameStatus == \A r \in Reqs : request'[r].status = request[r].status
NowStatus(S, s) == \A r \in Reqs : request'[r].status = IF r \in S THEN s ELSE request[r].status

Base == Typed /\ Phases /\ StepsSound /\ BatchSound /\ Queues

\* A queue holds requests.
LEMMA QueueElements ==
  ASSUME Typed
  PROVE  /\ ToSet(waiting) \in SUBSET Reqs /\ ToSet(skipped_waiting) \in SUBSET Reqs
         /\ ToSet(running) \in SUBSET Reqs /\ ToSet(loc.step_skipped) \in SUBSET Reqs
<1>1. ASSUME NEW q \in Seq(Reqs) PROVE ToSet(q) \in SUBSET Reqs
  <2>1. \A i \in DOMAIN q : q[i] \in Reqs
    OBVIOUS
  <2>2. QED BY <2>1 DEF ToSet
<1>2. /\ waiting \in Seq(Reqs) /\ skipped_waiting \in Seq(Reqs) /\ running \in Seq(Reqs)
      /\ loc.step_skipped \in Seq(Reqs)
  BY DEF Typed, Locals
<1>3. QED BY <1>1, <1>2

\* What a change of one status does to the requests of a status.
LEMMA ChangedStatus ==
  ASSUME Typed, NEW c \in Reqs, NEW p, request' = [request EXCEPT ![c] = p]
  PROVE  NowStatus({c}, p.status) /\ (p.status = request[c].status => SameStatus)
  BY DEF Typed, NowStatus, SameStatus

\* The first queues are empty.
LEMMA QueuesInit == ASSUME Init PROVE StepsSound /\ BatchSound /\ Queues
<1>1. Typed
  BY TypedInit
<1>2. \A r \in Reqs : request[r].status = "NEW"
  BY DEF Init, NewRequest
<1>3. ToSet(<<>>) = {} /\ Distinct(<<>>)
  BY EmptyFacts
<1>4. waiting = <<>> /\ skipped_waiting = <<>> /\ running = <<>> /\ loc.step_skipped = <<>>
      /\ loc.batch = <<>> /\ stopped.running = {} /\ stopped.preempted = {}
      /\ inflight = <<>> /\ todo = <<>>
  BY DEF Init, Idle, NobodyStopped
<1>5. StepsSound
  BY <1>4 DEF StepsSound, Steps, StepSound, OncePerStep
<1>6. BatchSound
  BY <1>4 DEF BatchSound, OncePerStep
<1>7. LiveReqs = {} /\ WithStatus("RUNNING") = {}
  BY <1>2 DEF LiveReqs, Live, WithStatus
<1>8. Queues
  BY <1>2, <1>3, <1>4, <1>7 DEF Queues, Queued, Blocked
<1>9. QED BY <1>5, <1>6, <1>8

\* Nothing that Queues is about changes.
LEMMA QueuesSame ==
  ASSUME Queues, SameStatus, UNCHANGED <<queues, stopped>>, loc'.step_skipped = loc.step_skipped
  PROVE  Queues'
<1>1. WithStatus("RUNNING")' = WithStatus("RUNNING") /\ LiveReqs' = LiveReqs
      /\ WithStatus("FINISHED")' = WithStatus("FINISHED")
  BY DEF SameStatus, WithStatus, LiveReqs, Live
<1>2. \A r \in Reqs : request'[r].status \in Blocked => request[r].status \in Blocked
  BY DEF SameStatus
<1>3. Queued' = Queued
  BY DEF Queued, queues
<1>4. QED BY <1>1, <1>2, <1>3 DEF Queues, queues

\* With steps one at a time, none is in flight while one is built or a client
\* calls.
LEMMA NoSteps ==
  ASSUME Typed, Phases, Depth = 1, InSchedule \/ BetweenSteps
  PROVE  inflight = <<>> /\ todo = <<>>
<1>1. inflight \in Seq(Seq(StepEntry))
  BY DEF Typed
<1>2. CASE InSchedule
  <2>1. Len(inflight) <= 0 /\ todo = <<>>
    BY <1>1, <1>2 DEF Phases, InSchedule
  <2>2. QED BY <1>1, <2>1
<1>3. CASE BetweenSteps
  BY <1>3 DEF BetweenSteps, Phases
<1>4. QED BY <1>2, <1>3

\* The status of a request that has been added is never "NEW" again, and with steps
\* one at a time nothing is in flight: the steps stay sound.
LEMMA StepsKept ==
  ASSUME Typed, Phases, StepsSound, InSchedule \/ BetweenSteps,
         UNCHANGED <<config, inflight, todo>>,
         \A r \in Reqs : request[r].status # "NEW" => request'[r].status # "NEW"
  PROVE  StepsSound'
<1>1. Steps' = Steps /\ Depth' = Depth
  BY DEF Steps, Depth
<1>2. ASSUME NEW step \in Steps, NEW i \in DOMAIN step PROVE step[i].req \in Reqs
  <2>1. inflight \in Seq(Seq(StepEntry)) /\ todo \in Seq(StepEntry)
    BY DEF Typed
  <2>2. step \in Seq(StepEntry)
    BY <2>1 DEF Steps
  <2>3. step[i] \in StepEntry
    BY <2>2
  <2>4. QED BY <2>3 DEF StepEntry
<1>3. ASSUME NEW step \in Steps PROVE StepSound(step)'
  <2>1. StepSound(step)
    BY DEF StepsSound
  <2>2. CASE Depth = 1
    <3>1. inflight = <<>> /\ todo = <<>>
      BY <2>2, NoSteps
    <3>2. step = <<>>
      BY <3>1 DEF Steps
    <3>3. QED BY <3>2 DEF StepSound, OncePerStep
  <2>3. CASE Depth # 1
    BY <2>1, <2>3, <1>1, <1>2 DEF StepSound, OncePerStep
  <2>4. QED BY <2>2, <2>3
<1>4. QED BY <1>1, <1>3 DEF StepsSound

\* A sound step stays sound when no request becomes new, nor, with steps one at a
\* time, changes its status unless it is finished.
LEMMA StepStays ==
  ASSUME UNCHANGED config, NEW step \in Seq(StepEntry), StepSound(step),
         \A i \in DOMAIN step :
           /\ request'[step[i].req].status # "NEW"
           /\ Depth = 1 => request'[step[i].req].status
                             \in {"FINISHED", request[step[i].req].status}
  PROVE  StepSound(step)'
<1>1. Depth' = Depth
  BY DEF Depth
<1>2. QED BY <1>1 DEF StepSound, OncePerStep, Live

\* The steps hold entries of requests.
LEMMA StepTyped ==
  ASSUME Typed, NEW step \in Steps
  PROVE  /\ step \in Seq(StepEntry)
         /\ \A i \in DOMAIN step : step[i] \in StepEntry /\ step[i].req \in Reqs
<1>1. inflight \in Seq(Seq(StepEntry)) /\ todo \in Seq(StepEntry)
  BY DEF Typed
<1>2. step \in Seq(StepEntry)
  BY <1>1 DEF Steps
<1>3. \A i \in DOMAIN step : step[i] \in StepEntry
  BY <1>2
<1>4. QED BY <1>2, <1>3 DEF StepEntry

\* So do all of them.
LEMMA StepsSame ==
  ASSUME Typed, StepsSound, UNCHANGED config, Steps' \subseteq Steps,
         \A r \in Reqs : request'[r].status \in {"FINISHED", request[r].status}
  PROVE  StepsSound'
<1>1. ASSUME NEW step \in Steps PROVE StepSound(step)'
  <2>1. StepSound(step)
    BY DEF StepsSound
  <2>2. step \in Seq(StepEntry) /\ \A i \in DOMAIN step : step[i].req \in Reqs
    BY StepTyped
  <2>3. \A i \in DOMAIN step :
           /\ request'[step[i].req].status # "NEW"
           /\ Depth = 1 => request'[step[i].req].status
                             \in {"FINISHED", request[step[i].req].status}
    BY <2>1, <2>2 DEF StepSound
  <2>4. QED BY <2>1, <2>2, <2>3, StepStays
<1>2. QED BY <1>1 DEF StepsSound

\* An empty step is sound.
LEMMA BatchNone == ASSUME loc'.batch = <<>> PROVE BatchSound'
  BY DEF BatchSound, OncePerStep

\* A step under construction stays sound while its requests run.
LEMMA BatchKept ==
  ASSUME Typed, BatchSound, loc'.batch = loc.batch,
         pc' = "running" => pc = "running" /\ running' = running /\ loc'.idx >= loc.idx,
         loc'.idx \in Int,
         \A r \in Reqs : request[r].status = "RUNNING" => request'[r].status = "RUNNING"
  PROVE  BatchSound'
<1>1. \A i \in DOMAIN loc.batch : loc.batch[i].req \in Reqs
  <2>1. loc.batch \in Seq(BatchEntry)
    BY DEF Typed, Locals
  <2>2. \A i \in DOMAIN loc.batch : loc.batch[i] \in BatchEntry
    BY <2>1
  <2>3. QED BY <2>2 DEF BatchEntry
<1>2. loc.idx \in Int /\ running \in Seq(Reqs)
  BY DEF Typed, Locals
<1>3. QED BY <1>1, <1>2 DEF BatchSound, OncePerStep

---------------------------------------------------------------------------
(* schedule() and the queues.                                              *)

\* schedule() starts with an empty step.
LEMMA BaseBegin == ASSUME Base, BeginSchedule PROVE StepsSound' /\ BatchSound' /\ Queues'
<1>1. loc' = [Idle EXCEPT !.token_budget = IF pause_state = "PAUSED_ALL" THEN 0
                                          ELSE TokenBudget] /\ pc = "idle"
  BY Zenon DEF BeginSchedule
<1>2. loc'.batch = <<>> /\ loc'.step_skipped = <<>> /\ loc.step_skipped = <<>>
  BY <1>1 DEF Idle, Base, Phases
<1>3. SameStatus /\ UNCHANGED <<config, inflight, todo, queues, stopped>>
  BY DEF BeginSchedule, SameStatus, env, worker, output
<1>4. StepsSound'
  BY <1>3, StepsSame DEF Base, SameStatus, Steps
<1>5. QED BY <1>2, <1>3, <1>4, BatchNone, QueuesSame DEF Base

\* A running request that is skipped stays where it is.
LEMMA BaseSkipRunning == ASSUME Base, SkipRunning PROVE StepsSound' /\ BatchSound' /\ Queues'
<1>1. loc' = [loc EXCEPT !.idx = @ + 1] /\ loc \in Locals
  BY Zenon DEF SkipRunning, Base, Typed
<1>2. loc'.batch = loc.batch /\ loc'.step_skipped = loc.step_skipped /\ loc'.idx \in Int
      /\ loc'.idx >= loc.idx
  BY <1>1 DEF Locals
<1>3. SameStatus /\ UNCHANGED <<config, inflight, todo, queues, stopped, pc>>
  BY DEF SkipRunning, SameStatus, env, worker, output
<1>4. StepsSound'
  BY <1>3, StepsSame DEF Base, SameStatus, Steps
<1>5. BatchSound'
  BY <1>2, <1>3, BatchKept DEF Base, SameStatus, queues
<1>6. QED BY <1>2, <1>3, <1>4, <1>5, QueuesSame DEF Base

\* Outside of update_from_output, `running` holds the running requests, and no one else.
LEMMA RunningOnes ==
  ASSUME Base, pc # "output"
  PROVE  /\ ToSet(running) = WithStatus("RUNNING")
         /\ Queued = LiveReqs \ WithStatus("RUNNING")
         /\ stopped.running = {} /\ stopped.preempted = {}
<1>1. stopped.running = {} /\ stopped.preempted = {}
  BY DEF Base, Phases, NobodyStopped
<1>2. /\ ToSet(running) \ stopped.running = WithStatus("RUNNING")
      /\ Queued \ stopped.preempted = LiveReqs \ WithStatus("RUNNING")
  BY DEF Base, Queues
<1>3. ToSet(running) \ {} = ToSet(running) /\ Queued \ {} = Queued
  OBVIOUS
<1>4. QED BY <1>1, <1>2, <1>3

\* A request is put in front of a queue.
LEMMA PrependFacts ==
  ASSUME NEW A, NEW q \in Seq(A), NEW x \in A
  PROVE  /\ <<x>> \o q \in Seq(A)
         /\ ToSet(<<x>> \o q) = {x} \cup ToSet(q)
         /\ Distinct(q) /\ x \notin ToSet(q) => Distinct(<<x>> \o q)
<1> DEFINE p == <<x>>
<1>1. p \in Seq(A)
  BY SingleFacts
<1>2. ToSet(p) = {x} /\ Distinct(p)
  BY SingleFacts
<1> HIDE DEF p
<1>3. /\ p \o q \in Seq(A)
      /\ ToSet(p \o q) = ToSet(p) \cup ToSet(q)
      /\ Distinct(p) /\ Distinct(q) /\ ToSet(p) \cap ToSet(q) = {} => Distinct(p \o q)
  BY <1>1, ConcatFacts
<1>4. /\ p \o q \in Seq(A)
      /\ ToSet(p \o q) = {x} \cup ToSet(q)
      /\ Distinct(q) /\ x \notin ToSet(q) => Distinct(p \o q)
  BY <1>2, <1>3
<1>5. QED BY <1>4 DEF p

\* An entry of another request goes to the end of a step.
LEMMA OnceAppend ==
  ASSUME NEW A, NEW b \in Seq(A), NEW e \in A, OncePerStep(b),
         \A i \in DOMAIN b : b[i].req # e.req
  PROVE  /\ OncePerStep(Append(b, e))
         /\ DOMAIN Append(b, e) = 1 .. Len(b) + 1
         /\ \A i \in 1 .. Len(b) : Append(b, e)[i] = b[i]
         /\ Append(b, e)[Len(b) + 1] = e
         /\ Len(b) \in Nat /\ DOMAIN b = 1 .. Len(b)
<1> DEFINE p == Append(b, e)
<1>1. /\ DOMAIN p = 1 .. Len(b) + 1
      /\ \A i \in 1 .. Len(b) : p[i] = b[i]
      /\ p[Len(b) + 1] = e
      /\ Len(b) \in Nat /\ DOMAIN b = 1 .. Len(b)
  OBVIOUS
<1> HIDE DEF p
<1>2. ASSUME NEW i \in DOMAIN p, NEW j \in DOMAIN p, p[i].req = p[j].req PROVE i = j
  <2>1. CASE i \in 1 .. Len(b) /\ j \in 1 .. Len(b)
    <3>1. b[i].req = b[j].req
      BY <1>1, <1>2, <2>1
    <3>2. QED BY <3>1, <1>1, <2>1 DEF OncePerStep
  <2>2. CASE i = Len(b) + 1 /\ j = Len(b) + 1
    BY <2>2
  <2>3. CASE i \in 1 .. Len(b) /\ j = Len(b) + 1
    BY <1>1, <1>2, <2>3
  <2>4. CASE i = Len(b) + 1 /\ j \in 1 .. Len(b)
    BY <1>1, <1>2, <2>4
  <2>5. QED BY <1>1, <2>1, <2>2, <2>3, <2>4
<1>3. OncePerStep(p)
  BY <1>2 DEF OncePerStep
<1>4. QED BY <1>1, <1>3 DEF p

\* The tokens of a running request whose turn it is.
LEMMA TurnFacts ==
  ASSUME Base, RunningTurn
  PROVE  LET r == running[loc.idx]
         IN  /\ r \in Reqs /\ request[r] \in AnyRequest /\ request[r].status = "RUNNING"
             /\ r \in ToSet(running)
             /\ NumNewTokens(request[r]) \in Int
             /\ NumNewTokens(request[r]) # 0 => NumNewTokens(request[r]) > 0
<1> DEFINE r == running[loc.idx]
           n == NumNewTokens(request[r])
<1>1. r \in Reqs /\ request[r] \in AnyRequest /\ loc.idx \in DOMAIN running
  BY RunningTurnFacts DEF Base
<1>2. r \in ToSet(running)
  BY <1>1 DEF ToSet
<1>3. request[r].status = "RUNNING"
  BY <1>2, RunningOnes DEF RunningTurn, WithStatus
<1>4. n \in Int /\ (loc.want <= 0 => n >= 0) /\ loc.want \in Int
  BY <1>1, NumNewTokensFacts DEF Base, Typed, Locals
<1>5. loc.want > 0 => n = loc.want
  BY DEF NumNewTokens
<1> HIDE DEF r, n
<1>6. n # 0 => n > 0
  BY <1>4, <1>5
<1>7. QED BY <1>1, <1>2, <1>3, <1>4, <1>6 DEF r, n

\* The number of drafts is an integer.
LEMMA NumDraftsInt ==
  ASSUME NEW q \in AnyRequest, NEW n \in Int PROVE NumDrafts(q, n) \in Int
  BY DEF NumDrafts, AtMost, AtLeast, AnyRequest

\* A running request gets an entry only once.
LEMMA BaseScheduleRunning ==
  ASSUME Base, ScheduleRunning PROVE StepsSound' /\ BatchSound' /\ Queues'
<1> DEFINE r == running[loc.idx]
           q == request[r]
           n == NumNewTokens(q)
           e == [req |-> r, n |-> n, new |-> FALSE, drafts |-> NumDrafts(q, n), padded |-> FALSE]
<1>1. loc' = [loc EXCEPT !.idx = @ + 1, !.want = 0, !.token_budget = @ - n,
                            !.prefill_scheduled = @ \/ q.is_prefill_chunk,
                            !.batch = Append(@, e)]
      /\ request' = [request EXCEPT ![r].num_spec = 0] /\ n # 0
      /\ pc = "running" /\ pc' = "running"
  BY Zenon DEF ScheduleRunning, RunningTurn
<1>2. /\ r \in Reqs /\ q \in AnyRequest /\ q.status = "RUNNING" /\ r \in ToSet(running)
      /\ n > 0 /\ n \in Int
  BY <1>1, TurnFacts DEF ScheduleRunning
<1>3. e.req = r /\ e.n = n
  OBVIOUS
<1> HIDE DEF e, n
<1>4. loc \in Locals /\ loc.batch \in Seq(BatchEntry) /\ loc.idx \in Nat \ {0} /\ running \in Seq(Reqs)
      /\ Distinct(running)
  BY DEF Base, Typed, Locals, Queues
<1>5. loc'.batch = Append(loc.batch, e) /\ loc'.idx = loc.idx + 1
      /\ loc'.step_skipped = loc.step_skipped
  BY <1>1, <1>4 DEF Locals
<1>6. UNCHANGED <<config, inflight, todo, queues, stopped, pc>>
  BY DEF ScheduleRunning, env, worker, output
<1>7. SameStatus
  <2>1. [q EXCEPT !.num_spec = 0].status = q.status
    BY <1>2 DEF AnyRequest
  <2>2. request' = [request EXCEPT ![r] = [q EXCEPT !.num_spec = 0]]
    BY <1>1
  <2>3. QED BY <2>1, <2>2, <1>2, ChangedStatus DEF Base
<1>8. StepsSound'
  BY <1>6, <1>7, StepsSame DEF Base, SameStatus, Steps
<1>9. BatchSound'
  <2> DEFINE b == loc.batch
  <2>1. b \in Seq(BatchEntry) /\ Len(b) \in Nat /\ DOMAIN b = 1 .. Len(b)
    BY <1>4
  <2>3. \A i \in 1 .. Len(b) :
          /\ b[i].n > 0 /\ request[b[i].req].status = "RUNNING" /\ b[i].req \in Reqs
          /\ \E k \in DOMAIN running : k < loc.idx /\ running[k] = b[i].req
    <3>1. \A i \in 1 .. Len(b) : b[i] \in BatchEntry
      BY <2>1
    <3>2. QED BY <2>1, <3>1, <1>1 DEF Base, BatchSound, BatchEntry
  <2>4. \A i \in 1 .. Len(b) : b[i].req # r
    BY <2>3, <1>4 DEF Distinct, r, ScheduleRunning, RunningTurn
  <2>5. OncePerStep(b)
    BY DEF Base, BatchSound
  <2>6. e \in BatchEntry
    <3>1. NumDrafts(q, n) \in Int
      BY <1>2, NumDraftsInt
    <3>2. QED BY <3>1, <1>2 DEF BatchEntry, e
  <2>2. /\ OncePerStep(loc'.batch)
        /\ DOMAIN loc'.batch = 1 .. Len(b) + 1
        /\ \A i \in 1 .. Len(b) : loc'.batch[i] = b[i]
        /\ loc'.batch[Len(b) + 1] = e
    <3> HIDE DEF b
    <3>1. loc'.batch = Append(b, e)
      BY <1>5 DEF b
    <3>2. \A i \in DOMAIN b : b[i].req # e.req
      BY <2>1, <2>4, <1>3
    <3>3. QED BY <3>1, <3>2, <2>1, <2>5, <2>6, OnceAppend
  <2>7. loc.idx \in DOMAIN running
    BY RunningTurnFacts DEF Base, ScheduleRunning
  <2>8. ASSUME NEW i \in DOMAIN loc'.batch
        PROVE  /\ loc'.batch[i].n > 0
               /\ request'[loc'.batch[i].req].status = "RUNNING"
               /\ \E k \in DOMAIN running' : k < loc'.idx /\ running'[k] = loc'.batch[i].req
    <3>1. running' = running
      BY <1>6 DEF queues
    <3>2. CASE i \in 1 .. Len(b)
      <4>1. loc'.batch[i] = b[i] /\ b[i].n > 0 /\ b[i].req \in Reqs
            /\ request[b[i].req].status = "RUNNING"
        BY <3>2, <2>2, <2>3
      <4>2. request'[b[i].req].status = "RUNNING"
        BY <4>1, <1>7 DEF SameStatus
      <4>3. PICK k \in DOMAIN running : k < loc.idx /\ running[k] = b[i].req
        BY <3>2, <2>3
      <4>4. k \in Nat /\ loc'.idx = loc.idx + 1 /\ loc.idx \in Nat
        BY <1>4, <1>5
      <4>5. k \in DOMAIN running' /\ k < loc'.idx /\ running'[k] = loc'.batch[i].req
        BY <4>1, <4>3, <4>4, <3>1
      <4>6. QED BY <4>1, <4>2, <4>5
    <3>3. CASE i = Len(b) + 1
      BY <3>1, <3>3, <2>2, <2>7, <1>2, <1>3, <1>4, <1>5, <1>7 DEF SameStatus, r
    <3>4. QED BY <2>1, <2>2, <3>2, <3>3
  <2>9. QED BY <2>2, <2>8 DEF BatchSound
<1>10. QED BY <1>5, <1>6, <1>7, <1>8, <1>9, QueuesSame DEF Base

\* Where the others are once the victim has left the running list.
LEMMA VictimPlaces ==
  ASSUME Typed, Distinct(running), NEW v \in ToSet(running)
  PROVE  \A k \in DOMAIN running : running[k] # v =>
           \E j \in DOMAIN remove_requests(running, {v}) :
             /\ remove_requests(running, {v})[j] = running[k]
             /\ k < loc.idx => j < IndexWithout(v)
             /\ k = loc.idx => j = IndexWithout(v)
<1> DEFINE i == Place(running, v)
           p == remove_requests(running, {v})
<1>1. running \in Seq(Reqs) /\ loc.idx \in Nat \ {0}
  BY DEF Typed, Locals
<1>2. i \in DOMAIN running /\ i \in Nat /\ running[i] = v
  BY <1>1, PlaceOf
<1>3. IndexWithout(v) = IF i < loc.idx THEN loc.idx - 1 ELSE loc.idx
  BY DEF IndexWithout
<1> HIDE DEF i
<1>4. /\ Len(p) = Len(running) - 1
      /\ \A k \in 1 .. Len(running) - 1 : p[k] = IF k < i THEN running[k] ELSE running[k + 1]
  BY <1>1, <1>2, RemoveOne
<1>5. p \in Seq(Reqs)
  BY <1>1, RemoveFacts
<1> HIDE DEF p
<1>6. DOMAIN p = 1 .. Len(running) - 1 /\ DOMAIN running = 1 .. Len(running) /\ Len(running) \in Nat
  BY <1>1, <1>4, <1>5
<1>7. ASSUME NEW k \in DOMAIN running, running[k] # v
      PROVE  \E j \in DOMAIN p : /\ p[j] = running[k]
                                 /\ k < loc.idx => j < IndexWithout(v)
                                 /\ k = loc.idx => j = IndexWithout(v)
  <2>1. k # i /\ k \in Nat
    BY <1>2, <1>6, <1>7
  <2>2. CASE k < i
    <3>1. k \in DOMAIN p /\ p[k] = running[k]
      BY <2>1, <2>2, <1>2, <1>4, <1>6
    <3>2. QED BY <3>1, <2>2, <1>1, <1>2, <1>3, <2>1
  <2>3. CASE k > i
    <3>1. k - 1 \in DOMAIN p /\ p[k - 1] = running[k]
      <4>1. k - 1 \in 1 .. Len(running) - 1 /\ ~(k - 1 < i) /\ (k - 1) + 1 = k
        BY <2>1, <2>3, <1>2, <1>6
      <4>2. QED BY <4>1, <1>4, <1>6
    <3>2. QED BY <3>1, <2>3, <1>1, <1>2, <1>3, <2>1
  <2>4. QED BY <2>1, <2>2, <2>3, <1>2
<1>8. QED BY <1>7 DEF p

\* The entries of the others stay, and the victim has none.
LEMMA BatchWithoutFacts ==
  ASSUME Typed, OncePerStep(loc.batch), NEW v
  PROVE  /\ OncePerStep(BatchWithout(v))
         /\ \A i \in DOMAIN BatchWithout(v) :
              /\ BatchWithout(v)[i].req # v
              /\ \E j \in DOMAIN loc.batch : loc.batch[j] = BatchWithout(v)[i]
<1> DEFINE b == loc.batch
           S == {loc.batch[j] : j \in Restored(v)}
           p == BatchWithout(v)
<1>1. b \in Seq(BatchEntry)
  BY DEF Typed, Locals
<1>2. p = remove_requests(b, S)
  BY DEF BatchWithout
<1> HIDE DEF p
<1>3. ToSet(p) = ToSet(b) \ S /\ (Distinct(b) => Distinct(p))
  BY <1>1, <1>2, RemoveFacts
<1>4. Distinct(b)
  BY DEF Distinct, OncePerStep
<1>5. \A i \in DOMAIN p : p[i] \in ToSet(b) /\ p[i] \notin S
  BY <1>3 DEF ToSet
<1>6. \A i \in DOMAIN p : \E j \in DOMAIN b : b[j] = p[i]
  BY <1>5 DEF ToSet
<1>7. \A i \in DOMAIN p : p[i].req # v
  BY <1>5, <1>6 DEF Restored
<1>8. OncePerStep(p)
  BY <1>3, <1>4, <1>6 DEF OncePerStep, Distinct
<1>9. QED BY <1>6, <1>7, <1>8 DEF p

\* A preempted request leaves the running list and the step for the waiting
\* queue.
LEMMA BasePreemptForRunning ==
  ASSUME Base, PreemptForRunning PROVE StepsSound' /\ BatchSound' /\ Queues'
<1> DEFINE r == running[loc.idx]
           w == IF Victim = r THEN 0 ELSE NumNewTokens(request[r])
           v == Victim
<1>1. /\ v \in ToSet(running) /\ v \in Reqs /\ request[v] \in AnyRequest
      /\ running' = remove_requests(running, {v})
      /\ waiting' = <<v>> \o waiting
      /\ request' = [request EXCEPT ![v] = Preempted(request[v], KvDelivery)]
      /\ loc' = [WithoutVictim(v) EXCEPT !.want = w]
      /\ pc' = IF v = r THEN "commit" ELSE "running"
  BY PreemptFacts DEF Base
<1>2. RunningTurn /\ UNCHANGED <<skipped_waiting, config, inflight, todo, stopped>>
  BY DEF PreemptForRunning, env, worker, output
<1> HIDE DEF w, v
<1>3. loc \in Locals /\ Distinct(running) /\ Typed /\ OncePerStep(loc.batch)
      /\ running \in Seq(Reqs) /\ waiting \in Seq(Reqs)
  BY DEF Base, Typed, Queues, BatchSound
<1>4. loc'.batch = BatchWithout(v) /\ loc'.idx = IndexWithout(v) /\ loc'.step_skipped = loc.step_skipped
  <2>1. WithoutVictim(v) = [loc EXCEPT !.idx = IndexWithout(v),
                                  !.token_budget = loc.token_budget + RestoredTokens(v),
                                  !.batch = BatchWithout(v), !.preempted = TRUE]
    BY <1>1, <1>3, WithoutVictimFacts
  <2>2. QED BY <2>1, <1>1, <1>3 DEF Locals
<1>5. NowStatus({v}, "PREEMPTED")
  <2>1. Preempted(request[v], KvDelivery).status = "PREEMPTED"
    BY <1>1 DEF Preempted, AnyRequest
  <2>2. QED BY <2>1, <1>1, <1>3, ChangedStatus
<1>6. StepsSound'
  <2>1. InSchedule
    BY <1>2 DEF RunningTurn, InSchedule
  <2>2. \A s \in Reqs : request[s].status # "NEW" => request'[s].status # "NEW"
    BY <1>5 DEF NowStatus
  <2>3. QED BY <2>1, <2>2, <1>2, StepsKept DEF Base
<1>7. BatchSound'
  <2>1. /\ OncePerStep(BatchWithout(v))
        /\ \A i \in DOMAIN BatchWithout(v) :
              /\ BatchWithout(v)[i].req # v
              /\ \E j \in DOMAIN loc.batch : loc.batch[j] = BatchWithout(v)[i]
    BY <1>3, BatchWithoutFacts
  <2>2. ASSUME NEW i \in DOMAIN loc'.batch
        PROVE  /\ loc'.batch[i].n > 0
               /\ request'[loc'.batch[i].req].status = "RUNNING"
               /\ pc' = "running" => \E k \in DOMAIN running' :
                    k < loc'.idx /\ running'[k] = loc'.batch[i].req
    <3>1. PICK j \in DOMAIN loc.batch : loc.batch[j] = loc'.batch[i]
      BY <2>1, <1>4
    <3>2. /\ loc.batch[j].n > 0 /\ request[loc.batch[j].req].status = "RUNNING"
          /\ \E k \in DOMAIN running : k < loc.idx /\ running[k] = loc.batch[j].req
      BY <1>2 DEF Base, BatchSound, RunningTurn
    <3>3. loc.batch[j].req \in Reqs /\ loc.batch[j].req # v
      <4>1. loc.batch[j] \in BatchEntry
        BY <1>3 DEF Locals
      <4>2. QED BY <4>1, <3>1, <2>1, <1>4 DEF BatchEntry
    <3>4. PICK k \in DOMAIN running : k < loc.idx /\ running[k] = loc.batch[j].req
      BY <3>2
    <3>5. \E m \in DOMAIN remove_requests(running, {v}) :
            /\ remove_requests(running, {v})[m] = running[k]
            /\ k < loc.idx => m < IndexWithout(v)
      BY <1>1, <1>3, <3>3, <3>4, VictimPlaces
    <3>6. request'[loc.batch[j].req].status = "RUNNING"
      BY <3>2, <3>3, <1>5 DEF NowStatus
    <3>7. QED BY <3>1, <3>2, <3>4, <3>5, <3>6, <1>1, <1>4
  <2>3. QED BY <2>1, <2>2, <1>4 DEF BatchSound
<1>8. Queues'
  <2>1. ToSet(running') = ToSet(running) \ {v} /\ Distinct(running')
    BY <1>1, <1>3, RemoveFacts
  <2>2. v \notin Queued
    <3>1. /\ ToSet(running) = WithStatus("RUNNING")
          /\ Queued = LiveReqs \ WithStatus("RUNNING")
      BY <1>2, RunningOnes DEF RunningTurn
    <3>2. QED BY <3>1, <1>1
  <2>3. ToSet(waiting') = {v} \cup ToSet(waiting) /\ Distinct(waiting')
    <3>1. v \notin ToSet(waiting) /\ Distinct(waiting)
      BY <2>2 DEF Queued, Base, Queues
    <3>2. waiting \in Seq(Reqs)
      BY <1>3
    <3>3. ToSet(<<v>> \o waiting) = {v} \cup ToSet(waiting) /\ Distinct(<<v>> \o waiting)
      BY <3>1, <3>2, <1>1, PrependFacts
    <3>4. QED BY <3>3, <1>1
  <2>4. ToSet(running) \in SUBSET Reqs
    BY <1>3, QueueElements
  <2>5. WithStatus("RUNNING")' = WithStatus("RUNNING") \ {v}
        /\ LiveReqs' = LiveReqs \cup {v} /\ v \in WithStatus("RUNNING")
        /\ WithStatus("FINISHED")' = WithStatus("FINISHED") \ {v}
    BY <1>1, <1>2, <1>5, RunningOnes DEF NowStatus, WithStatus, LiveReqs, Live, RunningTurn
  <2>6. stopped.running = {} /\ stopped.preempted = {}
    BY <1>2, RunningOnes DEF RunningTurn
  <2>7. Queued' = Queued \cup {v}
    BY <2>3, <1>2, <1>4 DEF Queued
  <2>8. \A s \in Reqs : request'[s].status \in Blocked => s \notin ToSet(waiting')
    BY <1>5, <2>3 DEF NowStatus, Blocked, Base, Queues
  <2>9. /\ Distinct(skipped_waiting') /\ Distinct(loc'.step_skipped)
        /\ ToSet(waiting') \cap ToSet(skipped_waiting') = {}
        /\ ToSet(waiting') \cap ToSet(loc'.step_skipped) = {}
        /\ ToSet(skipped_waiting') \cap ToSet(loc'.step_skipped) = {}
    BY <2>2, <2>3, <1>2, <1>4 DEF Queued, Base, Queues
  <2>10. ToSet(running) = WithStatus("RUNNING") /\ Queued = LiveReqs \ WithStatus("RUNNING")
    BY <1>2, RunningOnes DEF RunningTurn
  <2>11. QED BY <2>1, <2>3, <2>5, <2>6, <2>7, <2>8, <2>9, <2>10, <1>2 DEF Queues
<1>9. QED BY <1>6, <1>7, <1>8

\* The loop over running requests moves nobody.
LEMMA BaseEndRunning == ASSUME Base, EndRunning PROVE StepsSound' /\ BatchSound' /\ Queues'
<1>1. SameStatus /\ UNCHANGED <<config, inflight, todo, queues, stopped, loc>> /\ pc' # "running"
  BY DEF EndRunning, SameStatus, env, worker, output
<1>2. loc.idx \in Int
  BY DEF Base, Typed, Locals
<1>3. StepsSound'
  BY <1>1, StepsSame DEF Base, SameStatus, Steps
<1>4. BatchSound'
  BY <1>1, <1>2, BatchKept DEF Base, SameStatus, queues
<1>5. QED BY <1>1, <1>3, <1>4, QueuesSame DEF Base

\* The candidate leaves its queue.
LEMMA PopEffect ==
  ASSUME Base, WaitingTurn, PopCandidate
  PROVE  /\ Candidate \in Reqs /\ Candidate \in LiveReqs
         /\ Candidate \in ToSet(waiting) \cup ToSet(skipped_waiting)
         /\ request[Candidate].status # "RUNNING" /\ Candidate \notin ToSet(running)
         /\ ToSet(waiting') = ToSet(waiting) \ {Candidate}
         /\ ToSet(skipped_waiting') = ToSet(skipped_waiting) \ {Candidate}
         /\ Distinct(waiting') /\ Distinct(skipped_waiting')
         /\ Candidate \notin ToSet(loc.step_skipped)
         /\ Queued = LiveReqs \ WithStatus("RUNNING") /\ ToSet(running) = WithStatus("RUNNING")
         /\ stopped.running = {} /\ stopped.preempted = {}
<1> DEFINE c == Candidate
<1>1. c \in ToSet(CandidateQueue) /\ c \in Reqs
  BY CandidateFacts DEF Base
<1>2. /\ waiting' = IF FromSkipped THEN waiting ELSE remove_requests(waiting, {c})
      /\ skipped_waiting' = IF FromSkipped THEN remove_requests(skipped_waiting, {c})
                            ELSE skipped_waiting
  BY PopFacts DEF Base
<1> HIDE DEF c
<1>3. waiting \in Seq(Reqs) /\ skipped_waiting \in Seq(Reqs)
  BY DEF Base, Typed
<1>4. ToSet(remove_requests(waiting, {c})) = ToSet(waiting) \ {c}
      /\ (Distinct(waiting) => Distinct(remove_requests(waiting, {c})))
  BY <1>3, RemoveFacts
<1>5. ToSet(remove_requests(skipped_waiting, {c})) = ToSet(skipped_waiting) \ {c}
      /\ (Distinct(skipped_waiting) => Distinct(remove_requests(skipped_waiting, {c})))
  BY <1>3, RemoveFacts
<1>6. /\ Distinct(waiting) /\ Distinct(skipped_waiting)
      /\ ToSet(waiting) \cap ToSet(skipped_waiting) = {}
      /\ ToSet(waiting) \cap ToSet(loc.step_skipped) = {}
      /\ ToSet(skipped_waiting) \cap ToSet(loc.step_skipped) = {}
  BY DEF Base, Queues
<1>7. CandidateQueue = IF FromSkipped THEN skipped_waiting ELSE waiting
  BY DEF CandidateQueue
<1>8. /\ ToSet(running) = WithStatus("RUNNING")
      /\ Queued = LiveReqs \ WithStatus("RUNNING")
      /\ stopped.running = {} /\ stopped.preempted = {}
  BY RunningOnes DEF WaitingTurn
<1>9. c \in Queued /\ c \in ToSet(waiting) \cup ToSet(skipped_waiting)
  BY <1>1, <1>7 DEF Queued
<1>10. c \in LiveReqs /\ c \notin WithStatus("RUNNING")
  BY <1>8, <1>9
<1>11. /\ ToSet(waiting') = ToSet(waiting) \ {c}
       /\ ToSet(skipped_waiting') = ToSet(skipped_waiting) \ {c}
       /\ Distinct(waiting') /\ Distinct(skipped_waiting')
       /\ c \notin ToSet(loc.step_skipped)
  <2>1. CASE FromSkipped
    BY <2>1, <1>1, <1>2, <1>5, <1>6, <1>7
  <2>2. CASE ~FromSkipped
    BY <2>2, <1>1, <1>2, <1>4, <1>6, <1>7
  <2>3. QED BY <2>1, <2>2
<1>12. request[c].status # "RUNNING"
  BY <1>1, <1>10 DEF WithStatus
<1>13. QED BY <1>1, <1>8, <1>9, <1>10, <1>11, <1>12 DEF c

\* The candidate before and after its promotion and its lookup.
LEMMA CandidateLookup ==
  ASSUME Base, WaitingTurn, NEW found \in Lookups(Promoted(Candidate))
  PROVE  /\ Candidate \in Reqs /\ request[Candidate] \in AnyRequest
         /\ found.q \in AnyRequest /\ found.computed \in Int
         /\ Promoted(Candidate) \in AnyRequest
         /\ found.q.status = Promoted(Candidate).status
         /\ \/ found.q.status = request[Candidate].status
            \/ /\ request[Candidate].status = "WAITING_FOR_STRUCTURED_OUTPUT_GRAMMAR"
               /\ found.q.status = "WAITING"
<1>1. Candidate \in Reqs /\ request[Candidate] \in AnyRequest
  BY CandidateFacts DEF Base
<1>2. /\ Promoted(Candidate) \in AnyRequest
      /\ \/ Promoted(Candidate).status = request[Candidate].status
         \/ /\ request[Candidate].status = "WAITING_FOR_STRUCTURED_OUTPUT_GRAMMAR"
            /\ Promoted(Candidate).status = "WAITING"
  BY <1>1, PromotedFacts DEF Base
<1> DEFINE p == Promoted(Candidate)
<1>3. p \in AnyRequest /\ config \in Configs
  BY <1>2 DEF Base, Typed
<1> HIDE DEF p
<1>4. ASSUME NEW f \in Lookups(p)
      PROVE  f.q \in AnyRequest /\ f.computed \in Int /\ f.q.status = p.status
  <2>1. /\ f.q \in AnyRequest /\ f.computed \in Int
        /\ f.q = [p EXCEPT !.shared_prefix_boundary = f.q.shared_prefix_boundary]
    BY <1>3, LookupFacts
  <2>2. QED BY <2>1, <1>3 DEF AnyRequest
<1>5. found.q \in AnyRequest /\ found.computed \in Int /\ found.q.status = Promoted(Candidate).status
  BY <1>4 DEF p
<1>6. QED BY <1>1, <1>2, <1>5

\* A waiting request that is skipped goes to step_skipped_waiting.
LEMMA BaseSkipWaiting == ASSUME Base, SkipWaiting PROVE StepsSound' /\ BatchSound' /\ Queues'
<1> DEFINE c == Candidate
           p == Promoted(c)
<1>1. WaitingTurn /\ PopCandidate
      /\ loc' = [loc EXCEPT !.step_skipped = <<c>> \o @]
      /\ request' = [request EXCEPT ![c] = p] /\ pc = "waiting" /\ pc' = "waiting"
      /\ UNCHANGED <<running, config, inflight, todo, stopped>>
  BY Zenon DEF SkipWaiting, prepend_request, WaitingTurn, env, worker, output
<1>2. /\ c \in Reqs /\ c \in LiveReqs
      /\ c \in ToSet(waiting) \cup ToSet(skipped_waiting)
      /\ request[c].status # "RUNNING" /\ c \notin ToSet(running)
      /\ ToSet(waiting') = ToSet(waiting) \ {c}
      /\ ToSet(skipped_waiting') = ToSet(skipped_waiting) \ {c}
      /\ Distinct(waiting') /\ Distinct(skipped_waiting')
      /\ c \notin ToSet(loc.step_skipped)
      /\ Queued = LiveReqs \ WithStatus("RUNNING") /\ ToSet(running) = WithStatus("RUNNING")
      /\ stopped.running = {} /\ stopped.preempted = {}
  BY <1>1, PopEffect
<1>3. Typed /\ loc \in Locals /\ loc.idx \in Int
  BY DEF Base, Typed, Locals
<1>4. \/ p.status = request[c].status
      \/ /\ request[c].status = "WAITING_FOR_STRUCTURED_OUTPUT_GRAMMAR" /\ p.status = "WAITING"
  BY <1>2, <1>3, PromotedFacts
<1> HIDE DEF c, p
<1>5. NowStatus({c}, p.status)
  BY <1>1, <1>2, <1>3, ChangedStatus
<1>6. request[c].status \notin {"NEW", "FINISHED", "RUNNING"}
      /\ p.status \notin {"NEW", "FINISHED", "RUNNING"}
  BY <1>2, <1>4 DEF LiveReqs, Live
<1>7. loc'.batch = loc.batch /\ loc'.idx = loc.idx /\ loc'.step_skipped = <<c>> \o loc.step_skipped
  BY <1>1, <1>3 DEF Locals
<1>8. StepsSound'
  <2>1. \A s \in Reqs : request[s].status # "NEW" => request'[s].status # "NEW"
    BY <1>5, <1>6 DEF NowStatus
  <2>2. InSchedule
    BY <1>1 DEF InSchedule
  <2>3. QED BY <2>1, <2>2, <1>1, StepsKept DEF Base
<1>9. BatchSound'
  <2>1. \A s \in Reqs : request[s].status = "RUNNING" => request'[s].status = "RUNNING"
    BY <1>5, <1>6 DEF NowStatus
  <2>2. QED BY <2>1, <1>1, <1>3, <1>7, BatchKept DEF Base
<1>10. Queues'
  <2>1. WithStatus("RUNNING")' = WithStatus("RUNNING") /\ LiveReqs' = LiveReqs
    BY <1>5, <1>6 DEF NowStatus, WithStatus, LiveReqs, Live
  <2>2. loc.step_skipped \in Seq(Reqs) /\ Distinct(loc.step_skipped) /\ Distinct(running)
        /\ ToSet(waiting) \cap ToSet(skipped_waiting) = {}
        /\ ToSet(waiting) \cap ToSet(loc.step_skipped) = {}
        /\ ToSet(skipped_waiting) \cap ToSet(loc.step_skipped) = {}
        /\ \A r \in Reqs : request[r].status \in Blocked => r \notin ToSet(waiting)
    BY <1>3 DEF Base, Queues, Locals
  <2>3. ToSet(loc'.step_skipped) = {c} \cup ToSet(loc.step_skipped) /\ Distinct(loc'.step_skipped)
    <3>1. /\ ToSet(<<c>> \o loc.step_skipped) = {c} \cup ToSet(loc.step_skipped)
          /\ Distinct(<<c>> \o loc.step_skipped)
      BY <1>2, <2>2, PrependFacts
    <3>2. QED BY <3>1, <1>7
  <2>4. Queued' = Queued
    BY <2>3, <1>2 DEF Queued
  <2>5. \A r \in Reqs : request'[r].status \in Blocked => r \notin ToSet(waiting')
    BY <2>2, <1>2, <1>5 DEF NowStatus
  <2>6. stopped' = stopped /\ running' = running
    BY <1>1
  <2>7. QED BY <2>1, <2>2, <2>3, <2>4, <2>5, <2>6, <1>2 DEF Queues
<1>11. QED BY <1>8, <1>9, <1>10

\* An admitted request leaves its queue for the running list.
LEMMA BaseAdmit ==
  ASSUME Base, WaitingTurn, NEW found \in Lookups(Promoted(Candidate)), Admit(found)
  PROVE  StepsSound' /\ BatchSound' /\ Queues'
<1> DEFINE c == Candidate
           n == AdmitTokens(found.q, found.computed)
           e == [req |-> c, n |-> n, new |-> TRUE,
                 drafts |-> IF Padded(found.q.num_tokens - found.computed) THEN NumSpec ELSE 0,
                 padded |-> Padded(found.q.num_tokens - found.computed)]
           p == [found.q EXCEPT !.status = "RUNNING", !.num_computed_tokens = found.computed]
<1>1. /\ n \in Int /\ PopCandidate /\ found.q \in AnyRequest
      /\ running' = Append(running, c)
      /\ request' = [request EXCEPT ![c] = p]
      /\ loc' = [loc EXCEPT !.token_budget = @ - n, !.batch = Append(@, e)]
      /\ e \in BatchEntry /\ CanAdmit(c, found.q, found.computed)
  BY AdmitFacts, Zenon DEF Base
<1>2. n > 0 /\ e.req = c /\ e.n = n
  BY <1>1 DEF CanAdmit
<1>3. p.status = "RUNNING"
  BY <1>1 DEF AnyRequest
<1>4. pc = "waiting" /\ pc' = "waiting" /\ UNCHANGED <<config, inflight, todo, stopped>>
  BY DEF Admit, WaitingTurn, env, worker, output
<1>5. /\ c \in Reqs /\ c \in LiveReqs
      /\ c \in ToSet(waiting) \cup ToSet(skipped_waiting)
      /\ request[c].status # "RUNNING" /\ c \notin ToSet(running)
      /\ ToSet(waiting') = ToSet(waiting) \ {c}
      /\ ToSet(skipped_waiting') = ToSet(skipped_waiting) \ {c}
      /\ Distinct(waiting') /\ Distinct(skipped_waiting')
      /\ c \notin ToSet(loc.step_skipped)
      /\ Queued = LiveReqs \ WithStatus("RUNNING") /\ ToSet(running) = WithStatus("RUNNING")
      /\ stopped.running = {} /\ stopped.preempted = {}
  BY <1>1, PopEffect
<1> HIDE DEF c, e, p, n
<1>6. Typed /\ loc \in Locals /\ loc.idx \in Int /\ loc.batch \in Seq(BatchEntry)
      /\ running \in Seq(Reqs)
  BY DEF Base, Typed, Locals
<1>7. NowStatus({c}, "RUNNING")
  BY <1>1, <1>3, <1>5, <1>6, ChangedStatus
<1>8. loc'.batch = Append(loc.batch, e) /\ loc'.step_skipped = loc.step_skipped
  BY <1>1, <1>6 DEF Locals
<1>9. StepsSound'
  <2>1. \A s \in Reqs : request[s].status # "NEW" => request'[s].status # "NEW"
    BY <1>7 DEF NowStatus
  <2>2. InSchedule
    BY <1>4 DEF InSchedule
  <2>3. QED BY <2>1, <2>2, <1>4, StepsKept DEF Base
<1>10. BatchSound'
  <2> DEFINE b == loc.batch
  <2>1. b \in Seq(BatchEntry) /\ OncePerStep(b)
    BY <1>6 DEF Base, BatchSound
  <2>2. \A i \in DOMAIN b : b[i].n > 0 /\ request[b[i].req].status = "RUNNING" /\ b[i].req \in Reqs
    <3>1. \A i \in DOMAIN b : b[i] \in BatchEntry
      BY <2>1
    <3>2. QED BY <3>1 DEF Base, BatchSound, BatchEntry
  <2>3. \A i \in DOMAIN b : b[i].req # e.req
    BY <2>2, <1>2, <1>5
  <2> HIDE DEF b
  <2>4. /\ OncePerStep(Append(b, e))
        /\ DOMAIN Append(b, e) = 1 .. Len(b) + 1
        /\ \A i \in 1 .. Len(b) : Append(b, e)[i] = b[i]
        /\ Append(b, e)[Len(b) + 1] = e
        /\ Len(b) \in Nat /\ DOMAIN b = 1 .. Len(b)
    BY <2>1, <2>3, <1>1, OnceAppend
  <2>5. loc'.batch = Append(b, e)
    BY <1>8 DEF b
  <2>6. ASSUME NEW i \in DOMAIN loc'.batch
        PROVE  loc'.batch[i].n > 0 /\ request'[loc'.batch[i].req].status = "RUNNING"
    <3>1. CASE i \in 1 .. Len(b)
      BY <3>1, <2>2, <2>4, <2>5, <1>7 DEF NowStatus
    <3>2. CASE i = Len(b) + 1
      BY <3>2, <2>4, <2>5, <1>2, <1>5, <1>7 DEF NowStatus
    <3>3. QED BY <2>4, <2>5, <3>1, <3>2
  <2>7. QED BY <2>4, <2>5, <2>6, <1>4 DEF BatchSound
<1>11. Queues'
  <2>1. WithStatus("RUNNING")' = WithStatus("RUNNING") \cup {c} /\ LiveReqs' = LiveReqs
    BY <1>5, <1>7 DEF NowStatus, WithStatus, LiveReqs, Live
  <2>2. Distinct(loc.step_skipped) /\ Distinct(running)
        /\ ToSet(waiting) \cap ToSet(skipped_waiting) = {}
        /\ ToSet(waiting) \cap ToSet(loc.step_skipped) = {}
        /\ ToSet(skipped_waiting) \cap ToSet(loc.step_skipped) = {}
        /\ \A r \in Reqs : request[r].status \in Blocked => r \notin ToSet(waiting)
    BY DEF Base, Queues
  <2>3. ToSet(running') = ToSet(running) \cup {c} /\ Distinct(running')
    BY <1>1, <1>5, <1>6, <2>2, AppendFacts
  <2>4. Queued' = Queued \ {c}
    BY <1>5, <1>8 DEF Queued
  <2>5. \A r \in Reqs : request'[r].status \in Blocked => r \notin ToSet(waiting')
    BY <2>2, <1>5, <1>7 DEF NowStatus, Blocked
  <2>6. stopped' = stopped
    BY <1>4
  <2>7. QED BY <2>1, <2>2, <2>3, <2>4, <2>5, <2>6, <1>5, <1>8 DEF Queues
<1>12. QED BY <1>9, <1>10, <1>11

\* The requests set aside go back; the status of one in a waiting queue may change.
LEMMA BaseRequeue ==
  ASSUME Base, pc = "waiting", Requeue,
         \A r \in Reqs : \/ request'[r].status = request[r].status
                        \/ /\ request[r].status \notin {"NEW", "FINISHED", "RUNNING"}
                           /\ request'[r].status \notin {"NEW", "FINISHED", "RUNNING"} \cup Blocked
  PROVE  StepsSound' /\ BatchSound' /\ Queues'
<1>0. loc' = [loc EXCEPT !.step_skipped = <<>>]
  BY Zenon DEF Requeue
<1>1. loc' = [loc EXCEPT !.step_skipped = <<>>] /\ loc \in Locals /\ Typed /\ loc.idx \in Int
  BY <1>0 DEF Base, Typed, Locals
<1>2. loc'.batch = loc.batch /\ loc'.idx = loc.idx /\ loc'.step_skipped = <<>>
  BY <1>1 DEF Locals
<1>3. /\ skipped_waiting' = Reverse(loc.step_skipped) \o skipped_waiting
      /\ pc' = "commit" /\ UNCHANGED <<waiting, running, config, inflight, todo, stopped>>
  BY DEF Requeue, prepend_requests, env, worker, output
<1>4. StepsSound'
  <2>1. \A r \in Reqs : request[r].status # "NEW" => request'[r].status # "NEW"
    OBVIOUS
  <2>2. InSchedule
    BY DEF InSchedule
  <2>3. QED BY <2>1, <2>2, <1>3, StepsKept DEF Base
<1>5. BatchSound'
  <2>1. \A r \in Reqs : request[r].status = "RUNNING" => request'[r].status = "RUNNING"
    OBVIOUS
  <2>2. QED BY <2>1, <1>1, <1>2, <1>3, BatchKept DEF Base
<1>6. Queues'
  <2>1. WithStatus("RUNNING")' = WithStatus("RUNNING") /\ LiveReqs' = LiveReqs
        /\ WithStatus("FINISHED")' = WithStatus("FINISHED")
    BY DEF WithStatus, LiveReqs, Live
  <2>2. Distinct(loc.step_skipped) /\ Distinct(skipped_waiting)
        /\ ToSet(waiting) \cap ToSet(skipped_waiting) = {}
        /\ ToSet(waiting) \cap ToSet(loc.step_skipped) = {}
        /\ ToSet(skipped_waiting) \cap ToSet(loc.step_skipped) = {}
        /\ \A r \in Reqs : request[r].status \in Blocked => r \notin ToSet(waiting)
    BY DEF Base, Queues
  <2>3. loc.step_skipped \in Seq(Reqs) /\ skipped_waiting \in Seq(Reqs)
    BY <1>1 DEF Typed, Locals
  <2> DEFINE p == Reverse(loc.step_skipped)
  <2>4. p \in Seq(Reqs)
    BY <2>3, ReverseFacts
  <2>5. ToSet(p) = ToSet(loc.step_skipped) /\ Distinct(p)
    BY <2>2, <2>3, ReverseFacts
  <2> HIDE DEF p
  <2>6. ToSet(p \o skipped_waiting) = ToSet(p) \cup ToSet(skipped_waiting)
        /\ Distinct(p \o skipped_waiting)
    <3>1. skipped_waiting \in Seq(Reqs) /\ ToSet(p) \cap ToSet(skipped_waiting) = {}
      BY <2>2, <2>3, <2>5
    <3>2. QED BY <3>1, <2>2, <2>4, <2>5, ConcatFacts
  <2>7. skipped_waiting' = p \o skipped_waiting
    BY <1>3 DEF p
  <2>8. ToSet(<<>>) = {} /\ Distinct(<<>>)
    BY EmptyFacts
  <2>9. Queued' = Queued
    BY <2>5, <2>6, <2>7, <2>8, <1>2, <1>3 DEF Queued
  <2>10. \A r \in Reqs : request'[r].status \in Blocked => r \notin ToSet(waiting')
    BY <2>2, <1>3
  <2>11. Distinct(skipped_waiting') /\ Distinct(loc'.step_skipped)
         /\ ToSet(waiting') \cap ToSet(skipped_waiting') = {}
         /\ ToSet(waiting') \cap ToSet(loc'.step_skipped) = {}
         /\ ToSet(skipped_waiting') \cap ToSet(loc'.step_skipped) = {}
    BY <2>2, <2>5, <2>6, <2>7, <2>8, <1>2, <1>3
  <2>12. Distinct(waiting') /\ Distinct(running') /\ stopped' = stopped /\ running' = running
    BY <1>3 DEF Base, Queues
  <2>13. QED BY <2>1, <2>9, <2>10, <2>11, <2>12 DEF Base, Queues
<1>7. QED BY <1>4, <1>5, <1>6

\* When the loop stops, the skipped requests return to their queue.
LEMMA BaseStopWaiting ==
  ASSUME Base, WaitingTurn, NEW found \in Lookups(Promoted(Candidate)), StopWaiting(found)
  PROVE  StepsSound' /\ BatchSound' /\ Queues'
<1> DEFINE c == Candidate
<1>1. /\ c \in Reqs /\ found.q \in AnyRequest
      /\ \/ found.q.status = request[c].status
         \/ /\ request[c].status = "WAITING_FOR_STRUCTURED_OUTPUT_GRAMMAR"
            /\ found.q.status = "WAITING"
  BY CandidateLookup
<1>2. request' = [request EXCEPT ![c] = found.q] /\ Requeue /\ MayResume(found.q) /\ pc = "waiting"
  BY Zenon DEF StopWaiting, WaitingTurn
<1>3. c \in ToSet(CandidateQueue)
  BY CandidateFacts DEF Base
<1> HIDE DEF c
<1>4. c \in LiveReqs /\ request[c].status # "RUNNING"
  <2>1. Queued = LiveReqs \ WithStatus("RUNNING")
    BY <1>2, RunningOnes
  <2>2. c \in Queued
    BY <1>3 DEF CandidateQueue, Queued
  <2>3. QED BY <2>1, <2>2, <1>1 DEF WithStatus
<1>5. NowStatus({c}, found.q.status)
  BY <1>1, <1>2, ChangedStatus DEF Base
<1>6. found.q.status \notin {"NEW", "FINISHED", "RUNNING"} /\ found.q.status \notin Blocked
  BY <1>1, <1>2, <1>4 DEF LiveReqs, Live, MayResume
<1>7. request[c].status \notin {"NEW", "FINISHED", "RUNNING"}
  BY <1>1, <1>4 DEF LiveReqs, Live
<1>8. \A r \in Reqs : \/ request'[r].status = request[r].status
                     \/ /\ request[r].status \notin {"NEW", "FINISHED", "RUNNING"}
                        /\ request'[r].status \notin {"NEW", "FINISHED", "RUNNING"} \cup Blocked
  BY <1>5, <1>6, <1>7 DEF NowStatus
<1>9. QED BY <1>2, <1>8, BaseRequeue

\* When nobody is left, the skipped requests return to their queue.
LEMMA BaseEndWaiting ==
  ASSUME Base, EndWaiting
  PROVE  StepsSound' /\ BatchSound' /\ Queues'
<1>1. pc = "waiting" /\ Requeue /\ UNCHANGED request
  BY DEF EndWaiting
<1>2. QED BY <1>1, BaseRequeue

---------------------------------------------------------------------------
(* update_from_output and the queues.                                      *)

\* A launched step has the entries of the batch.
LEMMA LaunchedFacts ==
  ASSUME Typed
  PROVE  /\ \A r \in Reqs : Launched[r].status = request[r].status
         /\ DOMAIN LaunchedStep = DOMAIN loc.batch
         /\ \A j \in DOMAIN loc.batch :
              /\ LaunchedStep[j].req = loc.batch[j].req /\ LaunchedStep[j].n = loc.batch[j].n
              /\ LaunchedStep[j].drafts = loc.batch[j].drafts
<1>1. \A r \in Reqs : Launched[r].status = request[r].status
  <2> SUFFICES ASSUME NEW r \in Reqs PROVE Launched[r].status = request[r].status
    OBVIOUS
  <2> DEFINE B == {e.req : e \in ToSet(loc.batch)}
  <2>1. Launched[r] = IF r \in B
         THEN Advanced(request[r], Entry(r).n, Entry(r).drafts) ELSE request[r]
    BY DEF Launched
  <2>2. CASE r \in B
    <3>1. Entry(r) \in BatchEntry
      BY <2>2, EntryFacts
    <3>2. Entry(r).n \in Int /\ Entry(r).drafts \in Int
      BY <3>1 DEF BatchEntry
    <3>3. request[r] \in AnyRequest /\ config \in Configs
      BY DEF Typed
    <3>4. QED BY <2>1, <2>2, <3>2, <3>3, AdvancedFacts
  <2>3. QED BY <2>1, <2>2
<1>2. DOMAIN LaunchedStep = DOMAIN loc.batch
  BY DEF LaunchedStep
<1>3. ASSUME NEW j \in DOMAIN loc.batch
      PROVE  /\ LaunchedStep[j].req = loc.batch[j].req /\ LaunchedStep[j].n = loc.batch[j].n
             /\ LaunchedStep[j].drafts = loc.batch[j].drafts
  BY DEF LaunchedStep
<1>4. QED BY <1>1, <1>2, <1>3

\* A launched step has one entry of a request, and moves nobody.
LEMMA BaseCommit == ASSUME Base, Commit PROVE StepsSound' /\ BatchSound' /\ Queues'
<1>1. /\ request' = Launched
      /\ inflight' = Append(inflight, LaunchedStep)
      /\ LaunchedStep \in Seq(StepEntry)
  BY CommitFacts DEF Base
<1>2. pc = "commit" /\ pc' = "idle" /\ loc' = Idle /\ UNCHANGED <<queues, stopped, todo, config>>
  BY Zenon DEF Commit, env, output
<1>3. /\ \A r \in Reqs : Launched[r].status = request[r].status
      /\ DOMAIN LaunchedStep = DOMAIN loc.batch
      /\ \A j \in DOMAIN loc.batch :
           LaunchedStep[j].req = loc.batch[j].req /\ LaunchedStep[j].n = loc.batch[j].n
  BY LaunchedFacts DEF Base
<1>4. SameStatus
  BY <1>1, <1>3 DEF SameStatus
<1>5. loc'.batch = <<>> /\ loc'.step_skipped = <<>> /\ loc.step_skipped = <<>>
  BY <1>2 DEF Idle, Base, Phases
<1>6. inflight \in Seq(Seq(StepEntry)) /\ loc.batch \in Seq(BatchEntry)
  BY DEF Base, Typed, Locals
<1>7. \A i \in DOMAIN loc.batch : loc.batch[i].req \in Reqs
  <2>1. \A i \in DOMAIN loc.batch : loc.batch[i] \in BatchEntry
    BY <1>6
  <2>2. QED BY <2>1 DEF BatchEntry
<1>8. StepSound(LaunchedStep)
  BY <1>3 DEF StepSound, OncePerStep, Base, BatchSound
<1>9. ASSUME NEW step \in Steps \cup {LaunchedStep} PROVE StepSound(step)'
  <2>1. StepSound(step) /\ step \in Seq(StepEntry) /\ \A i \in DOMAIN step : step[i].req \in Reqs
    BY <1>1, <1>3, <1>7, <1>8, StepTyped DEF Base, StepsSound
  <2>2. \A i \in DOMAIN step :
           /\ request'[step[i].req].status # "NEW"
           /\ Depth = 1 => request'[step[i].req].status
                             \in {"FINISHED", request[step[i].req].status}
    BY <2>1, <1>4 DEF StepSound, SameStatus
  <2>3. QED BY <2>1, <2>2, <1>2, StepStays
<1>10. Steps' \subseteq Steps \cup {LaunchedStep}
  BY <1>1, <1>2, <1>6 DEF Steps
<1>11. StepsSound'
  BY <1>9, <1>10 DEF StepsSound
<1>12. QED BY <1>2, <1>4, <1>5, <1>11, BatchNone, QueuesSame DEF Base

\* Taking up a step's output moves nobody.
LEMMA BaseBeginOutput == ASSUME Base, BeginOutput PROVE StepsSound' /\ BatchSound' /\ Queues'
<1>1. /\ inflight # <<>> /\ todo' = Head(inflight) /\ inflight' = Tail(inflight) /\ pc = "idle"
      /\ UNCHANGED <<config, queues, stopped, loc>> /\ SameStatus
  BY DEF BeginOutput, env, SameStatus
<1>2. inflight \in Seq(Seq(StepEntry))
  BY DEF Base, Typed
<1>3. Steps' \subseteq Steps
  BY <1>1, <1>2 DEF Steps
<1>4. StepsSound'
  BY <1>1, <1>3, StepsSame DEF Base, SameStatus
<1>5. loc.batch = <<>>
  BY <1>1 DEF Base, Phases, Idle
<1>6. QED BY <1>1, <1>4, <1>5, BatchNone, QueuesSame DEF Base

\* What is left of a step.
LEMMA TailOnce ==
  ASSUME NEW A, NEW q \in Seq(A), q # <<>>, OncePerStep(q)
  PROVE  /\ OncePerStep(Tail(q)) /\ Tail(q) \in Seq(A)
         /\ \A i \in DOMAIN Tail(q) :
              i + 1 \in DOMAIN q /\ Tail(q)[i] = q[i + 1] /\ Tail(q)[i].req # Head(q).req
<1> DEFINE p == Tail(q)
<1>1. p \in Seq(A) /\ Len(p) = Len(q) - 1 /\ DOMAIN p = 1 .. Len(q) - 1 /\ DOMAIN q = 1 .. Len(q)
      /\ Len(q) \in Nat /\ Head(q) = q[1] /\ Len(q) > 0
  OBVIOUS
<1>2. \A i \in 1 .. Len(q) - 1 : p[i] = q[i + 1] /\ i + 1 \in DOMAIN q
  OBVIOUS
<1> HIDE DEF p
<1>3. OncePerStep(p)
  <2> SUFFICES ASSUME NEW i \in DOMAIN p, NEW j \in DOMAIN p, p[i].req = p[j].req PROVE i = j
    BY DEF OncePerStep
  <2>1. q[i + 1].req = q[j + 1].req /\ i + 1 \in DOMAIN q /\ j + 1 \in DOMAIN q
    BY <1>1, <1>2
  <2>2. i + 1 = j + 1
    BY <2>1 DEF OncePerStep
  <2>3. QED BY <2>2, <1>1
<1>4. \A i \in DOMAIN p : p[i].req # Head(q).req
  <2> SUFFICES ASSUME NEW i \in DOMAIN p, p[i].req = Head(q).req PROVE FALSE
    OBVIOUS
  <2>1. q[i + 1].req = q[1].req /\ i + 1 \in DOMAIN q /\ 1 \in DOMAIN q
    BY <1>1, <1>2
  <2>2. i + 1 = 1
    BY <2>1 DEF OncePerStep
  <2>3. QED BY <2>2, <1>1
<1>5. QED BY <1>1, <1>2, <1>3, <1>4 DEF p

\* The entry at the head of a sound step, and the rest of it.
LEMMA TodoFacts ==
  ASSUME Base, OutputTurn
  PROVE  /\ StepSound(todo) /\ todo \in Seq(StepEntry)
         /\ Head(todo) = todo[1] /\ 1 \in DOMAIN todo
         /\ Head(todo).n > 0 /\ request[Head(todo).req].status # "NEW"
         /\ Depth = 1 /\ Live(Head(todo).req) => request[Head(todo).req].status = "RUNNING"
         /\ Depth = 1 => inflight = <<>>
         /\ StepSound(Tail(todo))
         /\ \A i \in DOMAIN Tail(todo) :
              Tail(todo)[i].req # Head(todo).req /\ Tail(todo)[i].req \in Reqs
<1>1. StepSound(todo) /\ todo \in Seq(StepEntry) /\ todo # <<>>
      /\ \A i \in DOMAIN todo : todo[i].req \in Reqs
  BY StepTyped DEF Base, StepsSound, Steps, OutputTurn
<1>2. Head(todo) = todo[1] /\ 1 \in DOMAIN todo
  BY <1>1
<1>3. Depth = 1 => inflight = <<>>
  <2>1. inflight \in Seq(Seq(StepEntry))
    BY DEF Base, Typed
  <2>2. Depth = 1 => Len(inflight) <= 0
    BY <2>1 DEF Base, Phases, OutputTurn
  <2>3. QED BY <2>1, <2>2
<1>4. /\ OncePerStep(Tail(todo))
      /\ \A i \in DOMAIN Tail(todo) :
              i + 1 \in DOMAIN todo /\ Tail(todo)[i] = todo[i + 1]
              /\ Tail(todo)[i].req # Head(todo).req
  BY <1>1, TailOnce DEF StepSound
<1>5. StepSound(Tail(todo))
  BY <1>1, <1>4 DEF StepSound
<1>6. QED BY <1>1, <1>2, <1>3, <1>4, <1>5 DEF StepSound

\* After the output of its head, the steps are sound.
LEMMA StepsAfterOutput ==
  ASSUME Base, OutputTurn, UNCHANGED <<config, inflight>>, todo' = Tail(todo),
         NEW s, s # "NEW", NowStatus({Head(todo).req}, s)
  PROVE  StepsSound'
<1>1. ASSUME NEW step \in {Tail(todo)} \cup {inflight[i] : i \in DOMAIN inflight}
      PROVE  StepSound(step)'
  <2>1. StepSound(step) /\ step \in Seq(StepEntry) /\ \A i \in DOMAIN step : step[i].req \in Reqs
    <3>1. CASE step = Tail(todo)
      <4>1. Tail(todo) \in Seq(StepEntry)
        BY HeadFacts DEF Base
      <4>2. QED BY <3>1, <4>1, TodoFacts
    <3>2. CASE step \in Steps
      BY <3>2, StepTyped DEF Base, StepsSound
    <3>3. QED BY <3>1, <3>2 DEF Steps
  <2>2. ASSUME NEW i \in DOMAIN step
        PROVE  /\ request'[step[i].req].status # "NEW"
               /\ Depth = 1 => request'[step[i].req].status
                             \in {"FINISHED", request[step[i].req].status}
    <3>1. request'[step[i].req].status # "NEW"
      BY <2>1 DEF StepSound, NowStatus
    <3>2. ASSUME Depth = 1 PROVE request'[step[i].req].status = request[step[i].req].status
      <4>1. inflight = <<>>
        BY <3>2, TodoFacts
      <4>2. step = Tail(todo)
        BY <4>1
      <4>3. step[i].req # Head(todo).req
        BY <4>2, TodoFacts
      <4>4. QED BY <4>3, <2>1 DEF NowStatus
    <3>3. QED BY <3>1, <3>2
  <2>3. QED BY <2>1, <2>2, StepStays
<1>2. QED BY <1>1 DEF StepsSound, Steps

\* Output that is dropped moves nobody.
LEMMA BaseDropOutput == ASSUME Base, DropOutput PROVE StepsSound' /\ BatchSound' /\ Queues'
<1> DEFINE e == Head(todo)
<1>1. OutputTurn /\ todo' = Tail(todo)
      /\ UNCHANGED <<config, inflight, queues, stopped, loc>>
      /\ request' = IF Live(e.req) THEN [request EXCEPT ![e.req] = Returned(request[e.req], e.n)]
                       ELSE request
  BY Zenon DEF DropOutput, env, worker
<1>2. e.req \in Reqs /\ e.n \in Int /\ request[e.req] \in AnyRequest
  BY <1>1, HeadFacts DEF Base
<1> HIDE DEF e
<1>3. Returned(request[e.req], e.n).status = request[e.req].status
  BY <1>2 DEF Returned, AnyRequest
<1>4. SameStatus
  BY <1>1, <1>2, <1>3 DEF Base, Typed, SameStatus
<1>5. request[e.req].status # "NEW"
  BY <1>1, TodoFacts DEF e
<1>6. NowStatus({Head(todo).req}, request[e.req].status)
  BY <1>4 DEF NowStatus, SameStatus, e
<1>7. StepsSound'
  BY <1>1, <1>5, <1>6, StepsAfterOutput
<1>8. loc.batch = <<>>
  BY <1>1 DEF Base, Phases, Idle, OutputTurn
<1>9. QED BY <1>1, <1>4, <1>7, <1>8, BatchNone, QueuesSame DEF Base

\* What a delivered output does to the request, its status and the queues.
LEMMA DeliverEffect ==
  ASSUME Base, NEW accepted \in Int, NEW eos \in Int, NEW error, NEW drafts \in Int,
         Deliver(accepted, eos, error, drafts)
  PROVE  LET r == Head(todo).req
             q == Output(Head(todo), accepted, eos, drafts)
         IN  /\ OutputTurn /\ r \in Reqs /\ Live(r) /\ q \in AnyRequest
             /\ todo' = Tail(todo)
             /\ UNCHANGED <<pc, running, reset_preempted_req_ids, pause_state, config,
                            inflight, slots, loc>>
             /\ \/ /\ request' = [request EXCEPT ![r] = q] /\ q.status = request[r].status
                   /\ UNCHANGED <<held, finished_req_ids, waiting, skipped_waiting,
                                  num_waiting_for_streaming_input, stopped>>
                \/ /\ request' = [request EXCEPT ![r] = Gone(r)]
                   /\ held' = [held EXCEPT ![r] = 0]
                   /\ finished_req_ids' = finished_req_ids \cup {r}
                   /\ UNCHANGED <<waiting, skipped_waiting, num_waiting_for_streaming_input>>
                   /\ IF request[r].status = "RUNNING"
                      THEN stopped'.running = stopped.running \cup {r}
                           /\ stopped'.preempted = stopped.preempted
                      ELSE stopped'.running = stopped.running
                           /\ stopped'.preempted = stopped.preempted \cup {r}
                \/ /\ r \in Sessions /\ request[r].status = "RUNNING"
                   /\ request' = [request EXCEPT ![r] = UpdatedSession(Popped(q))]
                   /\ waiting' = Append(waiting, r)
                   /\ UNCHANGED <<held, finished_req_ids, skipped_waiting,
                                  num_waiting_for_streaming_input>>
                   /\ stopped'.running = stopped.running \cup {r}
                   /\ stopped'.preempted = stopped.preempted
                \/ /\ r \in Sessions /\ request[r].status = "RUNNING"
                   /\ request' = [request EXCEPT ![r] =
                                    [q EXCEPT !.status = "WAITING_FOR_STREAMING_REQ"]]
                   /\ skipped_waiting' = Append(skipped_waiting, r)
                   /\ num_waiting_for_streaming_input' = num_waiting_for_streaming_input + 1
                   /\ UNCHANGED <<held, finished_req_ids, waiting>>
                   /\ stopped'.running = stopped.running \cup {r}
                   /\ stopped'.preempted = stopped.preempted
<1> DEFINE e == Head(todo)
           r == e.req
           q == Output(e, accepted, eos, drafts)
<1>1. Delivered(e, r, q, accepted, eos, error, drafts)
  BY DeliverFacts
<1>2. r \in Reqs
  BY <1>1, HeadFacts DEF Base, Delivered
<1>3. q \in AnyRequest /\ q.status = request[r].status
  BY <1>1, OutputFacts DEF Base, Delivered
<1>4. r \in Sessions => request[r].status = "RUNNING"
  <2>1. config \in Configs
    BY DEF Base, Typed
  <2>2. Sessions # {} => Depth = 1
    BY <2>1, ConfigFacts
  <2>3. Depth = 1 /\ Live(r) => request[r].status = "RUNNING"
    BY <1>1, TodoFacts DEF Delivered
  <2>4. QED BY <2>2, <2>3, <1>1 DEF Delivered
<1>5. stopped \in [running : SUBSET Reqs, preempted : SUBSET Reqs]
  BY DEF Base, Typed
<1> HIDE DEF r, q, e
<1>6. CASE StopsWith(e, accepted, eos, error)
  <2>1. Stop(r, q, error)
        /\ stopped' = IF request[r].status = "RUNNING"
                             THEN [stopped EXCEPT !.running = @ \cup {r}]
                             ELSE [stopped EXCEPT !.preempted = @ \cup {r}]
    BY <1>1, <1>6 DEF Delivered
  <2>2. IF request[r].status = "RUNNING"
                      THEN stopped'.running = stopped.running \cup {r}
                           /\ stopped'.preempted = stopped.preempted
                      ELSE stopped'.running = stopped.running
                           /\ stopped'.preempted = stopped.preempted \cup {r}
    BY <2>1, <1>5
  <2>3. \/ /\ request' = [request EXCEPT ![r] = Gone(r)]
            /\ held' = [held EXCEPT ![r] = 0]
            /\ finished_req_ids' = finished_req_ids \cup {r}
            /\ UNCHANGED <<waiting, skipped_waiting, num_waiting_for_streaming_input>>
        \/ /\ r \in Sessions
            /\ request' = [request EXCEPT ![r] = UpdatedSession(Popped(q))]
            /\ waiting' = Append(waiting, r)
            /\ UNCHANGED <<held, finished_req_ids, skipped_waiting,
                           num_waiting_for_streaming_input>>
        \/ /\ r \in Sessions
            /\ request' = [request EXCEPT ![r] = [q EXCEPT !.status = "WAITING_FOR_STREAMING_REQ"]]
            /\ skipped_waiting' = Append(skipped_waiting, r)
            /\ num_waiting_for_streaming_input' = num_waiting_for_streaming_input + 1
            /\ UNCHANGED <<held, finished_req_ids, waiting>>
    BY <2>1, StopCases
  <2>4. QED BY <2>2, <2>3, <1>1, <1>2, <1>3, <1>4, Zenon DEF Delivered, env, r, q, e
<1>7. CASE ~StopsWith(e, accepted, eos, error)
  BY <1>1, <1>2, <1>3, <1>7, Zenon DEF Delivered, env, r, q, e
<1>8. QED BY <1>6, <1>7

\* A delivered output moves its request only if it stops: to the requests
\* stopped, or to the waiting queue as a session's next chunk.
LEMMA BaseDeliver ==
  ASSUME Base, NEW accepted \in Int, NEW eos \in Int, NEW error, NEW drafts \in Int,
         Deliver(accepted, eos, error, drafts)
  PROVE  StepsSound' /\ BatchSound' /\ Queues'
<1> DEFINE r == Head(todo).req
           q == Output(Head(todo), accepted, eos, drafts)
           Same == /\ request' = [request EXCEPT ![r] = q] /\ q.status = request[r].status
                   /\ UNCHANGED <<held, finished_req_ids, waiting, skipped_waiting,
                                  num_waiting_for_streaming_input, stopped>>
           Ends == /\ request' = [request EXCEPT ![r] = Gone(r)]
                   /\ held' = [held EXCEPT ![r] = 0]
                   /\ finished_req_ids' = finished_req_ids \cup {r}
                   /\ UNCHANGED <<waiting, skipped_waiting, num_waiting_for_streaming_input>>
                   /\ IF request[r].status = "RUNNING"
                      THEN stopped'.running = stopped.running \cup {r}
                           /\ stopped'.preempted = stopped.preempted
                      ELSE stopped'.running = stopped.running
                           /\ stopped'.preempted = stopped.preempted \cup {r}
           Goes == /\ r \in Sessions /\ request[r].status = "RUNNING"
                   /\ request' = [request EXCEPT ![r] = UpdatedSession(Popped(q))]
                   /\ waiting' = Append(waiting, r)
                   /\ UNCHANGED <<held, finished_req_ids, skipped_waiting,
                                  num_waiting_for_streaming_input>>
                   /\ stopped'.running = stopped.running \cup {r}
                   /\ stopped'.preempted = stopped.preempted
           Waits == /\ r \in Sessions /\ request[r].status = "RUNNING"
                   /\ request' = [request EXCEPT ![r] =
                                    [q EXCEPT !.status = "WAITING_FOR_STREAMING_REQ"]]
                   /\ skipped_waiting' = Append(skipped_waiting, r)
                   /\ num_waiting_for_streaming_input' = num_waiting_for_streaming_input + 1
                   /\ UNCHANGED <<held, finished_req_ids, waiting>>
                   /\ stopped'.running = stopped.running \cup {r}
                   /\ stopped'.preempted = stopped.preempted
<1>1. /\ OutputTurn /\ r \in Reqs /\ Live(r) /\ q \in AnyRequest
      /\ todo' = Tail(todo)
      /\ UNCHANGED <<pc, running, config, inflight, loc>>
      /\ Same \/ Ends \/ Goes \/ Waits
  BY DeliverEffect
<1>2. request[r].status \notin {"NEW", "FINISHED"} /\ pc = "output" /\ Typed
      /\ waiting \in Seq(Reqs) /\ skipped_waiting \in Seq(Reqs) /\ config \in Configs
  BY <1>1 DEF Live, OutputTurn, Base, Typed
<1>3. loc.batch = <<>> /\ loc.step_skipped = <<>>
  BY <1>2 DEF Base, Phases, Idle
<1>4. BatchSound'
  BY <1>1, <1>3, BatchNone
<1>5. ASSUME NEW s, s # "NEW", NowStatus({r}, s) PROVE StepsSound'
  BY <1>1, <1>5, StepsAfterOutput DEF r
<1>6. ToSet(<<>>) = {}
  BY EmptyFacts
<1> HIDE DEF r, q
<1>55. ASSUME NEW p, request' = [request EXCEPT ![r] = p] PROVE NowStatus({r}, p.status)
  BY <1>1, <1>2, <1>55, ChangedStatus
<1>7. ASSUME Same PROVE Queues' /\ StepsSound'
  <2>1. SameStatus /\ NowStatus({r}, q.status)
    BY <1>1, <1>2, <1>7, ChangedStatus
  <2>2. StepsSound'
    BY <2>1, <1>2, <1>5, <1>7
  <2>3. QED BY <2>1, <2>2, <1>1, <1>7, QueuesSame DEF Base, queues
<1>8. CASE request[r].status = "RUNNING"
  <2>1. r \in WithStatus("RUNNING") /\ r \notin Queued /\ r \in ToSet(running)
    <3>1. r \in WithStatus("RUNNING") /\ r \notin WithStatus("FINISHED")
      BY <1>1, <1>8 DEF WithStatus
    <3>2. QED BY <3>1 DEF Base, Queues
  <2>2. Distinct(waiting) /\ Distinct(skipped_waiting) /\ r \notin ToSet(waiting)
        /\ r \notin ToSet(skipped_waiting)
    BY <2>1 DEF Queued, Base, Queues
  <2>3. ASSUME Ends PROVE Queues' /\ StepsSound'
    <3>1. Gone(r).status = "FINISHED"
      BY DEF Gone, NewRequest
    <3>20. NowStatus({r}, Gone(r).status)
      BY <2>3, <1>55
    <3>2. NowStatus({r}, "FINISHED")
      BY <3>1, <3>20
    <3>3. WithStatus("RUNNING")' = WithStatus("RUNNING") \ {r} /\ LiveReqs' = LiveReqs \ {r}
          /\ WithStatus("FINISHED")' = WithStatus("FINISHED") \cup {r}
      BY <3>2, <1>1 DEF NowStatus, WithStatus, LiveReqs, Live
    <3>4. Queued' = Queued /\ UNCHANGED <<waiting, skipped_waiting, running, loc>>
      BY <2>3, <1>1 DEF Queued
    <3>5. stopped'.running = stopped.running \cup {r} /\ stopped'.preempted = stopped.preempted
      BY <2>3, <1>8
    <3>6. \A s \in Reqs : request'[s].status \in Blocked => s \notin ToSet(waiting')
      BY <3>2, <3>4 DEF NowStatus, Blocked, Base, Queues
    <3>7. Queues'
      BY <3>3, <3>4, <3>5, <3>6, <2>1 DEF Base, Queues
    <3>8. QED BY <3>2, <3>7, <1>5
  <2>4. ASSUME Goes PROVE Queues' /\ StepsSound'
    <3>1. UpdatedSession(Popped(q)).status = "WAITING"
      <4>1. Popped(q) \in AnyRequest
        BY <1>1, PoppedFacts
      <4>2. QED BY <4>1, UpdatedSessionFacts
    <3>20. NowStatus({r}, UpdatedSession(Popped(q)).status)
      BY <2>4, <1>55
    <3>2. NowStatus({r}, "WAITING")
      BY <3>1, <3>20
    <3>3. WithStatus("RUNNING")' = WithStatus("RUNNING") \ {r} /\ LiveReqs' = LiveReqs
          /\ WithStatus("FINISHED")' = WithStatus("FINISHED") /\ r \in LiveReqs
      BY <3>2, <1>1 , <1>2 DEF NowStatus, WithStatus, LiveReqs, Live
    <3>4. UNCHANGED <<skipped_waiting, running, loc>>
      BY <2>4, <1>1
    <3>5. ToSet(waiting') = ToSet(waiting) \cup {r} /\ Distinct(waiting')
      BY <2>2, <2>4, <1>1, <1>2, AppendFacts
    <3>6. Queued' = Queued \cup {r}
      BY <3>4, <3>5 DEF Queued
    <3>7. \A s \in Reqs : request'[s].status \in Blocked => s \notin ToSet(waiting')
      BY <3>2, <3>5 DEF NowStatus, Blocked, Base, Queues
    <3>8. r \notin stopped.preempted
      BY <1>2 DEF Base, Queues, WithStatus
    <3>9. Queues'
      BY <3>3, <3>4, <3>5, <3>6, <3>7, <3>8, <2>1, <2>2, <2>4, <1>3, <1>6 DEF Base, Queues
    <3>10. QED BY <3>2, <3>9, <1>5
  <2>5. ASSUME Waits PROVE Queues' /\ StepsSound'
    <3>1. [q EXCEPT !.status = "WAITING_FOR_STREAMING_REQ"].status = "WAITING_FOR_STREAMING_REQ"
      BY <1>1 DEF AnyRequest
    <3>20. NowStatus({r}, [q EXCEPT !.status = "WAITING_FOR_STREAMING_REQ"].status)
      BY <2>5, <1>55
    <3>2. NowStatus({r}, "WAITING_FOR_STREAMING_REQ")
      BY <3>1, <3>20
    <3>3. WithStatus("RUNNING")' = WithStatus("RUNNING") \ {r} /\ LiveReqs' = LiveReqs
          /\ WithStatus("FINISHED")' = WithStatus("FINISHED") /\ r \in LiveReqs
      BY <3>2, <1>1 , <1>2 DEF NowStatus, WithStatus, LiveReqs, Live
    <3>4. UNCHANGED <<waiting, running, loc>>
      BY <2>5, <1>1
    <3>5. ToSet(skipped_waiting') = ToSet(skipped_waiting) \cup {r} /\ Distinct(skipped_waiting')
      BY <2>2, <2>5, <1>1, <1>2, AppendFacts
    <3>6. Queued' = Queued \cup {r}
      BY <3>4, <3>5 DEF Queued
    <3>7. \A s \in Reqs : request'[s].status \in Blocked => s \notin ToSet(waiting')
      BY <3>2, <3>4, <2>2 DEF NowStatus, Blocked, Base, Queues
    <3>8. r \notin stopped.preempted
      BY <1>2 DEF Base, Queues, WithStatus
    <3>9. Queues'
      BY <3>3, <3>4, <3>5, <3>6, <3>7, <3>8, <2>1, <2>2, <2>5, <1>3, <1>6 DEF Base, Queues
    <3>10. QED BY <3>2, <3>9, <1>5
  <2>6. QED BY <2>3, <2>4, <2>5, <1>1, <1>4, <1>7
<1>9. CASE request[r].status # "RUNNING"
  <2>1. ASSUME Ends PROVE Queues' /\ StepsSound'
    <3>1. Gone(r).status = "FINISHED"
      BY DEF Gone, NewRequest
    <3>20. NowStatus({r}, Gone(r).status)
      BY <2>1, <1>55
    <3>2. NowStatus({r}, "FINISHED")
      BY <3>1, <3>20
    <3>3. WithStatus("RUNNING")' = WithStatus("RUNNING") /\ LiveReqs' = LiveReqs \ {r}
          /\ WithStatus("FINISHED")' = WithStatus("FINISHED") \cup {r}
      BY <3>2, <1>1, <1>9 DEF NowStatus, WithStatus, LiveReqs, Live
    <3>4. Queued' = Queued /\ UNCHANGED <<waiting, skipped_waiting, running, loc>>
      BY <2>1, <1>1 DEF Queued
    <3>5. stopped'.running = stopped.running /\ stopped'.preempted = stopped.preempted \cup {r}
      BY <2>1, <1>9
    <3>6. \A s \in Reqs : request'[s].status \in Blocked => s \notin ToSet(waiting')
      BY <3>2, <3>4 DEF NowStatus, Blocked, Base, Queues
    <3>7. Queues'
      BY <3>3, <3>4, <3>5, <3>6 DEF Base, Queues
    <3>8. QED BY <3>2, <3>7, <1>5
  <2>2. QED BY <2>1, <1>1, <1>4, <1>7, <1>9
<1>10. QED BY <1>8, <1>9

---------------------------------------------------------------------------
(* The request handlers and the queues.                                    *)

\* finish_requests takes its requests out of every queue.
LEMMA FinishQueues ==
  ASSUME Typed, NEW S \in SUBSET Reqs, NEW run \in Seq(Reqs), NEW w \in Seq(Reqs),
         NEW k \in Seq(Reqs), NEW f, FinishRequests(S, run, w, k, f),
         Distinct(run), Distinct(w), Distinct(k), ToSet(w) \cap ToSet(k) = {},
         ToSet(run) = WithStatus("RUNNING"),
         ToSet(w) \cup ToSet(k) = LiveReqs \ WithStatus("RUNNING"),
         \A r \in Reqs : request[r].status \in Blocked => r \notin ToSet(w),
         stopped' = NobodyStopped, loc'.step_skipped = <<>>
  PROVE  Queues' /\ NowStatus(S, "FINISHED")
<1>1. /\ running' = remove_requests(run, S) /\ waiting' = remove_requests(w, S)
      /\ skipped_waiting' = remove_requests(k, S)
      /\ request' = [r \in Reqs |-> IF r \in S THEN Gone(r) ELSE request[r]]
  BY Zenon DEF FinishRequests
<1>2. ToSet(running') = ToSet(run) \ S /\ Distinct(running')
  BY <1>1, RemoveFacts
<1>3. ToSet(waiting') = ToSet(w) \ S /\ Distinct(waiting')
  BY <1>1, RemoveFacts
<1>4. ToSet(skipped_waiting') = ToSet(k) \ S /\ Distinct(skipped_waiting')
  BY <1>1, RemoveFacts
<1>5. \A r \in Reqs : Gone(r).status = "FINISHED"
  BY DEF Gone, NewRequest
<1>6. NowStatus(S, "FINISHED")
  BY <1>1, <1>5 DEF NowStatus
<1>7. WithStatus("RUNNING")' = WithStatus("RUNNING") \ S /\ LiveReqs' = LiveReqs \ S
  BY <1>6 DEF NowStatus, WithStatus, LiveReqs, Live
<1>8. ToSet(<<>>) = {} /\ Distinct(<<>>)
  BY EmptyFacts
<1>9. Queued' = (ToSet(w) \cup ToSet(k)) \ S
  BY <1>3, <1>4, <1>8 DEF Queued
<1>10. stopped'.running = {} /\ stopped'.preempted = {}
  BY DEF NobodyStopped
<1>11. \A r \in Reqs : request'[r].status \in Blocked => r \notin ToSet(waiting')
  BY <1>3, <1>6 DEF NowStatus, Blocked
<1>12. ToSet(loc'.step_skipped) = {} /\ Distinct(loc'.step_skipped)
  BY <1>8
<1>13. Queues'
  BY <1>2, <1>3, <1>4, <1>7, <1>9, <1>10, <1>11, <1>12 DEF Queues
<1>14. QED BY <1>6, <1>13

\* At the end of update_from_output the stopped requests leave the queues.
LEMMA BaseEndOutput == ASSUME Base, EndOutput PROVE StepsSound' /\ BatchSound' /\ Queues'
<1> DEFINE S == grammar_compile_error_reqs \cap LiveReqs
           run == remove_requests(running, stopped.running)
           w == remove_requests(waiting, stopped.preempted)
           k == remove_requests(skipped_waiting, stopped.preempted)
<1>1. /\ FinishRequests(S, run, w, k, finished_req_ids)
      /\ pc = "output" /\ stopped' = NobodyStopped /\ UNCHANGED <<config, inflight, todo, loc>>
  BY Zenon DEF EndOutput, Leave, env, worker
<1>2. S \in SUBSET Reqs /\ Typed /\ running \in Seq(Reqs) /\ waiting \in Seq(Reqs)
      /\ skipped_waiting \in Seq(Reqs)
  BY DEF Base, Typed
<1>3. run \in Seq(Reqs) /\ ToSet(run) = ToSet(running) \ stopped.running
      /\ (Distinct(running) => Distinct(run))
  BY <1>2, RemoveFacts
<1>4. w \in Seq(Reqs) /\ ToSet(w) = ToSet(waiting) \ stopped.preempted
      /\ (Distinct(waiting) => Distinct(w))
  BY <1>2, RemoveFacts
<1>5. k \in Seq(Reqs) /\ ToSet(k) = ToSet(skipped_waiting) \ stopped.preempted
      /\ (Distinct(skipped_waiting) => Distinct(k))
  BY <1>2, RemoveFacts
<1> HIDE DEF S, run, w, k
<1>6. loc.batch = <<>> /\ loc.step_skipped = <<>>
  BY <1>1 DEF Base, Phases, Idle
<1>7. ToSet(<<>>) = {}
  BY EmptyFacts
<1>8. Distinct(run) /\ Distinct(w) /\ Distinct(k) /\ ToSet(w) \cap ToSet(k) = {}
  BY <1>3, <1>4, <1>5 DEF Base, Queues
<1>9. /\ ToSet(run) = WithStatus("RUNNING")
      /\ ToSet(w) \cup ToSet(k) = LiveReqs \ WithStatus("RUNNING")
  BY <1>3, <1>4, <1>5, <1>6, <1>7 DEF Base, Queues, Queued
<1>10. \A r \in Reqs : request[r].status \in Blocked => r \notin ToSet(w)
  BY <1>4 DEF Base, Queues
<1>11. loc'.step_skipped = <<>> /\ loc'.batch = <<>>
  BY <1>1, <1>6
<1>12. Queues' /\ NowStatus(S, "FINISHED")
  BY <1>1, <1>2, <1>3, <1>4, <1>5, <1>8, <1>9, <1>10, <1>11, FinishQueues
<1>13. Steps' = Steps
  BY <1>1 DEF Steps
<1>14. StepsSound'
  BY <1>1, <1>12, <1>13, StepsSame DEF Base, NowStatus
<1>15. QED BY <1>11, <1>12, <1>14, BatchNone

\* Between two calls of the loop nothing is half done.
LEMMA IdleFacts ==
  ASSUME Base, pc = "idle"
  PROVE  /\ loc.batch = <<>> /\ loc.step_skipped = <<>> /\ stopped = NobodyStopped /\ todo = <<>>
         /\ ToSet(running) = WithStatus("RUNNING")
         /\ ToSet(waiting) \cup ToSet(skipped_waiting) = LiveReqs \ WithStatus("RUNNING")
<1>1. loc.batch = <<>> /\ loc.step_skipped = <<>> /\ stopped = NobodyStopped /\ todo = <<>>
  BY DEF Base, Phases, Idle
<1>2. ToSet(<<>>) = {}
  BY EmptyFacts
<1>3. ToSet(running) = WithStatus("RUNNING") /\ Queued = LiveReqs \ WithStatus("RUNNING")
  BY RunningOnes
<1>4. Queued = ToSet(waiting) \cup ToSet(skipped_waiting)
  BY <1>1, <1>2 DEF Queued
<1>5. QED BY <1>1, <1>3, <1>4

\* A request is finished from outside.
LEMMA BaseFinishOne ==
  ASSUME Base, NEW r \in Reqs, pc = "idle",
         FinishRequests({r}, running, waiting, skipped_waiting, finished_req_ids),
         UNCHANGED <<config, inflight, loc, output>>
  PROVE  StepsSound' /\ BatchSound' /\ Queues' /\ NowStatus({r}, "FINISHED")
<1>1. /\ loc.batch = <<>> /\ loc.step_skipped = <<>> /\ stopped = NobodyStopped /\ todo = <<>>
      /\ ToSet(running) = WithStatus("RUNNING")
      /\ ToSet(waiting) \cup ToSet(skipped_waiting) = LiveReqs \ WithStatus("RUNNING")
  BY IdleFacts
<1>2. /\ Typed /\ running \in Seq(Reqs) /\ waiting \in Seq(Reqs) /\ skipped_waiting \in Seq(Reqs)
      /\ {r} \in SUBSET Reqs
  BY DEF Base, Typed
<1>3. /\ Distinct(running) /\ Distinct(waiting) /\ Distinct(skipped_waiting)
      /\ ToSet(waiting) \cap ToSet(skipped_waiting) = {}
      /\ \A s \in Reqs : request[s].status \in Blocked => s \notin ToSet(waiting)
  BY DEF Base, Queues
<1>4. stopped' = NobodyStopped /\ loc'.step_skipped = <<>> /\ loc'.batch = <<>>
  BY <1>1 DEF output
<1>5. Queues' /\ NowStatus({r}, "FINISHED")
  BY <1>1, <1>2, <1>3, <1>4, FinishQueues
<1>6. Steps' = Steps
  BY DEF Steps, output
<1>7. StepsSound'
  BY <1>5, <1>6, StepsSame DEF Base, NowStatus
<1>8. QED BY <1>4, <1>5, <1>7, BatchNone

\* An aborted request leaves its queue.
LEMMA BaseAbort ==
  ASSUME Base, NEW r \in Reqs, Abort(r) PROVE StepsSound' /\ BatchSound' /\ Queues'
<1>1. /\ FinishRequests({r}, running, waiting, skipped_waiting, finished_req_ids)
      /\ pc = "idle" /\ UNCHANGED <<config, inflight, loc, output>>
  BY Zenon DEF Abort, env, worker
<1>2. QED BY <1>1, BaseFinishOne

\* A new request joins one queue.
LEMMA BaseAddRequest ==
  ASSUME Base, NEW r \in Reqs, AddRequest(r) PROVE StepsSound' /\ BatchSound' /\ Queues'
<1> DEFINE s == IF r \in Structured THEN "WAITING_FOR_STRUCTURED_OUTPUT_GRAMMAR" ELSE "WAITING"
<1>1. /\ BetweenSteps /\ pc = "idle" /\ request[r].status = "NEW"
      /\ UNCHANGED <<running, config, inflight, todo, stopped, loc>>
      /\ IF r \in Structured
         THEN waiting' = waiting /\ skipped_waiting' = Append(skipped_waiting, r)
         ELSE waiting' = Append(waiting, r) /\ skipped_waiting' = skipped_waiting
      /\ request' = [request EXCEPT ![r].status = s]
  BY DEF AddRequest, BetweenSteps, add_request, env, worker, output
<1>2. s \notin {"NEW", "FINISHED", "RUNNING"} /\ (r \notin Structured => s \notin Blocked)
  BY DEF Blocked
<1>3. request[r] \in AnyRequest /\ Typed
  BY DEF Base, Typed
<1> HIDE DEF s
<1>4. NowStatus({r}, s)
  <2>1. [request[r] EXCEPT !.status = s].status = s
    BY <1>3 DEF AnyRequest
  <2>2. request' = [request EXCEPT ![r] = [request[r] EXCEPT !.status = s]]
    BY <1>1
  <2>3. NowStatus({r}, [request[r] EXCEPT !.status = s].status)
    BY <2>2, <1>3, ChangedStatus
  <2>4. QED BY <2>1, <2>3
<1>5. /\ loc.batch = <<>> /\ loc.step_skipped = <<>> /\ stopped = NobodyStopped
      /\ ToSet(running) = WithStatus("RUNNING")
      /\ ToSet(waiting) \cup ToSet(skipped_waiting) = LiveReqs \ WithStatus("RUNNING")
  BY <1>1, IdleFacts
<1>6. r \notin ToSet(waiting) /\ r \notin ToSet(skipped_waiting) /\ r \notin LiveReqs
  BY <1>1, <1>5 DEF LiveReqs, Live
<1>7. WithStatus("RUNNING")' = WithStatus("RUNNING") /\ LiveReqs' = LiveReqs \cup {r}
      /\ r \notin WithStatus("RUNNING")
  BY <1>1, <1>2, <1>4 DEF NowStatus, WithStatus, LiveReqs, Live
<1>8. waiting \in Seq(Reqs) /\ skipped_waiting \in Seq(Reqs)
      /\ Distinct(waiting) /\ Distinct(skipped_waiting) /\ Distinct(running)
      /\ ToSet(waiting) \cap ToSet(skipped_waiting) = {}
      /\ \A t \in Reqs : request[t].status \in Blocked => t \notin ToSet(waiting)
  BY DEF Base, Typed, Queues
<1>9. ToSet(Append(waiting, r)) = ToSet(waiting) \cup {r} /\ Distinct(Append(waiting, r))
  BY <1>6, <1>8, AppendFacts
<1>10. ToSet(Append(skipped_waiting, r)) = ToSet(skipped_waiting) \cup {r}
       /\ Distinct(Append(skipped_waiting, r))
  BY <1>6, <1>8, AppendFacts
<1>11. StepsSound'
  <2>1. \A t \in Reqs : request[t].status # "NEW" => request'[t].status # "NEW"
    BY <1>2, <1>4 DEF NowStatus
  <2>2. QED BY <2>1, <1>1, StepsKept DEF Base
<1>12. ToSet(<<>>) = {} /\ Distinct(<<>>)
  BY EmptyFacts
<1>13. /\ Distinct(waiting') /\ Distinct(skipped_waiting')
       /\ ToSet(waiting') \cap ToSet(skipped_waiting') = {}
       /\ ToSet(waiting') \cup ToSet(skipped_waiting')
            = (ToSet(waiting) \cup ToSet(skipped_waiting)) \cup {r}
       /\ \A t \in Reqs : request'[t].status \in Blocked => t \notin ToSet(waiting')
  <2>1. \A t \in Reqs : t # r => request'[t].status = request[t].status
    BY <1>4 DEF NowStatus
  <2>2. request'[r].status = s
    BY <1>4 DEF NowStatus
  <2>3. CASE r \in Structured
    <3>1. waiting' = waiting /\ skipped_waiting' = Append(skipped_waiting, r)
      BY <1>1, <2>3
    <3>2. \A t \in Reqs : request'[t].status \in Blocked => t \notin ToSet(waiting')
      BY <3>1, <2>1, <1>6, <1>8
    <3>3. QED BY <3>1, <3>2, <1>6, <1>8, <1>10
  <2>4. CASE r \notin Structured
    <3>1. waiting' = Append(waiting, r) /\ skipped_waiting' = skipped_waiting
      BY <1>1, <2>4
    <3>2. \A t \in Reqs : request'[t].status \in Blocked => t \notin ToSet(waiting')
      BY <3>1, <2>1, <2>2, <2>4, <1>2, <1>8, <1>9
    <3>3. QED BY <3>1, <3>2, <1>6, <1>8, <1>9
  <2>5. QED BY <2>3, <2>4
<1>14. Queued' = ToSet(waiting') \cup ToSet(skipped_waiting')
  BY <1>1, <1>5, <1>12 DEF Queued
<1>15. stopped'.running = {} /\ stopped'.preempted = {}
  BY <1>1, <1>5 DEF NobodyStopped
<1>16. loc'.step_skipped = <<>> /\ loc'.batch = <<>> /\ running' = running
  BY <1>1, <1>5
<1>17. Queues'
  BY <1>5, <1>7, <1>8, <1>12, <1>13, <1>14, <1>15, <1>16 DEF Queues
<1>18. QED BY <1>11, <1>16, <1>17, BatchNone

\* A session that was paused joins one queue.
LEMMA BaseAddUpdate ==
  ASSUME Base, NEW r \in Reqs, NEW update \in {"chunk", "end"}, AddUpdate(r, update)
  PROVE  StepsSound' /\ BatchSound' /\ Queues'
<1>1. /\ BetweenSteps /\ pc = "idle" /\ Live(r)
      /\ UNCHANGED <<config, inflight, loc, output>>
  BY AddUpdateCases DEF BetweenSteps, worker
<1>2. request[r] \in AnyRequest /\ Typed
  BY DEF Base, Typed
<1>3. loc.batch = <<>>
  BY <1>1, IdleFacts
<1>4. Steps' = Steps /\ stopped' = stopped
  BY <1>1 DEF Steps, output
<1>5. CASE /\ request' = [request EXCEPT ![r] = [request[r] EXCEPT
                                !.streaming_queue = Append(@, update)]]
           /\ UNCHANGED <<held, queues, finished_req_ids, num_waiting_for_streaming_input>>
  <2>1. [request[r] EXCEPT !.streaming_queue = Append(@, update)].status = request[r].status
    BY <1>2 DEF AnyRequest
  <2>2. SameStatus
    BY <2>1, <1>2, <1>5, ChangedStatus
  <2>3. StepsSound'
    BY <2>2, <1>1, <1>4, StepsSame DEF Base, SameStatus
  <2>4. QED BY <2>2, <2>3, <1>1, <1>3, <1>4, <1>5, QueuesSame, BatchNone DEF Base
<1>6. CASE /\ request[r].status = "WAITING_FOR_STREAMING_REQ"
           /\ request' = [request EXCEPT ![r] = UpdatedSession(request[r])]
           /\ UNCHANGED <<held, queues, finished_req_ids>>
  <2>1. UpdatedSession(request[r]).status = "WAITING"
    BY <1>2, UpdatedSessionFacts
  <2>2. NowStatus({r}, "WAITING")
    <3>1. NowStatus({r}, UpdatedSession(request[r]).status)
      BY <1>2, <1>6, ChangedStatus
    <3>2. QED BY <2>1, <3>1
  <2>3. StepsSound'
    <3>1. \A t \in Reqs : request[t].status # "NEW" => request'[t].status # "NEW"
      BY <2>2 DEF NowStatus
    <3>2. todo' = todo
      BY <1>1 DEF output
    <3>3. QED BY <3>1, <3>2, <1>1, StepsKept DEF Base
  <2>4. WithStatus("RUNNING")' = WithStatus("RUNNING") /\ LiveReqs' = LiveReqs
        /\ WithStatus("FINISHED")' = WithStatus("FINISHED")
    BY <2>2, <1>1, <1>6 DEF NowStatus, WithStatus, LiveReqs, Live
  <2>5. Queued' = Queued
    BY <1>1, <1>6 DEF Queued, queues
  <2>6. \A t \in Reqs : request'[t].status \in Blocked => t \notin ToSet(waiting')
    BY <2>2, <1>6 DEF NowStatus, Blocked, queues, Base, Queues
  <2>7. UNCHANGED <<waiting, skipped_waiting, running, loc, stopped>>
    BY <1>1, <1>4, <1>6 DEF queues
  <2>8. Queues'
    BY <2>4, <2>5, <2>6, <2>7 DEF Base, Queues
  <2>9. QED BY <2>3, <2>7, <2>8, <1>3, BatchNone
<1>7. CASE FinishRequests({r}, running, waiting, skipped_waiting, finished_req_ids)
  BY <1>1, <1>7, BaseFinishOne
<1>8. QED BY <1>5, <1>6, <1>7, AddUpdateCases

\* A reset moves the running requests to the waiting queue.
LEMMA BaseReset == ASSUME Base, ResetPrefixCache PROVE StepsSound' /\ BatchSound' /\ Queues'
<1> DEFINE R == ToSet(running)
<1>1. /\ BetweenSteps /\ pc = "idle" /\ running' = <<>> /\ waiting' = running \o waiting
      /\ request' = [r \in Reqs |-> IF r \in R THEN Preempted(request[r], TRUE) ELSE request[r]]
      /\ UNCHANGED <<skipped_waiting, config, inflight, todo, stopped, loc>>
  BY Zenon DEF ResetPrefixCache, BetweenSteps, env, worker, output
<1> HIDE DEF R
<1>2. \A r \in Reqs : Preempted(request[r], TRUE).status = "PREEMPTED"
  BY DEF Base, Typed, Preempted, AnyRequest
<1>3. NowStatus(R, "PREEMPTED")
  BY <1>1, <1>2 DEF NowStatus
<1>4. /\ loc.batch = <<>> /\ loc.step_skipped = <<>> /\ stopped = NobodyStopped
      /\ R = WithStatus("RUNNING")
      /\ ToSet(waiting) \cup ToSet(skipped_waiting) = LiveReqs \ WithStatus("RUNNING")
  BY <1>1, IdleFacts DEF R
<1>5. waiting \in Seq(Reqs) /\ skipped_waiting \in Seq(Reqs) /\ running \in Seq(Reqs)
      /\ Distinct(waiting) /\ Distinct(skipped_waiting) /\ Distinct(running)
      /\ ToSet(waiting) \cap ToSet(skipped_waiting) = {}
      /\ \A t \in Reqs : request[t].status \in Blocked => t \notin ToSet(waiting)
  BY DEF Base, Typed, Queues
<1>6. StepsSound'
  <2>1. \A t \in Reqs : request[t].status # "NEW" => request'[t].status # "NEW"
    BY <1>3 DEF NowStatus
  <2>2. QED BY <2>1, <1>1, StepsKept DEF Base
<1>7. ToSet(running \o waiting) = R \cup ToSet(waiting) /\ Distinct(running \o waiting)
  <2>1. ToSet(running) \cap ToSet(waiting) = {}
    BY <1>4 DEF R
  <2>2. QED BY <2>1, <1>5, ConcatFacts DEF R
<1>8. WithStatus("RUNNING")' = {} /\ LiveReqs' = LiveReqs /\ R \in SUBSET LiveReqs
  BY <1>3, <1>4 DEF NowStatus, WithStatus, LiveReqs, Live
<1>9. ToSet(<<>>) = {} /\ Distinct(<<>>)
  BY EmptyFacts
<1>10. \A t \in Reqs : request'[t].status \in Blocked => t \notin ToSet(waiting')
  BY <1>1, <1>3, <1>5, <1>7 DEF NowStatus, Blocked
<1>11. Queued' = R \cup ToSet(waiting) \cup ToSet(skipped_waiting)
  BY <1>1, <1>4, <1>7, <1>9 DEF Queued
<1>12. stopped'.running = {} /\ stopped'.preempted = {}
  BY <1>1, <1>4 DEF NobodyStopped
<1>13. loc'.step_skipped = <<>> /\ loc'.batch = <<>>
  BY <1>1, <1>4
<1>14. ToSet(waiting') \cap ToSet(skipped_waiting') = {} /\ Distinct(waiting')
       /\ Distinct(skipped_waiting') /\ Distinct(running') /\ ToSet(running') = {}
  BY <1>1, <1>4, <1>5, <1>7, <1>9
<1>15. Queues'
  BY <1>4, <1>8, <1>9, <1>10, <1>11, <1>12, <1>13, <1>14 DEF Queues
<1>16. QED BY <1>6, <1>13, <1>15, BatchNone

\* Steps that change neither a request nor a queue, nor the locals.
LEMMA BaseSame ==
  ASSUME Base, UNCHANGED <<pc, request, queues, config, inflight, loc, output>>
  PROVE  StepsSound' /\ BatchSound' /\ Queues'
<1>1. SameStatus /\ UNCHANGED <<todo, stopped>>
  BY DEF SameStatus, output
<1>2. StepsSound'
  BY <1>1, StepsSame DEF Base, SameStatus, Steps
<1>3. loc.idx \in Int
  BY DEF Base, Typed, Locals
<1>4. BatchSound'
  BY <1>1, <1>3, BatchKept DEF Base, SameStatus, queues
<1>5. QED BY <1>1, <1>2, <1>4, QueuesSame DEF Base

\* Every step keeps the queues, the steps and the phases.
LEMMA BaseNext == ASSUME Base, [Next]_vars PROVE Base'
<1>1. Typed' /\ Phases'
  BY TypedNext, PhasesNext DEF Base
<1>2. ASSUME Schedule PROVE StepsSound' /\ BatchSound' /\ Queues'
  BY <1>2, BaseBegin, BaseSkipRunning, BaseScheduleRunning, BasePreemptForRunning,
     BaseEndRunning, BaseSkipWaiting, BaseAdmit, BaseStopWaiting, BaseEndWaiting,
     BaseCommit DEF Schedule
<1>3. ASSUME UpdateFromOutput PROVE StepsSound' /\ BatchSound' /\ Queues'
  <2>1. NumSpec \in Nat
    BY ConfigFacts DEF Base, Typed
  <2>2. ASSUME NEW accepted \in 0 .. NumSpec, NEW eos \in 0 .. NumSpec + 1,
               NEW error \in BOOLEAN, NEW drafts \in {0, NumSpec},
               Deliver(accepted, eos, error, drafts)
        PROVE  StepsSound' /\ BatchSound' /\ Queues'
    <3>1. accepted \in Int /\ eos \in Int /\ drafts \in Int
      BY <2>1
    <3>2. QED BY <3>1, <2>2, BaseDeliver
  <2>3. QED BY <1>3, <2>2, BaseBeginOutput, BaseDropOutput, BaseEndOutput
            DEF UpdateFromOutput
<1>4. ASSUME GrammarStep PROVE StepsSound' /\ BatchSound' /\ Queues'
  <2>1. UNCHANGED <<pc, request, queues, config, inflight, loc, output>>
    BY <1>4 DEF GrammarStep, GrammarDone, worker
  <2>2. QED BY <2>1, BaseSame
<1>5. ASSUME NEW p, set_pause_state(p) PROVE StepsSound' /\ BatchSound' /\ Queues'
  <2>1. UNCHANGED <<pc, request, queues, config, inflight, loc, output>>
    BY <1>5 DEF set_pause_state, worker, env
  <2>2. QED BY <2>1, BaseSame
<1>6. ASSUME Handlers PROVE StepsSound' /\ BatchSound' /\ Queues'
  BY <1>5, <1>6, BaseAddRequest, BaseAbort, BaseAddUpdate, BaseReset DEF Handlers
<1>7. ASSUME UNCHANGED vars PROVE StepsSound' /\ BatchSound' /\ Queues'
  <2>1. UNCHANGED <<pc, request, queues, config, inflight, loc, output>>
    BY <1>7 DEF vars, worker, env
  <2>2. QED BY <2>1, BaseSame
<1>8. QED BY <1>1, <1>2, <1>3, <1>4, <1>6, <1>7 DEF Next, Base

(* The inductive invariant under the theorems below: types, the phases of the     *)
(* engine loop, at most one entry of a request in a step, and the queues, also in *)
(* the middle of schedule() and update_from_output (scheduler.py).                *)
THEOREM BaseInvariant == Spec => []Base
<1>1. Init => Base
  BY TypedInit, PhasesInit, QueuesInit DEF Base
<1>2. Base /\ [Next]_vars => Base'
  BY BaseNext
<1>3. QED BY <1>1, <1>2, PTL DEF Spec

\* Between two handlers.
LEMMA PartitionFacts == ASSUME Base PROVE QueuePartition
<1> SUFFICES ASSUME pc = "idle"
             PROVE  /\ \A r \in Reqs :
                         Cardinality({i \in DOMAIN (running \o waiting \o skipped_waiting) :
                                        (running \o waiting \o skipped_waiting)[i] = r})
                           = IF Live(r) THEN 1 ELSE 0
                    /\ ToSet(running) = WithStatus("RUNNING")
                    /\ {r \in Reqs : request[r].status \in Blocked} \subseteq ToSet(skipped_waiting)
  BY DEF QueuePartition, WithStatus
<1> DEFINE q == running \o waiting \o skipped_waiting
<1>1. /\ ToSet(running) = WithStatus("RUNNING")
      /\ ToSet(waiting) \cup ToSet(skipped_waiting) = LiveReqs \ WithStatus("RUNNING")
  BY IdleFacts
<1>2. running \in Seq(Reqs) /\ waiting \in Seq(Reqs) /\ skipped_waiting \in Seq(Reqs)
  BY DEF Base, Typed
<1>3. /\ Distinct(running) /\ Distinct(waiting) /\ Distinct(skipped_waiting)
      /\ ToSet(waiting) \cap ToSet(skipped_waiting) = {}
      /\ \A r \in Reqs : request[r].status \in Blocked => r \notin ToSet(waiting)
  BY DEF Base, Queues
<1>4. running \o waiting \in Seq(Reqs)
      /\ ToSet(running \o waiting) = ToSet(running) \cup ToSet(waiting)
      /\ Distinct(running \o waiting)
  BY <1>1, <1>2, <1>3, ConcatFacts
<1>5. q \in Seq(Reqs) /\ ToSet(q) = ToSet(running) \cup ToSet(waiting) \cup ToSet(skipped_waiting)
      /\ Distinct(q)
  <2>1. ToSet(running \o waiting) \cap ToSet(skipped_waiting) = {}
    BY <1>1, <1>3, <1>4
  <2> DEFINE p == running \o waiting
  <2>2. p \in Seq(Reqs) /\ Distinct(p) /\ ToSet(p) \cap ToSet(skipped_waiting) = {}
        /\ ToSet(p) = ToSet(running) \cup ToSet(waiting)
    BY <2>1, <1>4
  <2>3. q = p \o skipped_waiting
    OBVIOUS
  <2> HIDE DEF p
  <2> HIDE DEF q
  <2>4. p \o skipped_waiting \in Seq(Reqs)
    BY <2>2, <1>2, ConcatFacts
  <2>5. ToSet(p \o skipped_waiting) = ToSet(p) \cup ToSet(skipped_waiting)
    BY <2>2, <1>2, ConcatFacts
  <2>6. Distinct(p \o skipped_waiting)
    BY <2>2, <1>2, <1>3, ConcatFacts
  <2>7. QED BY <2>2, <2>3, <2>4, <2>5, <2>6
<1>6. WithStatus("RUNNING") \subseteq LiveReqs
  BY DEF WithStatus, LiveReqs, Live
<1>7. ToSet(q) = LiveReqs
  BY <1>1, <1>5, <1>6
<1> HIDE DEF q
<1>8. ASSUME NEW r \in Reqs
      PROVE  Cardinality({i \in DOMAIN q : q[i] = r}) = IF Live(r) THEN 1 ELSE 0
  <2>1. CASE Live(r)
    <3>1. PICK k \in DOMAIN q : q[k] = r
      BY <2>1, <1>7 DEF ToSet, LiveReqs
    <3>2. {i \in DOMAIN q : q[i] = r} = {k}
      BY <3>1, <1>5 DEF Distinct
    <3>3. QED BY <2>1, <3>2, FS_Singleton
  <2>2. CASE ~Live(r)
    <3>1. {i \in DOMAIN q : q[i] = r} = {}
      BY <2>2, <1>7 DEF ToSet, LiveReqs
    <3>2. QED BY <2>2, <3>1, FS_EmptySet
  <2>3. QED BY <2>1, <2>2
<1>9. {r \in Reqs : request[r].status \in Blocked} \subseteq ToSet(skipped_waiting)
  BY <1>1, <1>3 DEF Blocked, LiveReqs, Live, WithStatus
<1>10. QED BY <1>1, <1>8, <1>9 DEF q

(* Every request that was added and has not ended is in exactly one of running, *)
(* waiting and skipped_waiting, the running list holds exactly the running ones *)
(* and blocked ones are never in waiting: no request is lost or run twice,      *)
(* whatever is preempted, skipped, aborted, paused or reset (scheduler.py).     *)
THEOREM QueuesPartition == Spec => []QueuePartition
<1>1. Base => QueuePartition
  BY PartitionFacts
<1>2. QED BY <1>1, BaseInvariant, PTL

---------------------------------------------------------------------------
(* Statuses, paused sessions, slots.                                       *)

(* What the steps do to the statuses of the requests, to the count of the *)
(* paused sessions and to the slots of the model runner.                  *)

\* No request starts or ceases to run, to be paused or to wait.
Calm ==
  /\ \A r \in Reqs :
       \/ request'[r].status = request[r].status
       \/ /\ request[r].status \notin {"RUNNING", "WAITING_FOR_STREAMING_REQ", "WAITING"}
          /\ request'[r].status \notin {"RUNNING", "WAITING_FOR_STREAMING_REQ"}
  /\ UNCHANGED <<num_waiting_for_streaming_input, slots, notices>>
  /\ InSchedule' \/ ~InSchedule

\* The requests of S lose their blocks and start over.
Preempts(S) ==
  /\ S \subseteq WithStatus("RUNNING")
  /\ NowStatus(S, "PREEMPTED")
  /\ reset_preempted_req_ids' = reset_preempted_req_ids \cup S
  /\ UNCHANGED <<num_waiting_for_streaming_input, slots, finished_req_ids>>
  /\ InSchedule' \/ ~InSchedule

Admits(r) ==
  /\ NowStatus({r}, "RUNNING") /\ r \in Reqs
  /\ request[r].status \notin {"RUNNING", "WAITING_FOR_STREAMING_REQ"}
  /\ Cardinality(WithStatus("RUNNING")) + num_waiting_for_streaming_input < MaxRunning
  /\ UNCHANGED <<num_waiting_for_streaming_input, slots, notices>>
  /\ InSchedule'

Launches ==
  /\ SameStatus
  /\ slots' \subseteq ((slots \ finished_req_ids) \ reset_preempted_req_ids)
                        \cup WithStatus("RUNNING")
  /\ finished_req_ids' = {} /\ reset_preempted_req_ids' = {}
  /\ UNCHANGED num_waiting_for_streaming_input

Finishes(S) ==
  /\ S \in SUBSET Reqs
  /\ NowStatus(S, "FINISHED")
  /\ finished_req_ids' = finished_req_ids \cup S
  /\ num_waiting_for_streaming_input' = num_waiting_for_streaming_input
       - Cardinality(S \cap WithStatus("WAITING_FOR_STREAMING_REQ"))
  /\ UNCHANGED <<slots, reset_preempted_req_ids>>
  /\ InSchedule' \/ ~InSchedule

\* A session is between two chunks, or goes on with the next.
SessionTurns(r) ==
  /\ r \in Sessions /\ r \in Reqs
  /\ UNCHANGED <<slots, notices>>
  /\ InSchedule' \/ ~InSchedule
  /\ \/ /\ request[r].status = "RUNNING" /\ NowStatus({r}, "WAITING")
        /\ UNCHANGED num_waiting_for_streaming_input
     \/ /\ request[r].status = "RUNNING" /\ NowStatus({r}, "WAITING_FOR_STREAMING_REQ")
        /\ num_waiting_for_streaming_input' = num_waiting_for_streaming_input + 1
     \/ /\ request[r].status = "WAITING_FOR_STREAMING_REQ" /\ NowStatus({r}, "WAITING")
        /\ num_waiting_for_streaming_input' = num_waiting_for_streaming_input - 1

StatusStep ==
  \/ Calm
  \/ \E S \in SUBSET Reqs : Preempts(S)
  \/ \E r \in Reqs : Admits(r)
  \/ Launches
  \/ \E S \in SUBSET Reqs : Finishes(S)
  \/ \E r \in Reqs : SessionTurns(r)

PausedSessions == WithStatus("WAITING_FOR_STREAMING_REQ")

\* Nothing changes the configuration.
LEMMA ConfigSame == ASSUME [Next]_vars PROVE config' = config
<1>1. ASSUME Schedule PROVE config' = config
  BY <1>1, Zenon DEF Schedule, BeginSchedule, SkipRunning, ScheduleRunning, PreemptForRunning,
     EndRunning, SkipWaiting, Admit, StopWaiting, EndWaiting, Requeue, Commit, env
<1>2. ASSUME UpdateFromOutput PROVE config' = config
  <2>1. ASSUME NEW accepted, NEW eos, NEW error, NEW drafts, Deliver(accepted, eos, error, drafts)
        PROVE  config' = config
    BY <2>1, Zenon DEF Deliver, env
  <2>2. ASSUME BeginOutput \/ DropOutput \/ EndOutput PROVE config' = config
    BY <2>2, Zenon DEF BeginOutput, DropOutput, EndOutput, env
  <2>3. QED BY <1>2, <2>1, <2>2, Zenon DEF UpdateFromOutput
<1>3. ASSUME GrammarStep PROVE config' = config
  BY <1>3, Zenon DEF GrammarStep, GrammarDone
<1>4. ASSUME Handlers PROVE config' = config
  BY <1>4, Zenon DEF Handlers, AddRequest, Abort, AddUpdate, ResetPrefixCache, set_pause_state, env
<1>5. QED BY <1>1, <1>2, <1>3, <1>4 DEF Next, vars, env

\* A handler that changes one request's record, but not its status.
LEMMA CalmSame ==
  ASSUME SameStatus, UNCHANGED <<num_waiting_for_streaming_input, slots, notices>>,
         InSchedule' \/ ~InSchedule
  PROVE  Calm
  BY DEF Calm, SameStatus

\* finish_requests changes the statuses of its requests.
LEMMA FinishStatus ==
  ASSUME NEW S \in SUBSET Reqs, NEW run, NEW w, NEW k,
         FinishRequests(S, run, w, k, finished_req_ids),
         UNCHANGED <<slots, reset_preempted_req_ids>>, InSchedule' \/ ~InSchedule
  PROVE  Finishes(S)
<1>1. /\ request' = [r \in Reqs |-> IF r \in S THEN Gone(r) ELSE request[r]]
      /\ finished_req_ids' = finished_req_ids \cup S
      /\ num_waiting_for_streaming_input' = num_waiting_for_streaming_input
          - Cardinality({r \in S : request[r].status = "WAITING_FOR_STREAMING_REQ"})
  BY Zenon DEF FinishRequests
<1>2. \A r \in Reqs : Gone(r).status = "FINISHED"
  BY DEF Gone, NewRequest
<1>3. NowStatus(S, "FINISHED")
  BY <1>1, <1>2 DEF NowStatus
<1>4. {r \in S : request[r].status = "WAITING_FOR_STREAMING_REQ"}
        = S \cap WithStatus("WAITING_FOR_STREAMING_REQ")
  BY DEF WithStatus
<1>5. QED BY <1>1, <1>3, <1>4 DEF Finishes

\* What schedule() does to the statuses.
LEMMA StatusSchedule == ASSUME Base, Schedule PROVE StatusStep
<1>1. CASE BeginSchedule
  BY <1>1, CalmSame DEF BeginSchedule, SameStatus, StatusStep, worker, InSchedule
<1>2. CASE SkipRunning
  BY <1>2, CalmSame DEF SkipRunning, SameStatus, StatusStep, worker, InSchedule
<1>3. CASE ScheduleRunning
  <2> DEFINE r == running[loc.idx]
             p == [request[r] EXCEPT !.num_spec = 0]
  <2>1. r \in Reqs /\ request[r] \in AnyRequest /\ Typed
    BY <1>3, TurnFacts DEF ScheduleRunning, Base
  <2>2. request' = [request EXCEPT ![r] = p]
        /\ UNCHANGED <<pc, num_waiting_for_streaming_input, slots, notices>>
    BY <1>3 DEF ScheduleRunning, worker
  <2>3. p.status = request[r].status
    BY <2>1 DEF AnyRequest
  <2> HIDE DEF r, p
  <2>4. SameStatus
    BY <2>1, <2>2, <2>3, ChangedStatus
  <2>5. Calm
    BY <2>2, <2>4, CalmSame DEF InSchedule
  <2>6. QED BY <2>5 DEF StatusStep
<1>4. CASE PreemptForRunning
  <2>1. /\ Victim \in ToSet(running) /\ Victim \in Reqs /\ request[Victim] \in AnyRequest
        /\ request' = [request EXCEPT ![Victim] = Preempted(request[Victim], KvDelivery)]
        /\ reset_preempted_req_ids' = reset_preempted_req_ids \cup {Victim}
        /\ pc' \in {"commit", "running"}
    BY <1>4, PreemptFacts DEF Base
  <2>2. Preempted(request[Victim], KvDelivery).status = "PREEMPTED"
    BY <2>1 DEF Preempted, AnyRequest
  <2>3. NowStatus({Victim}, "PREEMPTED")
    <3>1. NowStatus({Victim}, Preempted(request[Victim], KvDelivery).status)
      BY <2>1, ChangedStatus DEF Base
    <3>2. QED BY <2>2, <3>1
  <2>4. pc = "running"
    BY <1>4 DEF PreemptForRunning, RunningTurn
  <2>5. {Victim} \subseteq WithStatus("RUNNING")
    BY <2>1, <2>4, RunningOnes
  <2>6. UNCHANGED <<num_waiting_for_streaming_input, slots, finished_req_ids>>
    BY <1>4 DEF PreemptForRunning, worker
  <2>7. Preempts({Victim})
    BY <2>1, <2>3, <2>5, <2>6 DEF Preempts, InSchedule
  <2>8. QED BY <2>1, <2>7 DEF StatusStep
<1>5. CASE EndRunning
  BY <1>5, CalmSame DEF EndRunning, SameStatus, StatusStep, worker, InSchedule
<1>6. CASE SkipWaiting
  <2>1. /\ request' = [request EXCEPT ![Candidate] = Promoted(Candidate)] /\ WaitingTurn
        /\ UNCHANGED <<pc, num_waiting_for_streaming_input, slots, notices>>
    BY <1>6 DEF SkipWaiting, worker
  <2>2. Candidate \in Reqs /\ Typed
    BY <2>1, CandidateFacts DEF Base
  <2>3. \/ Promoted(Candidate).status = request[Candidate].status
        \/ /\ request[Candidate].status = "WAITING_FOR_STRUCTURED_OUTPUT_GRAMMAR"
           /\ Promoted(Candidate).status = "WAITING"
    BY <2>2, PromotedFacts
  <2>4. NowStatus({Candidate}, Promoted(Candidate).status)
    BY <2>1, <2>2, ChangedStatus
  <2>5. Calm
    BY <2>1, <2>3, <2>4 DEF Calm, NowStatus, InSchedule
  <2>6. QED BY <2>5 DEF StatusStep
<1>7. ASSUME WaitingTurn, NEW found \in Lookups(Promoted(Candidate)), Admit(found)
      PROVE  StatusStep
  <2> DEFINE c == Candidate
             p == [found.q EXCEPT !.status = "RUNNING", !.num_computed_tokens = found.computed]
  <2>1. /\ c \in Reqs /\ found.q \in AnyRequest /\ MayResume(found.q)
        /\ PopCandidate /\ found.computed \in Int
        /\ request' = [request EXCEPT ![c] = p]
    BY <1>7, AdmitFacts DEF Base
  <2>2. \/ found.q.status = request[c].status
        \/ /\ request[c].status = "WAITING_FOR_STRUCTURED_OUTPUT_GRAMMAR"
           /\ found.q.status = "WAITING"
    BY <1>7, CandidateLookup
  <2>3. request[c].status # "RUNNING" /\ ToSet(running) = WithStatus("RUNNING")
    BY <1>7, <2>1, PopEffect
  <2>4. p.status = "RUNNING"
    BY <2>1 DEF AnyRequest
  <2> HIDE DEF c, p
  <2>5. NowStatus({c}, "RUNNING")
    <3>1. NowStatus({c}, p.status)
      BY <2>1, ChangedStatus DEF Base
    <3>2. QED BY <2>4, <3>1
  <2>6. request[c].status # "WAITING_FOR_STREAMING_REQ"
    BY <2>1, <2>2 DEF MayResume, Blocked
  <2>7. Cardinality(ToSet(running)) = Len(running)
    BY LenIsCardinality DEF Base, Typed, Queues
  <2>8. /\ UNCHANGED <<pc, num_waiting_for_streaming_input, slots, notices>>
        /\ pc = "waiting" /\ Len(running) + num_waiting_for_streaming_input < MaxRunning
    BY <1>7 DEF Admit, WaitingTurn, worker
  <2>9. Admits(c)
    BY <2>1, <2>3, <2>5, <2>6, <2>7, <2>8 DEF Admits, InSchedule
  <2>10. QED BY <2>1, <2>9 DEF StatusStep
<1>8. ASSUME WaitingTurn, NEW found \in Lookups(Promoted(Candidate)), StopWaiting(found)
      PROVE  StatusStep
  <2>1. /\ request' = [request EXCEPT ![Candidate] = found.q]
        /\ UNCHANGED <<num_waiting_for_streaming_input, slots, notices>> /\ pc' = "commit"
    BY <1>8 DEF StopWaiting, Requeue, worker
  <2>2. /\ Candidate \in Reqs
        /\ \/ found.q.status = request[Candidate].status
           \/ /\ request[Candidate].status = "WAITING_FOR_STRUCTURED_OUTPUT_GRAMMAR"
              /\ found.q.status = "WAITING"
    BY <1>8, CandidateLookup
  <2>3. NowStatus({Candidate}, found.q.status)
    BY <2>1, <2>2, ChangedStatus DEF Base
  <2>4. Calm
    BY <2>1, <2>2, <2>3 DEF Calm, NowStatus, InSchedule
  <2>5. QED BY <2>4 DEF StatusStep
<1>9. CASE EndWaiting
  BY <1>9, CalmSame DEF EndWaiting, Requeue, SameStatus, StatusStep, worker, InSchedule
<1>10. CASE Commit
  <2>1. /\ request' = Launched
        /\ slots' = ((slots \ finished_req_ids) \ reset_preempted_req_ids)
                      \cup {e.req : e \in ToSet(loc.batch)}
    BY <1>10, CommitFacts DEF Base
  <2>2. \A r \in Reqs : Launched[r].status = request[r].status
    BY LaunchedFacts DEF Base
  <2>3. {e.req : e \in ToSet(loc.batch)} \subseteq WithStatus("RUNNING")
    <3>1. \A i \in DOMAIN loc.batch :
            request[loc.batch[i].req].status = "RUNNING" /\ loc.batch[i].req \in Reqs
      <4>1. loc.batch \in Seq(BatchEntry)
        BY DEF Base, Typed, Locals
      <4>2. \A i \in DOMAIN loc.batch : loc.batch[i] \in BatchEntry
        BY <4>1
      <4>3. \A i \in DOMAIN loc.batch : loc.batch[i].req \in Reqs
        BY <4>2 DEF BatchEntry
      <4>4. QED BY <4>3 DEF Base, BatchSound
    <3>2. QED BY <3>1 DEF ToSet, WithStatus
  <2>4. /\ finished_req_ids' = {} /\ reset_preempted_req_ids' = {}
        /\ UNCHANGED num_waiting_for_streaming_input
    BY <1>10 DEF Commit
  <2>5. Launches
    BY <2>1, <2>2, <2>3, <2>4 DEF Launches, SameStatus
  <2>6. QED BY <2>5 DEF StatusStep
<1>11. QED BY <1>1, <1>2, <1>3, <1>4, <1>5, <1>6, <1>7, <1>8, <1>9, <1>10 DEF Schedule

\* What a delivered output does to the statuses.
LEMMA StatusDeliver ==
  ASSUME Base, PausedSessions \subseteq Sessions, NEW accepted \in Int, NEW eos \in Int, NEW error, NEW drafts \in Int,
         Deliver(accepted, eos, error, drafts)
  PROVE  StatusStep
<1> DEFINE r == Head(todo).req
           q == Output(Head(todo), accepted, eos, drafts)
<1>1. /\ OutputTurn /\ r \in Reqs /\ Live(r) /\ q \in AnyRequest
      /\ UNCHANGED <<pc, reset_preempted_req_ids, slots>>
  BY DeliverEffect
<1>2. \/ /\ request' = [request EXCEPT ![r] = q] /\ q.status = request[r].status
         /\ UNCHANGED <<finished_req_ids, num_waiting_for_streaming_input>>
      \/ /\ request' = [request EXCEPT ![r] = Gone(r)]
         /\ finished_req_ids' = finished_req_ids \cup {r}
         /\ UNCHANGED num_waiting_for_streaming_input
      \/ /\ r \in Sessions /\ request[r].status = "RUNNING"
         /\ request' = [request EXCEPT ![r] = UpdatedSession(Popped(q))]
         /\ UNCHANGED <<finished_req_ids, num_waiting_for_streaming_input>>
      \/ /\ r \in Sessions /\ request[r].status = "RUNNING"
         /\ request' = [request EXCEPT ![r] = [q EXCEPT !.status = "WAITING_FOR_STREAMING_REQ"]]
         /\ UNCHANGED finished_req_ids
         /\ num_waiting_for_streaming_input' = num_waiting_for_streaming_input + 1
  BY DeliverEffect
<1>3. InSchedule' \/ ~InSchedule
  BY <1>1 DEF InSchedule
<1> HIDE DEF r, q
<1>4. CASE /\ request' = [request EXCEPT ![r] = q] /\ q.status = request[r].status
           /\ UNCHANGED <<finished_req_ids, num_waiting_for_streaming_input>>
  <2>1. SameStatus
    BY <1>1, <1>4, ChangedStatus DEF Base
  <2>2. QED BY <2>1, <1>1, <1>3, <1>4, CalmSame DEF StatusStep, notices
<1>5. CASE /\ request' = [request EXCEPT ![r] = Gone(r)]
           /\ finished_req_ids' = finished_req_ids \cup {r}
           /\ UNCHANGED num_waiting_for_streaming_input
  <2>1. NowStatus({r}, "FINISHED")
    <3>1. NowStatus({r}, Gone(r).status)
      BY <1>1, <1>5, ChangedStatus DEF Base
    <3>2. Gone(r).status = "FINISHED"
      BY DEF Gone, NewRequest
    <3>3. QED BY <3>1, <3>2
  <2>2. r \notin PausedSessions
    <3>1. Sessions # {} => request[r].status = "RUNNING"
      BY <1>1, TodoFacts, ConfigFacts DEF Base, Typed, r
    <3>2. QED BY <3>1 DEF PausedSessions, WithStatus
  <2>3. Cardinality({r} \cap PausedSessions) = 0
    <3>1. {r} \cap PausedSessions = {}
      BY <2>2
    <3>2. QED BY <3>1, FS_EmptySet
  <2>4. num_waiting_for_streaming_input' = num_waiting_for_streaming_input
          - Cardinality({r} \cap WithStatus("WAITING_FOR_STREAMING_REQ"))
    BY <1>5, <2>3 DEF PausedSessions, Base, Typed
  <2>5. Finishes({r})
    BY <2>1, <2>4, <1>1, <1>3, <1>5 DEF Finishes
  <2>6. QED BY <1>1, <2>5 DEF StatusStep
<1>6. CASE /\ r \in Sessions /\ request[r].status = "RUNNING"
           /\ request' = [request EXCEPT ![r] = UpdatedSession(Popped(q))]
           /\ UNCHANGED <<finished_req_ids, num_waiting_for_streaming_input>>
  <2>1. NowStatus({r}, "WAITING")
    <3>1. NowStatus({r}, UpdatedSession(Popped(q)).status)
      BY <1>1, <1>6, ChangedStatus DEF Base
    <3>2. UpdatedSession(Popped(q)).status = "WAITING"
      BY <1>1, PoppedFacts, UpdatedSessionFacts
    <3>3. QED BY <3>1, <3>2
  <2>2. SessionTurns(r)
    BY <2>1, <1>1, <1>3, <1>6 DEF SessionTurns, notices
  <2>3. QED BY <1>1, <2>2 DEF StatusStep
<1>7. CASE /\ r \in Sessions /\ request[r].status = "RUNNING"
           /\ request' = [request EXCEPT ![r] = [q EXCEPT !.status = "WAITING_FOR_STREAMING_REQ"]]
           /\ UNCHANGED finished_req_ids
           /\ num_waiting_for_streaming_input' = num_waiting_for_streaming_input + 1
  <2>1. NowStatus({r}, "WAITING_FOR_STREAMING_REQ")
    <3>1. NowStatus({r}, [q EXCEPT !.status = "WAITING_FOR_STREAMING_REQ"].status)
      BY <1>1, <1>7, ChangedStatus DEF Base
    <3>2. [q EXCEPT !.status = "WAITING_FOR_STREAMING_REQ"].status = "WAITING_FOR_STREAMING_REQ"
      BY <1>1 DEF AnyRequest
    <3>3. QED BY <3>1, <3>2
  <2>2. SessionTurns(r)
    BY <2>1, <1>1, <1>3, <1>7 DEF SessionTurns, notices
  <2>3. QED BY <1>1, <2>2 DEF StatusStep
<1>8. QED BY <1>2, <1>4, <1>5, <1>6, <1>7

\* What update_from_output does to the statuses.
LEMMA StatusOutput ==
  ASSUME Base, PausedSessions \subseteq Sessions, UpdateFromOutput PROVE StatusStep
<1>1. CASE BeginOutput
  BY <1>1, CalmSame DEF BeginOutput, SameStatus, StatusStep, InSchedule
<1>2. CASE DropOutput
  <2> DEFINE r == Head(todo).req
             p == Returned(request[r], Head(todo).n)
  <2>1. /\ OutputTurn
        /\ UNCHANGED <<pc, num_waiting_for_streaming_input, slots, notices>>
        /\ request' = IF Live(r) THEN [request EXCEPT ![r] = p] ELSE request
    BY <1>2, Zenon DEF DropOutput, worker
  <2>2. r \in Reqs /\ request[r] \in AnyRequest /\ Head(todo).n \in Int
    BY <2>1, HeadFacts DEF Base
  <2>3. p.status = request[r].status
    BY <2>2 DEF Returned, AnyRequest
  <2> HIDE DEF r, p
  <2>4. SameStatus
    <3>1. CASE Live(r)
      BY <2>1, <2>2, <2>3, <3>1, ChangedStatus DEF Base
    <3>2. CASE ~Live(r)
      BY <2>1, <3>2 DEF SameStatus
    <3>3. QED BY <3>1, <3>2
  <2>5. QED BY <2>1, <2>4, CalmSame DEF StatusStep, InSchedule
<1>3. ASSUME NEW accepted \in 0 .. NumSpec, NEW eos \in 0 .. NumSpec + 1,
             NEW error \in BOOLEAN, NEW drafts \in {0, NumSpec},
             Deliver(accepted, eos, error, drafts)
      PROVE  StatusStep
  <2>1. NumSpec \in Nat
    BY ConfigFacts DEF Base, Typed
  <2>2. accepted \in Int /\ eos \in Int /\ drafts \in Int
    BY <2>1
  <2>3. QED BY <2>2, <1>3, StatusDeliver
<1>4. CASE EndOutput
  <2> DEFINE S == grammar_compile_error_reqs \cap LiveReqs
             run == remove_requests(running, stopped.running)
             w == Leave(waiting, stopped.preempted)
             k == Leave(skipped_waiting, stopped.preempted)
  <2>1. /\ FinishRequests(S, run, w, k, finished_req_ids) /\ pc' = "idle" /\ pc = "output"
        /\ UNCHANGED <<slots, reset_preempted_req_ids>>
    BY <1>4, Zenon DEF EndOutput, worker
  <2>2. S \in SUBSET Reqs
    BY DEF LiveReqs
  <2>3. InSchedule' \/ ~InSchedule
    BY <2>1 DEF InSchedule
  <2> HIDE DEF S, run, w, k
  <2>4. QED BY <2>1, <2>2, <2>3, FinishStatus DEF StatusStep
<1>5. QED BY <1>1, <1>2, <1>3, <1>4 DEF UpdateFromOutput

\* What the request handlers do to the statuses.
LEMMA StatusHandlers ==
  ASSUME Base, PausedSessions \subseteq Sessions, Handlers PROVE StatusStep
<1>1. ASSUME NEW r \in Reqs, AddRequest(r) PROVE StatusStep
  <2> DEFINE s == IF r \in Structured THEN "WAITING_FOR_STRUCTURED_OUTPUT_GRAMMAR" ELSE "WAITING"
             p == [request[r] EXCEPT !.status = s]
  <2>1. /\ request[r].status = "NEW" /\ request' = [request EXCEPT ![r] = p]
        /\ UNCHANGED <<pc, num_waiting_for_streaming_input, slots, notices>>
    BY <1>1 DEF AddRequest, worker
  <2>2. p.status = s /\ s \notin {"RUNNING", "WAITING_FOR_STREAMING_REQ"}
    BY DEF Base, Typed, AnyRequest
  <2> HIDE DEF p, s
  <2>3. NowStatus({r}, p.status)
    BY <2>1, ChangedStatus DEF Base
  <2>4. Calm
    BY <2>1, <2>2, <2>3 DEF Calm, NowStatus, InSchedule
  <2>5. QED BY <2>4 DEF StatusStep
<1>2. ASSUME NEW r \in Reqs, Abort(r) PROVE StatusStep
  <2>1. /\ FinishRequests({r}, running, waiting, skipped_waiting, finished_req_ids)
        /\ UNCHANGED <<pc, slots, reset_preempted_req_ids>>
    BY <1>2, Zenon DEF Abort, worker
  <2>2. Finishes({r})
    BY <2>1, FinishStatus DEF InSchedule
  <2>3. QED BY <2>2 DEF StatusStep
<1>3. ASSUME NEW r \in Reqs, NEW update \in {"chunk", "end"}, AddUpdate(r, update)
      PROVE  StatusStep
  <2>1. /\ r \in Sessions
        /\ UNCHANGED <<pc, reset_preempted_req_ids, slots>>
        /\ request[r] \in AnyRequest /\ Typed
    BY <1>3, AddUpdateCases DEF worker, Base, Typed
  <2>2. CASE /\ request' = [request EXCEPT ![r] = [request[r] EXCEPT
                                !.streaming_queue = Append(@, update)]]
             /\ UNCHANGED <<finished_req_ids, num_waiting_for_streaming_input>>
    <3>1. [request[r] EXCEPT !.streaming_queue = Append(@, update)].status = request[r].status
      BY <2>1 DEF AnyRequest
    <3>2. SameStatus
      BY <3>1, <2>1, <2>2, ChangedStatus
    <3>3. QED BY <3>2, <2>1, <2>2, CalmSame DEF StatusStep, InSchedule, notices
  <2>3. CASE /\ request[r].status = "WAITING_FOR_STREAMING_REQ"
             /\ request' = [request EXCEPT ![r] = UpdatedSession(request[r])]
             /\ num_waiting_for_streaming_input' = num_waiting_for_streaming_input - 1
             /\ UNCHANGED finished_req_ids
    <3>1. NowStatus({r}, "WAITING")
      <4>1. NowStatus({r}, UpdatedSession(request[r]).status)
        BY <2>1, <2>3, ChangedStatus
      <4>2. UpdatedSession(request[r]).status = "WAITING"
        BY <2>1, UpdatedSessionFacts
      <4>3. QED BY <4>1, <4>2
    <3>2. SessionTurns(r)
      BY <3>1, <2>1, <2>3 DEF SessionTurns, notices, InSchedule
    <3>3. QED BY <3>2 DEF StatusStep
  <2>4. CASE FinishRequests({r}, running, waiting, skipped_waiting, finished_req_ids)
    <3>1. Finishes({r})
      BY <2>1, <2>4, FinishStatus DEF InSchedule
    <3>2. QED BY <3>1 DEF StatusStep
  <2>5. QED BY <1>3, <2>2, <2>3, <2>4, AddUpdateCases
<1>4. ASSUME ResetPrefixCache PROVE StatusStep
  <2> DEFINE S == ToSet(running)
  <2>1. /\ request' = [r \in Reqs |-> IF r \in S THEN Preempted(request[r], TRUE) ELSE request[r]]
        /\ reset_preempted_req_ids' = reset_preempted_req_ids \cup S
        /\ UNCHANGED <<pc, num_waiting_for_streaming_input, slots, finished_req_ids>>
        /\ pc = "idle"
    BY <1>4, Zenon DEF ResetPrefixCache, BetweenSteps, worker
  <2>2. S = WithStatus("RUNNING")
    BY <2>1, IdleFacts
  <2> HIDE DEF S
  <2>3. \A r \in Reqs : Preempted(request[r], TRUE).status = "PREEMPTED"
    BY DEF Base, Typed, Preempted, AnyRequest
  <2>4. NowStatus(S, "PREEMPTED")
    BY <2>1, <2>3 DEF NowStatus
  <2>5. S \in SUBSET Reqs /\ Preempts(S)
    BY <2>1, <2>2, <2>4 DEF Preempts, InSchedule, WithStatus
  <2>6. QED BY <2>5 DEF StatusStep
<1>5. ASSUME NEW p, set_pause_state(p) PROVE StatusStep
  BY <1>5, CalmSame DEF set_pause_state, SameStatus, StatusStep, worker, InSchedule
<1>6. QED BY <1>1, <1>2, <1>3, <1>4, <1>5 DEF Handlers

\* Every step is one of these changes of statuses.
LEMMA StatusNext ==
  ASSUME Base, PausedSessions \subseteq Sessions, [Next]_vars PROVE StatusStep
<1>1. CASE GrammarStep
  BY <1>1, CalmSame DEF GrammarStep, GrammarDone, SameStatus, StatusStep, worker, InSchedule
<1>2. CASE UNCHANGED vars
  BY <1>2, CalmSame DEF vars, SameStatus, StatusStep, worker, InSchedule
<1>3. QED BY <1>1, <1>2, StatusSchedule, StatusOutput, StatusHandlers DEF Next

\* The paused sessions are counted.
SessionsCounted ==
  /\ PausedSessions \subseteq Sessions
  /\ num_waiting_for_streaming_input = Cardinality(PausedSessions)

Holders == WithStatus("RUNNING") \cup PausedSessions

WaitingSessions == {r \in Sessions : request[r].status = "WAITING"}

SlotsHeld ==
  /\ Cardinality(Holders) <= MaxRunning
  /\ ~InSchedule => Cardinality(Holders \cup reset_preempted_req_ids) <= MaxRunning
  /\ slots \subseteq finished_req_ids \cup reset_preempted_req_ids \cup Holders \cup WaitingSessions

Slots == SessionsCounted /\ SlotsHeld

\* Nobody holds a slot in the first state.
LEMMA SlotsInit == ASSUME Init PROVE Slots
<1>1. config \in Configs /\ MaxRunning \in Nat
  BY ConfigFacts DEF Init
<1>2. \A r \in Reqs : request[r].status = "NEW"
  BY DEF Init, NewRequest
<1>3. PausedSessions = {} /\ Holders = {} /\ reset_preempted_req_ids = {} /\ slots = {}
      /\ num_waiting_for_streaming_input = 0
  BY <1>2 DEF Init, PausedSessions, Holders, WithStatus
<1>4. Cardinality({}) = 0
  BY FS_EmptySet
<1>5. Holders \cup reset_preempted_req_ids = {}
  BY <1>3
<1>6. QED BY <1>1, <1>3, <1>4, <1>5 DEF Slots, SessionsCounted, SlotsHeld

\* Adding or removing one request changes a number of requests by one.
LEMMA OneMore ==
  ASSUME NEW S \in SUBSET Reqs, NEW r \in Reqs
  PROVE  /\ r \notin S => Cardinality(S \cup {r}) = Cardinality(S) + 1
         /\ r \in S => Cardinality(S \ {r}) = Cardinality(S) - 1
         /\ Cardinality(S) \in Nat
  BY ReqsFinite, FS_AddElement, FS_RemoveElement

\* A part of a set of requests has no more of them.
LEMMA Fewer ==
  ASSUME NEW S \in SUBSET Reqs, NEW T \in SUBSET S
  PROVE  Cardinality(T) <= Cardinality(S) /\ Cardinality(T) \in Nat /\ Cardinality(S) \in Nat
<1>1. T \in SUBSET Reqs
  OBVIOUS
<1>2. QED BY <1>1, ReqsFinite, FS_Subset

\* The count of paused sessions follows their number.
LEMMA CountedNext ==
  ASSUME Base, SessionsCounted, UNCHANGED config, StatusStep
  PROVE  SessionsCounted'
<1> DEFINE P == PausedSessions
           n == num_waiting_for_streaming_input
<1>1. P \in SUBSET Reqs /\ P \in SUBSET Sessions /\ n = Cardinality(P) /\ n \in Int
  BY DEF SessionsCounted, PausedSessions, WithStatus, Base, Typed
<1>2. Sessions' = Sessions
  BY DEF Sessions
<1>3. ASSUME \A r \in Reqs : r \in P' <=> r \in P, n' = n PROVE SessionsCounted'
  <2>1. P' = P
    BY <1>3 DEF PausedSessions, WithStatus
  <2>2. QED BY <1>1, <1>2, <1>3, <2>1 DEF SessionsCounted
<1>4. CASE Calm
  BY <1>3, <1>4 DEF Calm, PausedSessions, WithStatus
<1>5. ASSUME NEW S \in SUBSET Reqs, Preempts(S) PROVE SessionsCounted'
  BY <1>3, <1>5 DEF Preempts, NowStatus, PausedSessions, WithStatus
<1>6. ASSUME NEW r \in Reqs, Admits(r) PROVE SessionsCounted'
  BY <1>3, <1>6 DEF Admits, NowStatus, PausedSessions, WithStatus
<1>7. CASE Launches
  BY <1>3, <1>7 DEF Launches, SameStatus, PausedSessions, WithStatus
<1>8. ASSUME NEW S \in SUBSET Reqs, Finishes(S) PROVE SessionsCounted'
  <2>1. P' = P \ (S \cap P)
    BY <1>8 DEF Finishes, NowStatus, PausedSessions, WithStatus
  <2>2. Cardinality(P \ (S \cap P)) = Cardinality(P) - Cardinality(S \cap P)
    <3>1. IsFiniteSet(P) /\ IsFiniteSet(S \cap P)
      BY <1>1, ReqsFinite
    <3>2. P \cap (S \cap P) = S \cap P
      OBVIOUS
    <3>3. QED BY <3>1, <3>2, FS_Difference
  <2>3. n' = n - Cardinality(S \cap P)
    BY <1>8 DEF Finishes, PausedSessions
  <2>4. QED BY <1>1, <1>2, <2>1, <2>2, <2>3 DEF SessionsCounted
<1>9. ASSUME NEW r \in Reqs, SessionTurns(r) PROVE SessionsCounted'
  <2>1. CASE request[r].status = "RUNNING" /\ NowStatus({r}, "WAITING") /\ n' = n
    BY <1>3, <2>1 DEF NowStatus, PausedSessions, WithStatus
  <2>2. CASE request[r].status = "RUNNING" /\ NowStatus({r}, "WAITING_FOR_STREAMING_REQ")
             /\ n' = n + 1
    <3>1. P' = P \cup {r} /\ r \notin P
      BY <2>2 DEF NowStatus, PausedSessions, WithStatus
    <3>2. Cardinality(P \cup {r}) = Cardinality(P) + 1
      BY <1>1, <3>1, OneMore
    <3>3. r \in Sessions
      BY <1>9 DEF SessionTurns
    <3>4. QED BY <1>1, <1>2, <2>2, <3>1, <3>2, <3>3 DEF SessionsCounted
  <2>3. CASE request[r].status = "WAITING_FOR_STREAMING_REQ" /\ NowStatus({r}, "WAITING")
             /\ n' = n - 1
    <3>1. P' = P \ {r} /\ r \in P
      BY <2>3 DEF NowStatus, PausedSessions, WithStatus
    <3>2. Cardinality(P \ {r}) = Cardinality(P) - 1
      BY <1>1, <3>1, OneMore
    <3>3. QED BY <1>1, <1>2, <2>3, <3>1, <3>2 DEF SessionsCounted
  <2>4. QED BY <1>9, <2>1, <2>2, <2>3 DEF SessionTurns
<1>10. QED BY <1>4, <1>5, <1>6, <1>7, <1>8, <1>9 DEF StatusStep

\* Every step keeps the slots.
LEMMA SlotsNext ==
  ASSUME Base, SessionsCounted, SlotsHeld, UNCHANGED config, StatusStep
  PROVE  SlotsHeld'
<1> DEFINE H == Holders
           R == reset_preempted_req_ids
           n == num_waiting_for_streaming_input
<1>1. /\ H \in SUBSET Reqs /\ R \in SUBSET Reqs /\ MaxRunning \in Nat
      /\ MaxRunning' = MaxRunning /\ Sessions' = Sessions /\ H \cup R \in SUBSET Reqs
  <2>1. H \in SUBSET Reqs /\ R \in SUBSET Reqs
    BY DEF Holders, PausedSessions, WithStatus, Base, Typed
  <2>2. MaxRunning \in Nat
    BY ConfigFacts DEF Base, Typed
  <2>3. MaxRunning' = MaxRunning /\ Sessions' = Sessions
    BY DEF MaxRunning, Sessions
  <2>4. QED BY <2>1, <2>2, <2>3
<1>2. /\ Cardinality(H) <= MaxRunning
      /\ ~InSchedule => Cardinality(H \cup R) <= MaxRunning
      /\ slots \subseteq finished_req_ids \cup R \cup H \cup WaitingSessions
  BY DEF SlotsHeld
<1>3. Cardinality(H) \in Nat /\ Cardinality(H \cup R) \in Nat
  BY <1>1, ReqsFinite
\* No one new holds a slot, nor has to be told.
<1>4. ASSUME H' \subseteq H, InSchedule' \/ ~InSchedule, H' \cup R' \subseteq H \cup R
      PROVE  /\ Cardinality(H)' <= MaxRunning'
             /\ ~InSchedule' => Cardinality(H \cup R)' <= MaxRunning'
  <2>1. Cardinality(H') <= Cardinality(H) /\ Cardinality(H') \in Nat
    BY <1>1, <1>4, Fewer
  <2>2. Cardinality(H' \cup R') <= Cardinality(H \cup R) /\ Cardinality(H' \cup R') \in Nat
    BY <1>1, <1>4, Fewer
  <2>3. QED BY <1>1, <1>2, <1>3, <1>4, <2>1, <2>2
<1> HIDE DEF R
<1>5. CASE Calm
  <2>1. H' \subseteq H /\ H \subseteq H' /\ R' = R
    BY <1>5 DEF Calm, Holders, PausedSessions, WithStatus, notices, R
  <2>2. slots' \subseteq finished_req_ids' \cup R' \cup H' \cup WaitingSessions'
    <3>1. slots' = slots /\ finished_req_ids' = finished_req_ids
      BY <1>5 DEF Calm, notices
    <3>2. \A r \in Reqs : request[r].status = "WAITING" => request'[r].status = "WAITING"
      BY <1>5 DEF Calm
    <3>3. slots \in SUBSET Reqs
      BY DEF Base, Typed
    <3>4. \A r \in Reqs : r \in WaitingSessions => r \in WaitingSessions'
      BY <1>1, <3>2 DEF WaitingSessions
    <3>5. QED BY <1>2, <2>1, <3>1, <3>3, <3>4
  <2>3. QED BY <1>4, <1>5, <2>1, <2>2 DEF SlotsHeld, Calm, R
<1>6. ASSUME NEW S \in SUBSET Reqs, Preempts(S) PROVE SlotsHeld'
  <2>1. H' = H \ S /\ R' = R \cup S /\ S \subseteq H
    BY <1>6 DEF Preempts, NowStatus, Holders, PausedSessions, WithStatus, R
  <2>2. slots' = slots /\ finished_req_ids' = finished_req_ids /\ slots \in SUBSET Reqs
    BY <1>6 DEF Preempts, Base, Typed
  <2>3. \A r \in Reqs : r \in WaitingSessions => r \in WaitingSessions'
    BY <1>1, <1>6 DEF WaitingSessions, Preempts, NowStatus, WithStatus
  <2>4. slots' \subseteq finished_req_ids' \cup R' \cup H' \cup WaitingSessions'
    BY <1>2, <2>1, <2>2, <2>3
  <2>5. QED BY <1>4, <1>6, <2>1, <2>4 DEF SlotsHeld, Preempts, R
<1>7. ASSUME NEW r \in Reqs, Admits(r) PROVE SlotsHeld'
  <2>1. H' = H \cup {r} /\ r \notin H /\ R' = R /\ InSchedule'
    BY <1>7 DEF Admits, NowStatus, Holders, PausedSessions, WithStatus, notices, R
  <2>2. Cardinality(H \cup {r}) = Cardinality(H) + 1
    BY <1>1, <2>1, OneMore
  <2>3. Cardinality(H) = Cardinality(WithStatus("RUNNING")) + n
    <3>1. IsFiniteSet(WithStatus("RUNNING")) /\ IsFiniteSet(PausedSessions)
      BY ReqsFinite DEF WithStatus, PausedSessions
    <3>2. WithStatus("RUNNING") \cap PausedSessions = {}
      BY DEF WithStatus, PausedSessions
    <3>3. Cardinality(WithStatus("RUNNING") \cap PausedSessions) = 0
      BY <3>2, FS_EmptySet
    <3>4. Cardinality(WithStatus("RUNNING") \cup PausedSessions)
            = Cardinality(WithStatus("RUNNING")) + Cardinality(PausedSessions)
              - Cardinality(WithStatus("RUNNING") \cap PausedSessions)
      BY <3>1, FS_Union
    <3>5. Cardinality(WithStatus("RUNNING")) \in Nat /\ Cardinality(PausedSessions) \in Nat
      BY <3>1, FS_CardinalityType
    <3>6. QED BY <3>3, <3>4, <3>5 DEF Holders, SessionsCounted
  <2>4. Cardinality(WithStatus("RUNNING")) + n < MaxRunning
    BY <1>7 DEF Admits
  <2>5. slots' = slots /\ finished_req_ids' = finished_req_ids /\ slots \in SUBSET Reqs
    BY <1>7 DEF Admits, notices, Base, Typed
  <2>6. \A s \in Reqs : s \in WaitingSessions => s \in WaitingSessions' \cup {r}
    BY <1>1, <1>7 DEF WaitingSessions, Admits, NowStatus
  <2>7. slots' \subseteq finished_req_ids' \cup R' \cup H' \cup WaitingSessions'
    BY <1>2, <2>1, <2>5, <2>6
  <2>8. Cardinality(H') <= MaxRunning
    BY <1>1, <1>3, <2>1, <2>2, <2>3, <2>4
  <2>9. QED BY <1>1, <2>1, <2>7, <2>8 DEF SlotsHeld, R
<1>8. CASE Launches
  <2>1. H' = H /\ R' = {} /\ finished_req_ids' = {}
    BY <1>8 DEF Launches, SameStatus, Holders, PausedSessions, WithStatus, R
  <2>2. slots' \subseteq ((slots \ finished_req_ids) \ R) \cup WithStatus("RUNNING")
        /\ slots \in SUBSET Reqs
    BY <1>8 DEF Launches, Base, Typed, R
  <2>3. \A r \in Reqs : r \in WaitingSessions => r \in WaitingSessions'
    BY <1>1, <1>8 DEF WaitingSessions, Launches, SameStatus
  <2>4. WithStatus("RUNNING") \subseteq H
    BY DEF Holders
  <2>5. slots' \subseteq finished_req_ids' \cup R' \cup H' \cup WaitingSessions'
    BY <1>2, <2>1, <2>2, <2>3, <2>4
  <2>6. H' \cup R' = H
    BY <2>1
  <2>7. QED BY <1>1, <1>2, <2>1, <2>5, <2>6 DEF SlotsHeld, R
<1>9. ASSUME NEW S \in SUBSET Reqs, Finishes(S) PROVE SlotsHeld'
  <2>1. H' = H \ S /\ R' = R
    BY <1>9 DEF Finishes, NowStatus, Holders, PausedSessions, WithStatus, R
  <2>2. slots' = slots /\ finished_req_ids' = finished_req_ids \cup S /\ slots \in SUBSET Reqs
    BY <1>9 DEF Finishes, Base, Typed
  <2>3. \A r \in Reqs : r \in WaitingSessions => r \in WaitingSessions' \cup S
    BY <1>1, <1>9 DEF WaitingSessions, Finishes, NowStatus
  <2>4. slots' \subseteq finished_req_ids' \cup R' \cup H' \cup WaitingSessions'
    BY <1>2, <2>1, <2>2, <2>3
  <2>5. QED BY <1>4, <1>9, <2>1, <2>4 DEF SlotsHeld, Finishes, R
<1>10. ASSUME NEW r \in Reqs, SessionTurns(r) PROVE SlotsHeld'
  <2>1. r \in Sessions /\ slots' = slots /\ finished_req_ids' = finished_req_ids /\ R' = R
        /\ slots \in SUBSET Reqs /\ (InSchedule' \/ ~InSchedule)
    BY <1>10 DEF SessionTurns, notices, Base, Typed, R
  <2>2. CASE r \in H /\ NowStatus({r}, "WAITING")
    <3>1. H' = H \ {r}
      BY <2>2 DEF NowStatus, Holders, PausedSessions, WithStatus
    <3>2. \A s \in Reqs : s \in WaitingSessions \cup {r} => s \in WaitingSessions'
      BY <1>1, <2>1, <2>2 DEF WaitingSessions, NowStatus
    <3>3. slots' \subseteq finished_req_ids' \cup R' \cup H' \cup WaitingSessions'
      BY <1>2, <2>1, <3>1, <3>2
    <3>4. QED BY <1>4, <2>1, <3>1, <3>3 DEF SlotsHeld, R
  <2>3. CASE request[r].status = "RUNNING" /\ NowStatus({r}, "WAITING_FOR_STREAMING_REQ")
    <3>1. H' = H
      BY <2>3 DEF NowStatus, Holders, PausedSessions, WithStatus
    <3>2. \A s \in Reqs : s \in WaitingSessions => s \in WaitingSessions'
      BY <1>1, <2>1, <2>3 DEF WaitingSessions, NowStatus
    <3>3. slots' \subseteq finished_req_ids' \cup R' \cup H' \cup WaitingSessions'
      BY <1>2, <2>1, <3>1, <3>2
    <3>4. QED BY <1>4, <2>1, <3>1, <3>3 DEF SlotsHeld, R
  <2>4. QED BY <1>10, <2>2, <2>3 DEF SessionTurns, Holders, PausedSessions, WithStatus
<1>11. QED BY <1>5, <1>6, <1>7, <1>8, <1>9, <1>10 DEF StatusStep

(* num_waiting_for_streaming_input counts the paused sessions, and those who     *)
(* hold a slot of the model runner are known: running requests, paused sessions, *)
(* and those the runner has not yet been told of (scheduler.py:756).             *)
THEOREM SlotsInvariant == Spec => [](Base /\ Slots)
<1>1. Init => Slots
  BY SlotsInit
<1>2. Base /\ Slots /\ [Next]_vars => Slots'
  <2> SUFFICES ASSUME Base, Slots, [Next]_vars PROVE Slots'
    OBVIOUS
  <2>1. StatusStep
    BY StatusNext DEF Slots, SessionsCounted
  <2>2. SessionsCounted' /\ SlotsHeld'
    BY <2>1, ConfigSame, CountedNext, SlotsNext DEF Slots
  <2>3. QED BY <2>2 DEF Slots
<1>3. QED BY <1>1, <1>2, BaseInvariant, PTL DEF Spec

(* Between two calls and while output is taken, requests that the runner keeps *)
(* a slot for without a session's next chunk waiting are never more than its   *)
(* slots: the admission check counts enough (scheduler.py:756).                *)
THEOREM SlotsBounded == Spec => []RunnerSlotsBounded
<1>1. Base /\ Slots => RunnerSlotsBounded
  <2> SUFFICES ASSUME Base, Slots, pc \in {"idle", "output"}
               PROVE  Cardinality((slots \ finished_req_ids) \ WaitingSessions) <= MaxRunning
    BY DEF RunnerSlotsBounded, WaitingSessions
  <2> DEFINE H == Holders \cup reset_preempted_req_ids
             T == (slots \ finished_req_ids) \ WaitingSessions
  <2>1. H \in SUBSET Reqs /\ MaxRunning \in Nat
    BY ConfigFacts DEF Holders, PausedSessions, WithStatus, Base, Typed
  <2>2. T \in SUBSET H /\ Cardinality(H) <= MaxRunning
    BY DEF Slots, SlotsHeld, InSchedule
  <2>3. Cardinality(T) <= Cardinality(H) /\ Cardinality(T) \in Nat /\ Cardinality(H) \in Nat
    BY <2>1, <2>2, Fewer
  <2>4. QED BY <2>1, <2>2, <2>3
<1>2. QED BY <1>1, SlotsInvariant, PTL

(* Whenever the engine loop would sleep (has_requests() is false), there is no *)
(* request it could run: num_waiting_for_streaming_input never hides one       *)
(* (scheduler.py, get_num_unfinished_requests).                                *)
THEOREM LoopWakes == Spec => []WakesForWork
<1>1. Base /\ Slots => WakesForWork
  <2> SUFFICES ASSUME Base, Slots, pc = "idle", pause_state = "UNPAUSED", ~has_requests,
                      NEW r \in LiveReqs
               PROVE  request[r].status = "WAITING_FOR_STREAMING_REQ"
    BY DEF WakesForWork
  <2> DEFINE n == num_waiting_for_streaming_input
  <2>1. Len(waiting) + Len(skipped_waiting) - n + Len(running) <= 0
    BY DEF has_requests, NumUnfinished, Base, Typed
  <2>2. /\ Len(waiting) = Cardinality(ToSet(waiting))
        /\ Len(skipped_waiting) = Cardinality(ToSet(skipped_waiting))
        /\ Len(running) = Cardinality(ToSet(running))
    BY LenIsCardinality DEF Base, Typed, Queues
  <2>3. PausedSessions \subseteq ToSet(skipped_waiting) /\ n = Cardinality(PausedSessions)
    BY IdleFacts DEF Base, Queues, Slots, SessionsCounted, PausedSessions, WithStatus, Blocked,
       LiveReqs, Live
  <2>4. ToSet(skipped_waiting) \in SUBSET Reqs /\ ToSet(running) \in SUBSET Reqs
        /\ ToSet(waiting) \in SUBSET Reqs
    BY QueueElements DEF Base
  <2>5. n <= Len(skipped_waiting) /\ n \in Nat
    BY <2>2, <2>3, <2>4, Fewer
  <2>6. Len(waiting) = 0 /\ Len(running) = 0 /\ Len(skipped_waiting) = n
    BY <2>1, <2>5 DEF Base, Typed
  <2>7. ToSet(waiting) = {} /\ ToSet(running) = {}
    BY <2>6, EmptyFacts DEF Base, Typed
  <2>8. ToSet(skipped_waiting) = PausedSessions
    <3>1. IsFiniteSet(ToSet(skipped_waiting))
      BY <2>4, ReqsFinite
    <3>2. Cardinality(PausedSessions) = Cardinality(ToSet(skipped_waiting))
      BY <2>2, <2>3, <2>6
    <3>3. QED BY <2>3, <3>1, <3>2, FS_Subset
  <2>9. QED BY <2>7, <2>8, IdleFacts DEF PausedSessions, WithStatus
<1>2. QED BY <1>1, SlotsInvariant, PTL

---------------------------------------------------------------------------
(* The budget of a step.                                                   *)

(* What the steps of schedule() do to its locals.                         *)

Scheduled(e, r) ==
  LET q == request[r]
      n == NumNewTokens(q)
  IN  /\ r \in Reqs /\ q \in AnyRequest /\ q.status = "RUNNING" /\ n \in Int /\ n > 0
      /\ Fits(r, q.num_computed_tokens, n)
      /\ held' = [held EXCEPT ![r] = TableSize(r, q.num_computed_tokens, n)]
      /\ request' = [request EXCEPT ![r] = [q EXCEPT !.num_spec = 0]]
      /\ e \in BatchEntry /\ e.req = r /\ e.n = n /\ e.drafts = NumDrafts(q, n)
      /\ pc = "running" /\ pc' = "running"
      /\ loc'.idx = loc.idx + 1 /\ loc'.want = 0 /\ loc'.token_budget = loc.token_budget - n
      /\ loc'.batch = Append(loc.batch, e) /\ loc'.preempted = loc.preempted
      /\ loc'.step_skipped = loc.step_skipped
      /\ \A i \in DOMAIN loc.batch : loc.batch[i].req # r

\* A running request gets its tokens.
LEMMA ScheduledFacts ==
  ASSUME Base, ScheduleRunning
  PROVE  \E e : Scheduled(e, running[loc.idx])
<1> DEFINE r == running[loc.idx]
           q == request[r]
           n == NumNewTokens(q)
           e == [req |-> r, n |-> n, new |-> FALSE, drafts |-> NumDrafts(q, n), padded |-> FALSE]
<1>1. /\ loc' = [loc EXCEPT !.idx = @ + 1, !.want = 0, !.token_budget = @ - n,
                            !.prefill_scheduled = @ \/ q.is_prefill_chunk,
                            !.batch = Append(@, e)]
      /\ request' = [request EXCEPT ![r].num_spec = 0] /\ n # 0
      /\ Fits(r, q.num_computed_tokens, n)
      /\ held' = [held EXCEPT ![r] = TableSize(r, q.num_computed_tokens, n)]
      /\ pc = "running" /\ pc' = "running" /\ loc.idx <= Len(running)
  BY Zenon DEF ScheduleRunning, RunningTurn
<1>2. /\ r \in Reqs /\ q \in AnyRequest /\ q.status = "RUNNING"
      /\ n > 0 /\ n \in Int
  BY <1>1, TurnFacts DEF ScheduleRunning
<1>3. e.req = r /\ e.n = n /\ e \in BatchEntry /\ e.drafts = NumDrafts(q, n)
  <2>1. NumDrafts(q, n) \in Int
    BY <1>2, NumDraftsInt
  <2>2. QED BY <2>1, <1>2 DEF BatchEntry
<1>4. request' = [request EXCEPT ![r] = [q EXCEPT !.num_spec = 0]]
  BY <1>1
<1> HIDE DEF e, n
<1>5. loc \in Locals
  BY DEF Base, Typed
<1>6. /\ loc'.idx = loc.idx + 1 /\ loc'.want = 0 /\ loc'.token_budget = loc.token_budget - n
      /\ loc'.batch = Append(loc.batch, e) /\ loc'.preempted = loc.preempted
      /\ loc'.step_skipped = loc.step_skipped
  BY <1>1, <1>5 DEF Locals
<1>7. ASSUME NEW i \in DOMAIN loc.batch PROVE loc.batch[i].req # r
  <2>1. PICK k \in DOMAIN running : k < loc.idx /\ running[k] = loc.batch[i].req
    BY <1>1 DEF Base, BatchSound
  <2>2. Distinct(running) /\ running \in Seq(Reqs) /\ loc.idx \in Nat \ {0}
    BY <1>5 DEF Base, Queues, Typed, Locals
  <2>3. loc.idx \in DOMAIN running
    BY <1>1, <2>2
  <2>4. QED BY <2>1, <2>2, <2>3 DEF Distinct
<1>8. Scheduled(e, r)
  BY <1>1, <1>2, <1>3, <1>4, <1>6, <1>7, Zenon DEF Scheduled, n
<1>9. QED BY <1>8

Admitted(e, r, q, computed) ==
  LET n == AdmitTokens(q, computed)
  IN  /\ r \in Reqs /\ request[r] \in AnyRequest /\ q \in AnyRequest /\ computed \in Int
      /\ n \in Int /\ n > 0 /\ n <= loc.token_budget
      /\ Fits(r, computed, n)
      /\ held' = [held EXCEPT ![r] = TableSize(r, computed, n)]
      /\ request' = [request EXCEPT ![r] = [q EXCEPT !.status = "RUNNING",
                                                     !.num_computed_tokens = computed]]
      /\ e \in BatchEntry /\ e.req = r /\ e.n = n
      /\ e.drafts = IF Padded(q.num_tokens - computed) THEN NumSpec ELSE 0
      /\ pc = "waiting" /\ pc' = "waiting"
      /\ loc'.idx = loc.idx /\ loc'.want = loc.want /\ loc'.token_budget = loc.token_budget - n
      /\ loc'.batch = Append(loc.batch, e) /\ loc'.preempted = loc.preempted
      /\ loc'.step_skipped = loc.step_skipped
      /\ \A i \in DOMAIN loc.batch : loc.batch[i].req # r

\* A waiting request is admitted.
LEMMA AdmittedFacts ==
  ASSUME Base, WaitingTurn, NEW found \in Lookups(Promoted(Candidate)), Admit(found)
  PROVE  \E e : Admitted(e, Candidate, found.q, found.computed)
<1> DEFINE r == Candidate
           q == found.q
           computed == found.computed
           n == AdmitTokens(q, computed)
           pad == Padded(q.num_tokens - computed)
           e == [req |-> r, n |-> n, new |-> TRUE, drafts |-> IF pad THEN NumSpec ELSE 0,
                 padded |-> pad]
<1>1. /\ r \in Reqs /\ q \in AnyRequest /\ computed \in Int /\ n \in Int
      /\ CanAdmit(r, q, computed) /\ PopCandidate
      /\ held' = [held EXCEPT ![r] = TableSize(r, computed, n)]
      /\ request' = [request EXCEPT ![r] = [q EXCEPT !.status = "RUNNING",
                                                     !.num_computed_tokens = computed]]
      /\ loc' = [loc EXCEPT !.token_budget = @ - n, !.batch = Append(@, e)]
      /\ e \in BatchEntry
  BY AdmitFacts DEF Base
<1>2. e.req = r /\ e.n = n /\ e.drafts = IF pad THEN NumSpec ELSE 0
  OBVIOUS
<1>3. pc = "waiting" /\ pc' = "waiting" /\ loc.token_budget > 0
  BY DEF WaitingTurn, Admit
<1>4. loc \in Locals /\ loc.token_budget \in Int /\ NumSpec \in Int
  <2>1. loc \in Locals /\ config \in Configs
    BY DEF Base, Typed
  <2>2. loc.token_budget \in Int
    BY <2>1 DEF Locals
  <2>3. QED BY <2>1, <2>2, ConfigFacts
<1>5. n > 0 /\ Fits(r, computed, n) /\ (pad => 1 + NumSpec <= loc.token_budget)
  BY <1>1, Zenon DEF CanAdmit
<1>6. n <= loc.token_budget
  <2>1. n <= AtLeast(IF pad THEN 1 + NumSpec ELSE loc.token_budget, 0)
    BY <1>1, AdmitTokensFacts DEF Base
  <2> HIDE DEF n
  <2>2. CASE pad
    <3>1. n <= AtLeast(1 + NumSpec, 0) /\ 1 + NumSpec <= loc.token_budget
      BY <2>1, <2>2, <1>5
    <3> HIDE DEF pad
    <3>2. QED BY <3>1, <1>1, <1>3, <1>4 DEF AtLeast
  <2>3. CASE ~pad
    <3>1. n <= AtLeast(loc.token_budget, 0)
      BY <2>1, <2>3
    <3> HIDE DEF pad
    <3>2. QED BY <3>1, <1>1, <1>3, <1>4 DEF AtLeast
  <2>4. QED BY <2>2, <2>3
<1>7. request[r] \in AnyRequest
  BY <1>1 DEF Base, Typed
<1> HIDE DEF e, n
<1>8. /\ loc'.idx = loc.idx /\ loc'.want = loc.want /\ loc'.token_budget = loc.token_budget - n
      /\ loc'.batch = Append(loc.batch, e) /\ loc'.preempted = loc.preempted
      /\ loc'.step_skipped = loc.step_skipped
  BY <1>1, <1>4 DEF Locals
<1>9. ASSUME NEW i \in DOMAIN loc.batch PROVE loc.batch[i].req # r
  BY <1>1, PopEffect DEF Base, BatchSound
<1>10. Admitted(e, r, q, computed)
  BY <1>1, <1>2, <1>3, <1>5, <1>6, <1>7, <1>8, <1>9, Zenon DEF Admitted, n
<1>11. QED BY <1>10

Evicted(v, r) ==
  LET n == NumNewTokens(request[r])
  IN  /\ v \in Reqs /\ request[v] \in AnyRequest /\ v \in ToSet(running)
      /\ r \in Reqs /\ request[r] \in AnyRequest /\ request[r].status = "RUNNING"
      /\ n \in Int /\ n > 0
      /\ running' = remove_requests(running, {v})
      /\ request' = [request EXCEPT ![v] = Preempted(request[v], KvDelivery)]
      /\ held' = [held EXCEPT ![v] = 0]
      /\ pc = "running" /\ pc' = IF v = r THEN "commit" ELSE "running"
      /\ loc'.idx = IndexWithout(v) /\ loc'.want = IF v = r THEN 0 ELSE n
      /\ loc'.token_budget = loc.token_budget + RestoredTokens(v)
      /\ loc'.batch = BatchWithout(v) /\ loc'.preempted = TRUE
      /\ loc'.step_skipped = loc.step_skipped

\* A victim is preempted.
LEMMA EvictedFacts ==
  ASSUME Base, PreemptForRunning PROVE Evicted(Victim, running[loc.idx])
<1> DEFINE r == running[loc.idx]
           n == NumNewTokens(request[r])
           v == Victim
           w == IF v = r THEN 0 ELSE n
<1>1. /\ v \in ToSet(running) /\ v \in Reqs /\ request[v] \in AnyRequest /\ n # 0
      /\ running' = remove_requests(running, {v})
      /\ request' = [request EXCEPT ![v] = Preempted(request[v], KvDelivery)]
      /\ held' = [held EXCEPT ![v] = 0]
      /\ loc' = [WithoutVictim(v) EXCEPT !.want = w]
      /\ pc' = IF v = r THEN "commit" ELSE "running"
  BY PreemptFacts DEF Base
<1>2. RunningTurn /\ pc = "running"
  BY DEF PreemptForRunning, RunningTurn
<1>3. r \in Reqs /\ request[r] \in AnyRequest /\ request[r].status = "RUNNING"
      /\ n \in Int /\ n > 0
  BY <1>1, <1>2, TurnFacts
<1> HIDE DEF n, v
<1>4. WithoutVictim(v) = [loc EXCEPT !.idx = IndexWithout(v),
                                !.token_budget = loc.token_budget + RestoredTokens(v),
                                !.batch = BatchWithout(v), !.preempted = TRUE]
  BY <1>1, WithoutVictimFacts DEF Base
<1>5. loc \in Locals
  BY DEF Base, Typed
<1> HIDE DEF w
<1>6. /\ loc'.idx = IndexWithout(v) /\ loc'.want = w
      /\ loc'.token_budget = loc.token_budget + RestoredTokens(v)
      /\ loc'.batch = BatchWithout(v) /\ loc'.preempted = TRUE
      /\ loc'.step_skipped = loc.step_skipped
  BY <1>1, <1>4, <1>5 DEF Locals
<1>7. QED BY <1>1, <1>2, <1>3, <1>6, Zenon DEF Evicted, w, n, v

\* A request has at most one entry for its tokens to come back from.
LEMMA RestoredFacts ==
  ASSUME Base, NEW v
  PROVE  \/ RestoredTokens(v) = 0 /\ BatchWithout(v) = loc.batch
         \/ \E i \in DOMAIN loc.batch :
              /\ RestoredTokens(v) = loc.batch[i].n
              /\ BatchWithout(v) = remove_requests(loc.batch, {loc.batch[i]})
<1> DEFINE b == loc.batch
           S == Restored(v)
<1>1. b \in Seq(BatchEntry) /\ S \subseteq DOMAIN b /\ OncePerStep(b)
  BY DEF Base, Typed, Locals, Restored, BatchSound
<1>2. \A i \in DOMAIN b : b[i].n \in Int
  <2>1. \A i \in DOMAIN b : b[i] \in BatchEntry
    BY <1>1
  <2>2. QED BY <2>1 DEF BatchEntry
<1>3. CASE S = {}
  <2>1. {b[j] : j \in S} = {}
    BY <1>3
  <2>2. {} \cap ToSet(b) = {}
    OBVIOUS
  <2>3. remove_requests(b, {}) = b
    BY <2>2, <1>1, RemoveNone
  <2>4. [j \in S |-> b[j].n] \in [{} -> Int]
    BY <1>3
  <2>5. SumFunction([j \in S |-> b[j].n]) = 0
    BY <2>4, SumOfNothing
  <2>6. QED BY <2>1, <2>3, <2>5 DEF RestoredTokens, BatchWithout
<1>4. CASE S # {}
  <2>1. PICK i \in DOMAIN b : i \in S
    BY <1>1, <1>4
  <2>2. S = {i}
    BY <2>1, <1>1 DEF Restored, OncePerStep
  <2>3. {b[j] : j \in S} = {b[i]}
    BY <2>2
  <2>4. SumFunction([j \in {i} |-> b[j].n]) = b[i].n
    <3> DEFINE f == [j \in {i} |-> b[j].n]
    <3>1. f \in [{i} -> Int] /\ IsFiniteSet({i}) /\ i \in {i}
      BY <1>2, FS_Singleton
    <3>2. SumFunction(f) = f[i] + SumFunction([j \in {i} \ {i} |-> f[j]])
      BY <3>1, SumStep
    <3>3. [j \in {i} \ {i} |-> f[j]] \in [{} -> Int]
      OBVIOUS
    <3>4. SumFunction([j \in {i} \ {i} |-> f[j]]) = 0
      BY <3>3, SumOfNothing
    <3>5. f[i] = b[i].n /\ b[i].n \in Int
      BY <1>2
    <3> HIDE DEF f
    <3>6. SumFunction(f) = b[i].n
      BY <3>2, <3>4, <3>5
    <3>7. QED BY <3>6 DEF f
  <2>5. QED BY <2>1, <2>2, <2>3, <2>4 DEF RestoredTokens, BatchWithout
<1>5. QED BY <1>3, <1>4

\* The tokens of a step.
Spent(b) == SumFunction([j \in DOMAIN b |-> b[j].n])

\* One entry more spends its tokens.
LEMMA SpentFacts ==
  ASSUME NEW b \in Seq(BatchEntry)
  PROVE  /\ Spent(b) \in Int
         /\ \A e \in BatchEntry : Spent(Append(b, e)) = Spent(b) + e.n
         /\ OncePerStep(b) => \A i \in DOMAIN b :
                                Spent(remove_requests(b, {b[i]})) = Spent(b) - b[i].n
         /\ Spent(<<>>) = 0
<1> DEFINE w == [e \in BatchEntry |-> e.n]
<1>1. w \in [BatchEntry -> Int]
  BY DEF BatchEntry
<1>2. ASSUME NEW c \in Seq(BatchEntry) PROVE Spent(c) = Weight(w, c)
  <2>1. \A j \in DOMAIN c : c[j] \in BatchEntry
    OBVIOUS
  <2>2. [j \in DOMAIN c |-> c[j].n] = [j \in DOMAIN c |-> w[c[j]]]
    BY <2>1
  <2>3. QED BY <2>2 DEF Spent, Weight
<1>3. \A e \in BatchEntry : w[e] = e.n
  OBVIOUS
<1> HIDE DEF w
<1>4. Weight(w, b) \in Int
  BY <1>1, WeightFacts
<1>5. \A e \in BatchEntry : Weight(w, Append(b, e)) = Weight(w, b) + w[e]
  BY <1>1, WeightFacts
<1>6. \A e \in BatchEntry : Append(b, e) \in Seq(BatchEntry)
  OBVIOUS
<1>7. \A e \in BatchEntry : Spent(Append(b, e)) = Spent(b) + e.n
  BY <1>2, <1>3, <1>5, <1>6
<1>8. ASSUME OncePerStep(b), NEW i \in DOMAIN b
      PROVE  Spent(remove_requests(b, {b[i]})) = Spent(b) - b[i].n
  <2>1. Distinct(b)
    BY <1>8 DEF Distinct, OncePerStep
  <2>2. Weight(w, remove_requests(b, {b[i]})) = Weight(w, b) - w[b[i]]
    BY <2>1, <1>1, WeightRemoved
  <2>3. remove_requests(b, {b[i]}) \in Seq(BatchEntry)
    BY RemoveFacts
  <2>4. b[i] \in BatchEntry
    OBVIOUS
  <2>5. QED BY <2>2, <2>3, <2>4, <1>2, <1>3
<1>9. Spent(<<>>) = 0
  <2>1. Weight(w, <<>>) = 0
    BY WeightOfNothing
  <2>2. <<>> \in Seq(BatchEntry)
    OBVIOUS
  <2>3. QED BY <2>1, <2>2, <1>2
<1>10. QED BY <1>2, <1>4, <1>7, <1>8, <1>9

StepBudget == IF pause_state = "PAUSED_ALL" THEN 0 ELSE TokenBudget

BudgetKept ==
  /\ 0 <= loc.want /\ 0 <= loc.token_budget /\ loc.want <= loc.token_budget
  /\ loc.want > 0 => loc.preempted
  /\ pc = "waiting" => ~loc.preempted
  /\ InSchedule => loc.token_budget + Spent(loc.batch) = StepBudget

\* Outside schedule() there is no budget to keep.
LEMMA BudgetIdle == ASSUME loc = Idle, ~InSchedule PROVE BudgetKept
  BY DEF BudgetKept, Idle, InSchedule

\* The budget stays if the locals do.
LEMMA BudgetSame ==
  ASSUME BudgetKept, InSchedule, UNCHANGED <<config, pause_state>>,
         loc'.want = loc.want, loc'.token_budget = loc.token_budget,
         loc'.batch = loc.batch, loc'.preempted = loc.preempted,
         pc' = "waiting" => ~loc.preempted
  PROVE  BudgetKept'
<1>1. StepBudget' = StepBudget
  BY DEF StepBudget, TokenBudget
<1>2. Spent(loc.batch)' = Spent(loc.batch)
  BY DEF Spent
<1>3. QED BY <1>1, <1>2 DEF BudgetKept

\* Each turn of schedule() spends what it takes, and a preemption gives back
\* what its victim had.
LEMMA BudgetSchedule == ASSUME Base, BudgetKept, Schedule PROVE BudgetKept'
<1> DEFINE T == TokenBudget
<1>1. /\ loc \in Locals /\ loc.batch \in Seq(BatchEntry) /\ loc.want \in Int
      /\ loc.token_budget \in Int /\ OncePerStep(loc.batch) /\ loc.preempted \in BOOLEAN
      /\ \A i \in DOMAIN loc.batch : loc.batch[i].n > 0
  BY DEF Base, Typed, Locals, BatchSound
<1>2. \A i \in DOMAIN loc.batch : loc.batch[i] \in BatchEntry /\ loc.batch[i].n \in Int
  <2>1. \A i \in DOMAIN loc.batch : loc.batch[i] \in BatchEntry
    BY <1>1
  <2>2. QED BY <2>1 DEF BatchEntry
<1>3. T \in Nat
  BY ConfigFacts DEF Base, Typed
<1>4. UNCHANGED <<config, pause_state>>
  BY DEF Schedule, BeginSchedule, SkipRunning, ScheduleRunning, PreemptForRunning,
     EndRunning, SkipWaiting, Admit, StopWaiting, EndWaiting, Requeue, Commit, env
<1>5. StepBudget' = StepBudget
  BY <1>4 DEF StepBudget, TokenBudget
<1>6. CASE BeginSchedule
  <2> DEFINE t == IF pause_state = "PAUSED_ALL" THEN 0 ELSE T
  <2>1. loc' = [Idle EXCEPT !.token_budget = t] /\ pc' = "running"
    BY <1>6 DEF BeginSchedule
  <2>2. t \in Nat /\ t = StepBudget
    BY <1>3 DEF StepBudget
  <2> HIDE DEF t
  <2>3. /\ loc'.token_budget = t /\ loc'.batch = <<>> /\ loc'.want = 0
    BY <2>1 DEF Idle
  <2>4. <<>> \in Seq(BatchEntry)
    OBVIOUS
  <2>5. Spent(<<>>) = 0
    BY <2>4, SpentFacts
  <2>6. Spent(loc.batch)' = 0
    BY <2>3, <2>5 DEF Spent
  <2>7. QED BY <2>1, <2>2, <2>3, <2>6, <1>5 DEF BudgetKept
<1>7. CASE SkipRunning
  <2>1. loc' = [loc EXCEPT !.idx = @ + 1] /\ pc = "running" /\ pc' = "running"
    BY <1>7 DEF SkipRunning, RunningTurn
  <2>2. /\ loc'.want = loc.want /\ loc'.token_budget = loc.token_budget
        /\ loc'.batch = loc.batch /\ loc'.preempted = loc.preempted
    BY <2>1, <1>1 DEF Locals
  <2>3. QED BY <2>1, <2>2, <1>4, BudgetSame DEF InSchedule
<1>8. CASE ScheduleRunning
  <2> DEFINE r == running[loc.idx]
             n == NumNewTokens(request[r])
  <2>1. PICK e : Scheduled(e, r)
    BY <1>8, ScheduledFacts
  <2>2. /\ request[r] \in AnyRequest /\ n \in Int /\ e \in BatchEntry /\ e.n = n
        /\ pc = "running" /\ pc' = "running"
        /\ loc'.want = 0 /\ loc'.token_budget = loc.token_budget - n
        /\ loc'.batch = Append(loc.batch, e) /\ loc'.preempted = loc.preempted
    BY <2>1 DEF Scheduled
  <2>3. n <= loc.token_budget
    BY <2>2, NumNewTokensFacts DEF Base, BudgetKept
  <2>4. Spent(Append(loc.batch, e)) = Spent(loc.batch) + e.n /\ Spent(loc.batch) \in Int
    BY <1>1, <2>2, SpentFacts
  <2>5. Spent(loc.batch)' = Spent(Append(loc.batch, e))
    BY <2>2 DEF Spent
  <2>6. loc.token_budget + Spent(loc.batch) = StepBudget
    BY <2>2 DEF BudgetKept, InSchedule
  <2> HIDE DEF n, r
  <2>7. QED BY <2>2, <2>3, <2>4, <2>5, <2>6, <1>1, <1>5 DEF BudgetKept
<1>9. CASE PreemptForRunning
  <2> DEFINE r == running[loc.idx]
             n == NumNewTokens(request[r])
             v == Victim
             t == RestoredTokens(v)
  <2>1. Evicted(v, r)
    BY <1>9, EvictedFacts
  <2>2. /\ request[r] \in AnyRequest /\ n \in Int /\ n > 0
        /\ pc = "running" /\ pc' \in {"commit", "running"}
        /\ loc'.want = (IF v = r THEN 0 ELSE n) /\ loc'.token_budget = loc.token_budget + t
        /\ loc'.batch = BatchWithout(v) /\ loc'.preempted = TRUE
    BY <2>1 DEF Evicted
  <2>3. n <= loc.token_budget
    BY <2>2, NumNewTokensFacts DEF Base, BudgetKept
  <2>4. t \in Int /\ t >= 0 /\ Spent(BatchWithout(v)) = Spent(loc.batch) - t
        /\ Spent(loc.batch) \in Int
    <3>1. CASE t = 0 /\ BatchWithout(v) = loc.batch
      BY <3>1, <1>1, SpentFacts
    <3>2. ASSUME NEW i \in DOMAIN loc.batch, t = loc.batch[i].n,
                 BatchWithout(v) = remove_requests(loc.batch, {loc.batch[i]})
          PROVE  t \in Int /\ t >= 0 /\ Spent(BatchWithout(v)) = Spent(loc.batch) - t
                 /\ Spent(loc.batch) \in Int
      <4>1. Spent(remove_requests(loc.batch, {loc.batch[i]})) = Spent(loc.batch) - loc.batch[i].n
        BY <1>1, SpentFacts
      <4>2. Spent(loc.batch) \in Int
        BY <1>1, SpentFacts
      <4>3. QED BY <4>1, <4>2, <3>2, <1>1, <1>2
    <3>3. QED BY <3>1, <3>2, RestoredFacts
  <2>5. Spent(loc.batch)' = Spent(BatchWithout(v))
    BY <2>2 DEF Spent
  <2>6. loc.token_budget + Spent(loc.batch) = StepBudget
    BY <2>2 DEF BudgetKept, InSchedule
  <2> HIDE DEF n, r, v, t
  <2>7. QED BY <2>2, <2>3, <2>4, <2>5, <2>6, <1>1, <1>5 DEF BudgetKept
<1>10. CASE EndRunning
  <2>1. loc' = loc /\ pc = "running" /\ (pc' = "waiting" => ~loc.preempted)
    BY <1>10 DEF EndRunning
  <2>2. QED BY <2>1, <1>4, BudgetSame DEF InSchedule
<1>11. CASE SkipWaiting
  <2>1. loc' = [loc EXCEPT !.step_skipped = prepend_request(@, Candidate)]
        /\ pc = "waiting" /\ pc' = "waiting"
    BY <1>11 DEF SkipWaiting, WaitingTurn
  <2>2. /\ loc'.want = loc.want /\ loc'.token_budget = loc.token_budget
        /\ loc'.batch = loc.batch /\ loc'.preempted = loc.preempted
    BY <2>1, <1>1 DEF Locals
  <2>3. QED BY <2>1, <2>2, <1>4, BudgetSame DEF InSchedule, BudgetKept
<1>12. ASSUME WaitingTurn, NEW found \in Lookups(Promoted(Candidate)), Admit(found)
       PROVE  BudgetKept'
  <2> DEFINE n == AdmitTokens(found.q, found.computed)
  <2>1. PICK e : Admitted(e, Candidate, found.q, found.computed)
    BY <1>12, AdmittedFacts
  <2>2. /\ n \in Int /\ n > 0 /\ n <= loc.token_budget /\ e \in BatchEntry /\ e.n = n
        /\ pc = "waiting" /\ pc' = "waiting"
        /\ loc'.want = loc.want /\ loc'.token_budget = loc.token_budget - n
        /\ loc'.batch = Append(loc.batch, e) /\ loc'.preempted = loc.preempted
    BY <2>1 DEF Admitted
  <2> HIDE DEF n
  <2>3. Spent(Append(loc.batch, e)) = Spent(loc.batch) + e.n /\ Spent(loc.batch) \in Int
    BY <1>1, <2>2, SpentFacts
  <2>4. Spent(loc.batch)' = Spent(Append(loc.batch, e))
    BY <2>2 DEF Spent
  <2>5. loc.token_budget + Spent(loc.batch) = StepBudget /\ ~loc.preempted /\ loc.want = 0
    BY <2>2, <1>1 DEF BudgetKept, InSchedule
  <2>6. QED BY <2>2, <2>3, <2>4, <2>5, <1>1, <1>5 DEF BudgetKept
<1>13. ASSUME pc = "waiting", Requeue PROVE BudgetKept'
  <2>1. loc' = [loc EXCEPT !.step_skipped = <<>>] /\ pc' = "commit"
    BY <1>13 DEF Requeue
  <2>2. /\ loc'.want = loc.want /\ loc'.token_budget = loc.token_budget
        /\ loc'.batch = loc.batch /\ loc'.preempted = loc.preempted
    BY <2>1, <1>1 DEF Locals
  <2>3. QED BY <2>1, <2>2, <1>4, <1>13, BudgetSame DEF InSchedule
<1>14. CASE Commit
  <2>1. loc' = Idle /\ pc' = "idle"
    BY <1>14 DEF Commit
  <2>2. loc'.want = 0 /\ loc'.token_budget = 0
    BY <2>1 DEF Idle
  <2>3. ~InSchedule' /\ ~(pc' = "waiting")
    BY <2>1 DEF InSchedule
  <2>4. QED BY <2>2, <2>3 DEF BudgetKept
<1>15. QED BY <1>6, <1>7, <1>8, <1>9, <1>10, <1>11, <1>12, <1>13, <1>14
           DEF Schedule, StopWaiting, EndWaiting, WaitingTurn

\* While a step is built nothing else runs but the compiler of grammars.
LEMMA ScheduleOnly ==
  ASSUME [Next]_vars, InSchedule'
  PROVE  Schedule \/ (InSchedule /\ UNCHANGED <<config, pause_state, loc, pc, request, running, held>>)
<1> SUFFICES ASSUME ~Schedule
             PROVE  InSchedule /\ UNCHANGED <<config, pause_state, loc, pc, request, running, held>>
  OBVIOUS
<1>1. CASE UpdateFromOutput
  <2>1. ASSUME NEW accepted, NEW eos, NEW error, NEW drafts,
               Deliver(accepted, eos, error, drafts)
        PROVE  pc' = "output"
    BY <2>1 DEF Deliver, OutputTurn
  <2>2. ASSUME BeginOutput \/ DropOutput \/ EndOutput PROVE pc' \in {"idle", "output"}
    BY <2>2 DEF BeginOutput, DropOutput, EndOutput, OutputTurn
  <2>3. pc' \in {"idle", "output"}
    BY <1>1, <2>1, <2>2, Zenon DEF UpdateFromOutput
  <2>4. QED BY <2>3 DEF InSchedule
<1>2. CASE GrammarStep
  BY <1>2 DEF GrammarStep, GrammarDone, InSchedule, queues
<1>3. CASE Handlers
  BY <1>3 DEF Handlers, AddRequest, Abort, AddUpdate, ResetPrefixCache,
     set_pause_state, BetweenSteps, InSchedule
<1>4. CASE UNCHANGED vars
  BY <1>4 DEF vars, InSchedule, env, queues
<1>5. QED BY <1>1, <1>2, <1>3, <1>4 DEF Next

\* Every step keeps the budget.
LEMMA BudgetNext == ASSUME Base, BudgetKept, [Next]_vars PROVE BudgetKept'
<1>1. Base'
  BY BaseNext
<1>2. CASE ~InSchedule'
  BY <1>1, <1>2 DEF Base, Phases, InSchedule, Typed, BudgetKept, Idle
<1>3. CASE InSchedule' /\ ~Schedule
  BY <1>3, ScheduleOnly, BudgetSame DEF BudgetKept, InSchedule
<1>4. CASE Schedule
  BY <1>4, BudgetSchedule
<1>5. QED BY <1>2, <1>3, <1>4

(* All through schedule() the budget left and the tokens of the entries are the *)
(* budget of the step, also after a victim's entries are taken back             *)
(* (scheduler.py, _preempt_request's caller).                                   *)
THEOREM BudgetInvariant == Spec => [](Base /\ Slots /\ BudgetKept)
<1>1. Init => BudgetKept
  BY BudgetIdle DEF Init, InSchedule
<1>2. Base /\ BudgetKept /\ [Next]_vars => BudgetKept'
  BY BudgetNext
<1>3. QED BY <1>1, <1>2, SlotsInvariant, PTL DEF Spec

(* A step about to be launched has spent no more than the budget, has counted   *)
(* every request's tokens once and holds only running requests: what schedule() *)
(* asserts at its end (scheduler.py), whoever was preempted meanwhile.          *)
THEOREM StepsWithinBudget == Spec => []StepWithinBudget
<1>1. Base /\ Slots /\ BudgetKept => StepWithinBudget
  <2> SUFFICES ASSUME Base, Slots, BudgetKept, pc = "commit" PROVE StepWithinBudget
    BY DEF StepWithinBudget
  <2>1. Len(running) <= MaxRunning
    <3>1. ToSet(running) = WithStatus("RUNNING")
      BY RunningOnes
    <3>2. Len(running) = Cardinality(ToSet(running))
      BY LenIsCardinality DEF Base, Typed, Queues
    <3>3. Holders \in SUBSET Reqs /\ WithStatus("RUNNING") \in SUBSET Holders
      BY DEF Holders, PausedSessions, WithStatus
    <3>4. Cardinality(WithStatus("RUNNING")) <= Cardinality(Holders)
          /\ Cardinality(WithStatus("RUNNING")) \in Nat /\ Cardinality(Holders) \in Nat
      BY <3>3, Fewer
    <3>5. Cardinality(Holders) <= MaxRunning /\ MaxRunning \in Nat
      BY ConfigFacts DEF Base, Typed, Slots, SlotsHeld
    <3>6. QED BY <3>1, <3>2, <3>4, <3>5
  <2>2. /\ \A j \in DOMAIN loc.batch :
             loc.batch[j].n > 0 /\ request[loc.batch[j].req].status = "RUNNING"
        /\ \A i, j \in DOMAIN loc.batch : loc.batch[i].req = loc.batch[j].req => i = j
    BY DEF Base, BatchSound, OncePerStep
  <2>3. loc.token_budget + SumFunction([j \in DOMAIN loc.batch |-> loc.batch[j].n])
          = (IF pause_state = "PAUSED_ALL" THEN 0 ELSE TokenBudget) /\ loc.token_budget >= 0
    BY DEF BudgetKept, InSchedule, Spent, StepBudget, Base, Typed, Locals
  <2>4. QED BY <2>1, <2>2, <2>3 DEF StepWithinBudget
<1>2. QED BY <1>1, BudgetInvariant, PTL

---------------------------------------------------------------------------
(* Prefill chunks and the states to be cached.                             *)

Multiple(n) == \E k \in Int : n = k * BlockSize

\* Multiples of the block size.
LEMMA MultipleFacts ==
  ASSUME config \in Configs, NEW n \in Int
  PROVE  /\ Multiple(FloorToBlock(n))
         /\ FloorToBlock(n) \in Int
         /\ n % BlockSize = 0 => Multiple(n)
         /\ Multiple(n) => n % BlockSize = 0
         /\ Multiple(n) /\ n > 0 => n >= BlockSize
<1> DEFINE b == BlockSize
<1>1. b \in Nat \ {0}
  BY ConfigFacts
<1>2. FloorToBlock(n) = (n \div b) * b /\ n \div b \in Int
  BY <1>1 DEF FloorToBlock
<1> HIDE DEF b
<1>3. n = (n \div b) * b + (n % b) /\ n % b \in 0 .. b - 1
  BY <1>1
<1>4. ASSUME NEW k \in Int, n = k * b PROVE n % b = 0 /\ (n > 0 => n >= b)
  <2>1. n % b = 0
    BY <1>1, <1>4
  <2>2. ASSUME n > 0 PROVE n >= b
    <3>1. k >= 1
      <4>1. CASE k <= 0
        <5>1. k * b <= 0
          BY <4>1, <1>1
        <5>2. QED BY <5>1, <2>2, <1>4
      <4>2. QED BY <4>1
    <3>2. (k - 1) * b >= 0
      BY <3>1, <1>1
    <3>3. k * b = (k - 1) * b + b
      BY <1>1
    <3>4. QED BY <3>2, <3>3, <1>1, <1>4
  <2>3. QED BY <2>1, <2>2
<1>5. n % b = 0 => n = (n \div b) * b
  BY <1>1, <1>3
<1>6. (n \div b) * b \in Int
  BY <1>1, <1>2
<1>7. QED BY <1>2, <1>4, <1>5, <1>6 DEF Multiple, b

\* Sums and differences of multiples are multiples.
LEMMA MultipleSum ==
  ASSUME config \in Configs, NEW m \in Int, NEW n \in Int, Multiple(m), Multiple(n)
  PROVE  Multiple(m + n) /\ Multiple(m - n)
<1> DEFINE b == BlockSize
<1>1. b \in Int
  BY ConfigFacts
<1>2. PICK j \in Int : m = j * b
  BY DEF Multiple
<1>3. PICK k \in Int : n = k * b
  BY DEF Multiple
<1> HIDE DEF b
<1>4. m + n = (j + k) * b /\ m - n = (j - k) * b
  BY <1>1, <1>2, <1>3
<1>5. j + k \in Int /\ j - k \in Int
  OBVIOUS
<1>6. QED BY <1>4, <1>5 DEF Multiple, b

\* The floor of n is the greatest multiple up to n.
LEMMA GreatestMultiple ==
  ASSUME config \in Configs, NEW m \in Int, NEW n \in Int, Multiple(m), m <= n
  PROVE  m <= FloorToBlock(n)
<1> DEFINE f == FloorToBlock(n)
<1>1. f \in Int /\ f <= n /\ n < f + BlockSize /\ BlockSize \in Nat \ {0}
  BY Floor, ConfigFacts
<1>2. Multiple(f)
  BY MultipleFacts
<1> HIDE DEF f
<1>3. Multiple(m - f) /\ m - f \in Int
  BY <1>1, <1>2, MultipleSum
<1>4. m - f > 0 => m - f >= BlockSize
  BY <1>3, MultipleFacts
<1>5. m <= f
  BY <1>1, <1>4
<1>6. QED BY <1>5 DEF f

\* A chunk of n tokens of q, from start on, stops where it must.
StopsAt(q, start, n) ==
  LET end == start + n
      junction == FloorToBlock(q.shared_prefix_boundary)
  IN  Aligned /\ start < PrefillEnd(q) =>
        /\ start < LastCachePosition(q) => end <= LastCachePosition(q)
        /\ start % BlockSize = 0 /\ start < junction =>
             end <= junction \/ (PrefillEnd(q) <= end /\ end <= q.shared_prefix_boundary)
        /\ start % BlockSize # 0 => end <= FloorToBlock(start) + BlockSize
        /\ end < PrefillEnd(q) /\ BlockSize <= TokenBudget => end % BlockSize = 0

StopsRight(q, n) == StopsAt(q, q.num_computed_tokens, n)

\* The last position whose state is cached is a multiple of the block size.
LEMMA LastCacheMultiple ==
  ASSUME config \in Configs, NEW q \in AnyRequest
  PROVE  LastCachePosition(q) \in Int /\ Multiple(LastCachePosition(q)) /\ PrefillEnd(q) \in Int
<1> DEFINE f == FloorToBlock(q.num_tokens)
           b == BlockSize
<1>1. q.num_tokens \in Int /\ q.num_prompt_tokens \in Int
  BY DEF AnyRequest
<1>2. f \in Int /\ Multiple(f)
  BY <1>1, MultipleFacts
<1>3. b \in Int
  BY ConfigFacts
<1>4. Multiple(0) /\ Multiple(b)
  <2>1. 0 = 0 * b /\ b = 1 * b
    BY <1>3
  <2>2. QED BY <2>1 DEF Multiple
<1>5. Multiple(f - b) /\ Multiple(f - 0)
  <2> HIDE DEF f, b
  <2>1. QED BY <1>2, <1>3, <1>4, MultipleSum
<1>6. LastCachePosition(q) \in {f - b, f - 0, 0}
  <2>1. LastCachePosition(q) = AtLeast(f - (IF UseEagle THEN b ELSE 0), 0)
    BY DEF LastCachePosition
  <2> HIDE DEF f, b
  <2>2. QED BY <2>1, <1>2, <1>3 DEF AtLeast
<1>7. PrefillEnd(q) \in Int
  BY <1>1 DEF PrefillEnd, AtLeast
<1> HIDE DEF f, b
<1>8. QED BY <1>2, <1>3, <1>4, <1>5, <1>6, <1>7

\* _mamba_block_aligned_split: no split jumps over a position whose state must
\* be kept.
LEMMA SplitStops ==
  ASSUME config \in Configs, NEW q \in AnyRequest, NEW start \in Int, NEW m \in Int,
         Split(q, start, m) > 0
  PROVE  StopsAt(q, start, Split(q, start, m))
<1> DEFINE n == Split(q, start, m)
           end == start + m
           fin == start + n
           b == q.shared_prefix_boundary
           B == BlockSize
           J == FloorToBlock(b)
           P == PrefillEnd(q)
           L == LastCachePosition(q)
           stop == ChunkStop(q, start, end)
           C == StopsAfter(q, start, end)
<1> SUFFICES ASSUME Aligned, start < P
             PROVE  /\ start < L => fin <= L
                    /\ start % B = 0 /\ start < J => fin <= J \/ (P <= fin /\ fin <= b)
                    /\ start % B # 0 => fin <= FloorToBlock(start) + B
                    /\ fin < P /\ B <= TokenBudget => fin % B = 0
  BY DEF StopsAt
<1>1. start \in Int /\ b \in Int /\ end \in Int /\ B \in Nat \ {0} /\ TokenBudget \in Int
  BY ConfigFacts DEF AnyRequest
<1>2. L \in Int /\ Multiple(L) /\ P \in Int
  BY LastCacheMultiple
<1>3. n \in Int /\ n > 0 /\ n = AlignedSplit(q, start, end)
  BY <1>1, SplitFacts
<1>4. /\ \A s \in C : fin <= s
      /\ fin \in C /\ fin > start /\ fin \in Int
  BY <1>1, <1>3, AlignedSplitFacts
<1>5. stop \in C /\ stop \in Int /\ stop <= end
  BY <1>1, StopsFinite
<1>6. /\ L > start => L \in C
      /\ start % B # 0 /\ FloorToBlock(start) + B > start => FloorToBlock(start) + B \in C
      /\ start < b /\ b < stop /\ start + FloorToBlock(b - start) > start =>
            start + FloorToBlock(b - start) \in C
  BY DEF StopsAfter, MandatoryStops
<1>7. \/ fin = stop \/ fin = L
      \/ start % B # 0 /\ fin = FloorToBlock(start) + B
      \/ start < b /\ b < stop /\ fin = start + FloorToBlock(b - start)
  BY <1>4 DEF StopsAfter, MandatoryStops
<1>8. stop = IF end < P /\ (FloorToBlock(end) > start \/ B <= TokenBudget)
             THEN FloorToBlock(end) ELSE end
  BY DEF ChunkStop
<1> HIDE DEF n, end, fin, B, J, P, L, stop, C
<1>9. /\ FloorToBlock(start) \in Int /\ FloorToBlock(start) + B > start
      /\ Multiple(FloorToBlock(start))
  BY <1>1, Floor, MultipleFacts DEF B
<1>10. J \in Int /\ J <= b /\ Multiple(J)
  BY <1>1, Floor, MultipleFacts DEF J
<1>11. /\ FloorToBlock(end) \in Int /\ FloorToBlock(end) <= end
       /\ Multiple(FloorToBlock(end))
  BY <1>1, Floor, MultipleFacts
<1> DEFINE t == FloorToBlock(b - start)
<1>12. b - start \in Int /\ t \in Int /\ t <= b - start /\ Multiple(t)
  <2>1. b - start \in Int
    BY <1>1
  <2>2. QED BY <2>1, Floor, MultipleFacts
<1> HIDE DEF t
<1>13. start < L => fin <= L
  BY <1>4, <1>6
<1>14. start % B # 0 => fin <= FloorToBlock(start) + B
  BY <1>4, <1>6, <1>9
<1>15. ASSUME start % B = 0, start < J PROVE fin <= J \/ (P <= fin /\ fin <= b)
  <2>1. Multiple(start)
    BY <1>1, <1>15, MultipleFacts DEF B
  <2>2. t = J - start
    <3>1. Multiple(J - start) /\ Multiple(start + t) /\ J - start \in Int /\ start + t \in Int
      <4>1. Multiple(J - start)
        BY <2>1, <1>1, <1>10, MultipleSum
      <4>2. Multiple(start + t)
        BY <2>1, <1>1, <1>12, MultipleSum
      <4>3. QED BY <4>1, <4>2, <1>1, <1>10, <1>12
    <3>2. J - start <= t
      BY <3>1, <1>1, <1>10, <1>12, GreatestMultiple DEF t
    <3>3. start + t <= J
      BY <3>1, <1>1, <1>12, GreatestMultiple DEF J
    <3>4. QED BY <3>2, <3>3, <1>1, <1>10, <1>12
  <2>3. CASE b < stop
    <3>1. J \in C
      BY <2>2, <2>3, <1>1, <1>6, <1>10, <1>15 DEF t
    <3>2. QED BY <3>1, <1>4
  <2>4. CASE ~(b < stop) /\ fin > J
    <3>1. fin <= b /\ stop <= b
      BY <2>4, <1>1, <1>4, <1>5
    <3>2. ~Multiple(fin)
      BY <3>1, <2>4, <1>1, <1>4, <1>10, GreatestMultiple DEF J
    <3>3. fin # L /\ fin = stop
      BY <3>2, <2>4, <1>2, <1>7, <1>15
    <3>4. stop = end
      BY <3>2, <3>3, <1>8, <1>11
    <3>5. FloorToBlock(end) > start
      <4>1. J <= end
        BY <3>3, <3>4, <2>4, <1>4, <1>10
      <4>2. J <= FloorToBlock(end)
        BY <4>1, <1>1, <1>10, GreatestMultiple
      <4>3. QED BY <4>2, <1>1, <1>10, <1>11, <1>15
    <3>6. ~(end < P)
      BY <3>2, <3>3, <3>5, <1>8, <1>11
    <3>7. QED BY <3>1, <3>3, <3>4, <3>6, <1>1, <1>2
  <2>5. QED BY <2>3, <2>4, <1>4, <1>10
<1>16. ASSUME fin < P, B <= TokenBudget PROVE fin % B = 0
  <2>1. SUFFICES Multiple(fin)
    BY <1>4, MultipleFacts DEF B
  <2>2. CASE fin = stop
    <3>1. end < P
      BY <2>2, <1>1, <1>2, <1>8, <1>16
    <3>2. QED BY <2>2, <3>1, <1>8, <1>11, <1>16
  <2>3. CASE fin = L
    BY <2>3, <1>2
  <2>4. CASE start % B # 0 /\ fin = FloorToBlock(start) + B
    <3>1. Multiple(B)
      <4>1. B = 1 * B
        BY <1>1
      <4>2. QED BY <4>1 DEF Multiple, B
    <3>2. QED BY <2>4, <3>1, <1>1, <1>9, MultipleSum
  <2>5. CASE start < b /\ b < stop /\ fin = start + t
    <3>1. CASE start % B = 0
      <4>1. Multiple(start)
        BY <3>1, <1>1, MultipleFacts DEF B
      <4>2. QED BY <4>1, <2>5, <1>1, <1>12, MultipleSum
    <3>2. CASE start % B # 0
      <4>1. t > 0
        BY <2>5, <1>1, <1>4, <1>12
      <4>2. t >= B
        BY <4>1, <1>12, MultipleFacts DEF B
      <4>3. start + t <= FloorToBlock(start) + B
        BY <3>2, <2>5, <1>14
      <4>4. FloorToBlock(start) <= start
        BY <1>1, Floor
      <4>5. FloorToBlock(start) = start
        BY <4>2, <4>3, <4>4, <1>1, <1>9, <1>12
      <4>6. start % B = 0
        BY <4>5, <1>1, <1>9, MultipleFacts DEF B
      <4>7. QED BY <4>6, <3>2
    <3>3. QED BY <3>1, <3>2
  <2>6. QED BY <2>2, <2>3, <2>4, <2>5, <1>7 DEF t
<1>17. QED BY <1>13, <1>14, <1>15, <1>16 DEF J

\* Where a chunk stops depends on four fields of its request.
SameChunks(p, q) ==
  /\ p.num_tokens = q.num_tokens /\ p.num_prompt_tokens = q.num_prompt_tokens
  /\ p.shared_prefix_boundary = q.shared_prefix_boundary

\* Where a chunk stops depends on no other field.
LEMMA StopsSame ==
  ASSUME NEW p, NEW q, SameChunks(p, q), NEW start, NEW n, StopsAt(q, start, n)
  PROVE  StopsAt(p, start, n)
<1>1. PrefillEnd(p) = PrefillEnd(q) /\ LastCachePosition(p) = LastCachePosition(q)
  BY DEF SameChunks, PrefillEnd, LastCachePosition
<1>2. QED BY <1>1, Zenon DEF StopsAt, SameChunks

\* Every entry of the step stops where it must, and so will the tokens that were
\* fixed for the running request whose blocks did not fit.
EntryStops(i) == StopsRight(request[loc.batch[i].req], loc.batch[i].n)

ChunksKept ==
  /\ \A i \in DOMAIN loc.batch : EntryStops(i)
  /\ pc = "running" /\ loc.want > 0 =>
       /\ loc.idx \in DOMAIN running
       /\ ~LengthIsSure(request[running[loc.idx]])
       /\ StopsRight(request[running[loc.idx]], loc.want)

\* The tokens of a running request.
LEMMA TurnStops ==
  ASSUME Base, BudgetKept, ChunksKept, RunningTurn, NumNewTokens(request[running[loc.idx]]) > 0
  PROVE  StopsRight(request[running[loc.idx]], NumNewTokens(request[running[loc.idx]]))
<1> DEFINE q == request[running[loc.idx]]
           n == NumNewTokens(q)
<1>1. q \in AnyRequest /\ config \in Configs /\ pc = "running" /\ loc.want \in Int
  BY TurnFacts DEF RunningTurn, Base, Typed, Locals
<1>2. CASE loc.want > 0
  <2>1. n = loc.want
    BY <1>2 DEF NumNewTokens
  <2>2. QED BY <2>1, <1>1, <1>2 DEF ChunksKept
<1>3. CASE loc.want <= 0
  <2>1. PICK m \in Int : n = Split(q, q.num_computed_tokens, m)
    BY <1>1, <1>3, NumNewTokensFacts DEF Base
  <2>2. q.num_computed_tokens \in Int
    BY <1>1 DEF AnyRequest
  <2> HIDE DEF q, n
  <2>3. Split(q, q.num_computed_tokens, m) > 0
    BY <2>1 DEF q, n
  <2>4. StopsAt(q, q.num_computed_tokens, n)
    BY <2>1, <2>2, <2>3, <1>1, SplitStops
  <2>5. QED BY <2>4 DEF StopsRight, q, n
<1>4. QED BY <1>1, <1>2, <1>3

\* An entry whose request is the same as before still stops where it must.
LEMMA EntryKept ==
  ASSUME ChunksKept, UNCHANGED config, NEW i, NEW j \in DOMAIN loc.batch,
         loc'.batch[i] = loc.batch[j],
         request'[loc.batch[j].req] = request[loc.batch[j].req]
  PROVE  EntryStops(i)'
<1>1. StopsRight(request[loc.batch[j].req], loc.batch[j].n)
  BY DEF ChunksKept, EntryStops
<1>2. QED BY <1>1 DEF EntryStops, StopsRight, StopsAt, PrefillEnd, LastCachePosition, FloorToBlock,
        Aligned, BlockSize, UseEagle, TokenBudget

\* So does one whose request has the same tokens and boundary.
LEMMA EntryNow ==
  ASSUME UNCHANGED config, NEW i, NEW q, NEW start, NEW n,
         loc'.batch[i].n = n, StopsAt(q, start, n),
         SameChunks(request'[loc'.batch[i].req], q),
         request'[loc'.batch[i].req].num_computed_tokens = start
  PROVE  EntryStops(i)'
<1>1. StopsAt(request'[loc'.batch[i].req], start, n)
  BY StopsSame
<1>2. QED BY <1>1 DEF EntryStops, StopsRight, StopsAt, PrefillEnd, LastCachePosition, FloorToBlock,
        Aligned, BlockSize, UseEagle, TokenBudget

\* Each turn of schedule() keeps the chunks already in the step.
LEMMA ChunksSchedule == ASSUME Base, BudgetKept, ChunksKept, Schedule PROVE ChunksKept'
<1>1. /\ loc \in Locals /\ loc.batch \in Seq(BatchEntry) /\ loc.want \in Int
      /\ \A i \in DOMAIN loc.batch : request[loc.batch[i].req].status = "RUNNING"
      /\ request \in [Reqs -> AnyRequest] /\ running \in Seq(Reqs) /\ loc.idx \in Int
  BY DEF Base, Typed, Locals, BatchSound
<1>2. UNCHANGED config
  BY ConfigSame DEF Next
<1>3. \A i \in DOMAIN loc.batch : loc.batch[i] \in BatchEntry /\ loc.batch[i].req \in Reqs
  <2>1. \A i \in DOMAIN loc.batch : loc.batch[i] \in BatchEntry
    BY <1>1
  <2>2. QED BY <2>1 DEF BatchEntry
\* Steps that leave the batch alone, and its requests.
<1>4. ASSUME loc'.batch = loc.batch, pc' # "running" \/ loc'.want <= 0,
             \A i \in DOMAIN loc.batch : request'[loc.batch[i].req] = request[loc.batch[i].req]
      PROVE  ChunksKept'
  <2>1. \A i \in DOMAIN loc.batch : EntryStops(i)'
    BY <1>2, <1>4, EntryKept
  <2>2. loc'.want \in Int
    BY TypedNext DEF Base, Next, Typed, Locals
  <2>3. QED BY <2>1, <2>2, <1>4 DEF ChunksKept
<1>5. CASE BeginSchedule
  BY <1>5 DEF BeginSchedule, Idle, ChunksKept
<1>6. CASE SkipRunning
  <2>1. /\ loc' = [loc EXCEPT !.idx = @ + 1] /\ UNCHANGED <<request, running>> /\ RunningTurn
        /\ LengthIsSure(request[running[loc.idx]]) \/ NumNewTokens(request[running[loc.idx]]) = 0
    BY <1>6 DEF SkipRunning, queues
  <2>2. loc.want <= 0
    <3>1. loc.want > 0 => NumNewTokens(request[running[loc.idx]]) = loc.want
                          /\ ~LengthIsSure(request[running[loc.idx]])
      BY <2>1 DEF NumNewTokens, ChunksKept, RunningTurn
    <3>2. QED BY <3>1, <2>1, <1>1
  <2>3. loc'.batch = loc.batch /\ loc'.want = loc.want
    BY <2>1, <1>1 DEF Locals
  <2>4. QED BY <2>1, <2>2, <2>3, <1>4
<1>7. CASE ScheduleRunning
  <2> DEFINE r == running[loc.idx]
             q == request[r]
             n == NumNewTokens(q)
  <2>1. PICK e : Scheduled(e, r)
    BY <1>7, ScheduledFacts
  <2>2. /\ r \in Reqs /\ q \in AnyRequest /\ n > 0 /\ n \in Int
        /\ request' = [request EXCEPT ![r] = [q EXCEPT !.num_spec = 0]]
        /\ e \in BatchEntry /\ e.req = r /\ e.n = n
        /\ loc'.want = 0 /\ loc'.batch = Append(loc.batch, e)
        /\ \A i \in DOMAIN loc.batch : loc.batch[i].req # r
    BY <2>1 DEF Scheduled
  <2>3. RunningTurn
    BY <1>7 DEF ScheduleRunning
  <2>4. StopsAt(q, q.num_computed_tokens, n)
    BY <2>2, <2>3, TurnStops DEF StopsRight
  <2> HIDE DEF n
  <2>5. /\ DOMAIN loc'.batch = 1 .. Len(loc.batch) + 1 /\ loc'.batch[Len(loc.batch) + 1] = e
        /\ DOMAIN loc.batch = 1 .. Len(loc.batch) /\ Len(loc.batch) \in Nat
        /\ \A i \in 1 .. Len(loc.batch) : loc'.batch[i] = loc.batch[i]
    BY <2>2, <1>1
  <2>6. SameChunks(request'[r], q) /\ request'[r].num_computed_tokens = q.num_computed_tokens
    <3>1. request'[r] = [q EXCEPT !.num_spec = 0]
      BY <2>2, <1>1
    <3>2. QED BY <3>1, <2>2 DEF AnyRequest, SameChunks
  <2>7. ASSUME NEW i \in DOMAIN loc'.batch, i \notin 1 .. Len(loc.batch) PROVE EntryStops(i)'
    <3>1. loc'.batch[i] = e
      BY <2>5, <2>7
    <3>2. QED BY <3>1, <2>2, <2>4, <2>6, <1>2, EntryNow
  <2>8. ASSUME NEW i \in 1 .. Len(loc.batch) PROVE EntryStops(i)'
    <3>1. i \in DOMAIN loc.batch /\ loc'.batch[i] = loc.batch[i]
      BY <2>5
    <3>2. request'[loc.batch[i].req] = request[loc.batch[i].req]
      BY <3>1, <2>2, <1>1, <1>3
    <3>3. QED BY <3>1, <3>2, <1>2, EntryKept
  <2>9. \A i \in DOMAIN loc'.batch : EntryStops(i)'
    BY <2>7, <2>8
  <2>10. QED BY <2>2, <2>9 DEF ChunksKept
<1>8. CASE PreemptForRunning
  <2> DEFINE r == running[loc.idx]
             n == NumNewTokens(request[r])
             v == Victim
  <2>1. Evicted(v, r)
    BY <1>8, EvictedFacts
  <2>2. /\ v \in Reqs /\ v \in ToSet(running) /\ r \in Reqs /\ n \in Int /\ n > 0
        /\ running' = remove_requests(running, {v})
        /\ request' = [request EXCEPT ![v] = Preempted(request[v], KvDelivery)]
        /\ loc'.idx = IndexWithout(v) /\ loc'.want = (IF v = r THEN 0 ELSE n)
        /\ loc'.batch = BatchWithout(v)
    BY <2>1 DEF Evicted
  <2>3. RunningTurn /\ ~LengthIsSure(request[r])
    BY <1>8 DEF PreemptForRunning
  <2>4. StopsRight(request[r], n)
    BY <2>2, <2>3, TurnStops
  <2> HIDE DEF n, v
  <2>5. /\ \A i \in DOMAIN BatchWithout(v) :
              /\ BatchWithout(v)[i].req # v
              /\ \E j \in DOMAIN loc.batch : loc.batch[j] = BatchWithout(v)[i]
    BY BatchWithoutFacts DEF Base, BatchSound
  <2>6. ASSUME NEW i \in DOMAIN loc'.batch PROVE EntryStops(i)'
    <3>1. PICK j \in DOMAIN loc.batch : loc.batch[j] = loc'.batch[i] /\ loc.batch[j].req # v
      BY <2>2, <2>5
    <3>2. request'[loc.batch[j].req] = request[loc.batch[j].req]
      BY <3>1, <2>2, <1>1, <1>3
    <3>3. QED BY <3>1, <3>2, <1>2, EntryKept
  <2>7. ASSUME v # r
        PROVE  /\ loc'.idx \in DOMAIN running' /\ running'[loc'.idx] = r
    <3>1. loc.idx \in DOMAIN running /\ running[loc.idx] # v
      BY <2>3, <2>7, RunningTurnFacts DEF Base
    <3>2. PICK j \in DOMAIN remove_requests(running, {v}) :
                 /\ remove_requests(running, {v})[j] = running[loc.idx]
                 /\ j = IndexWithout(v)
      BY <3>1, <2>2, VictimPlaces DEF Base, Queues
    <3>3. QED BY <3>2, <2>2
  <2>8. ASSUME v # r
        PROVE  /\ ~LengthIsSure(request[running[loc.idx]])'
               /\ StopsRight(request[running[loc.idx]], loc.want)'
    <3>1. request'[running'[loc'.idx]] = request[r] /\ loc'.want = n
      BY <2>2, <2>7, <2>8, <1>1
    <3>2. ~LengthIsSure(request[running[loc.idx]])'
      BY <3>1, <2>3, <1>2 DEF LengthIsSure, MaxTokens
    <3>3. QED BY <3>1, <3>2, <2>4, <1>2 DEF StopsRight, StopsAt, PrefillEnd, LastCachePosition,
                 FloorToBlock, Aligned, BlockSize, UseEagle, TokenBudget
  <2>9. v = r => ~(loc'.want > 0)
    BY <2>2
  <2>10. QED BY <2>6, <2>7, <2>8, <2>9 DEF ChunksKept
<1>9. CASE EndRunning
  BY <1>9, <1>4 DEF EndRunning
<1>10. CASE SkipWaiting
  <2>1. /\ request' = [request EXCEPT ![Candidate] = Promoted(Candidate)]
        /\ loc' = [loc EXCEPT !.step_skipped = prepend_request(@, Candidate)]
        /\ WaitingTurn /\ PopCandidate /\ pc' = "waiting"
    BY <1>10 DEF SkipWaiting, WaitingTurn
  <2>2. Candidate \in Reqs /\ request[Candidate].status # "RUNNING"
    BY <2>1, PopEffect
  <2>3. loc'.batch = loc.batch
    BY <2>1, <1>1 DEF Locals
  <2>4. \A i \in DOMAIN loc.batch : request'[loc.batch[i].req] = request[loc.batch[i].req]
    BY <2>1, <2>2, <1>1, <1>3
  <2>5. QED BY <2>1, <2>3, <2>4, <1>4
<1>11. ASSUME WaitingTurn, NEW found \in Lookups(Promoted(Candidate)), Admit(found)
       PROVE  ChunksKept'
  <2> DEFINE r == Candidate
             q == found.q
             computed == found.computed
             n == AdmitTokens(q, computed)
  <2>1. PICK e : Admitted(e, r, q, computed)
    BY <1>11, AdmittedFacts
  <2>2. /\ r \in Reqs /\ q \in AnyRequest /\ computed \in Int /\ n > 0 /\ n \in Int
        /\ request' = [request EXCEPT ![r] = [q EXCEPT !.status = "RUNNING",
                                                       !.num_computed_tokens = computed]]
        /\ e \in BatchEntry /\ e.req = r /\ e.n = n /\ pc' = "waiting"
        /\ loc'.batch = Append(loc.batch, e)
        /\ \A i \in DOMAIN loc.batch : loc.batch[i].req # r
    BY <2>1 DEF Admitted
  <2>3. PICK m \in Int : n = Split(q, computed, m)
    BY <2>2, AdmitTokensFacts DEF Base
  <2>4. StopsAt(q, computed, n)
    <3> HIDE DEF n, q, computed
    <3>1. Split(q, computed, m) > 0 /\ config \in Configs
      BY <2>2, <2>3 DEF Base, Typed
    <3>2. QED BY <3>1, <2>2, <2>3, SplitStops
  <2> HIDE DEF n, q, computed, r
  <2>5. /\ DOMAIN loc'.batch = 1 .. Len(loc.batch) + 1 /\ loc'.batch[Len(loc.batch) + 1] = e
        /\ DOMAIN loc.batch = 1 .. Len(loc.batch) /\ Len(loc.batch) \in Nat
        /\ \A i \in 1 .. Len(loc.batch) : loc'.batch[i] = loc.batch[i]
    BY <2>2, <1>1
  <2>6. SameChunks(request'[r], q) /\ request'[r].num_computed_tokens = computed
    <3>1. request'[r] = [q EXCEPT !.status = "RUNNING", !.num_computed_tokens = computed]
      BY <2>2, <1>1
    <3>2. QED BY <3>1, <2>2 DEF AnyRequest, SameChunks
  <2>7. ASSUME NEW i \in DOMAIN loc'.batch, i \notin 1 .. Len(loc.batch) PROVE EntryStops(i)'
    <3>1. loc'.batch[i] = e
      BY <2>5, <2>7
    <3>2. QED BY <3>1, <2>2, <2>4, <2>6, <1>2, EntryNow
  <2>8. ASSUME NEW i \in 1 .. Len(loc.batch) PROVE EntryStops(i)'
    <3>1. i \in DOMAIN loc.batch /\ loc'.batch[i] = loc.batch[i]
      BY <2>5
    <3>2. request'[loc.batch[i].req] = request[loc.batch[i].req]
      BY <3>1, <2>2, <1>1, <1>3
    <3>3. QED BY <3>1, <3>2, <1>2, EntryKept
  <2>9. \A i \in DOMAIN loc'.batch : EntryStops(i)'
    BY <2>7, <2>8
  <2>10. QED BY <2>2, <2>9 DEF ChunksKept
<1>12. ASSUME WaitingTurn, NEW found \in Lookups(Promoted(Candidate)), StopWaiting(found)
       PROVE  ChunksKept'
  <2>1. /\ request' = [request EXCEPT ![Candidate] = found.q]
        /\ loc' = [loc EXCEPT !.step_skipped = <<>>] /\ pc' = "commit"
    BY <1>12 DEF StopWaiting, Requeue
  <2>2. request[Candidate].status # "RUNNING" /\ Candidate \in Reqs
    <3>1. Candidate \in ToSet(CandidateQueue) /\ Candidate \in Reqs
      BY <1>12, CandidateFacts DEF Base
    <3>2. Queued = LiveReqs \ WithStatus("RUNNING")
      BY <1>12, RunningOnes DEF WaitingTurn
    <3>3. Candidate \in Queued
      BY <3>1 DEF CandidateQueue, Queued
    <3>4. QED BY <3>1, <3>2, <3>3 DEF WithStatus
  <2>3. loc'.batch = loc.batch
    BY <2>1, <1>1 DEF Locals
  <2>4. \A i \in DOMAIN loc.batch : request'[loc.batch[i].req] = request[loc.batch[i].req]
    BY <2>1, <2>2, <1>1, <1>3
  <2>5. QED BY <2>1, <2>3, <2>4, <1>4
<1>13. CASE EndWaiting
  <2>1. request' = request /\ loc' = [loc EXCEPT !.step_skipped = <<>>] /\ pc' = "commit"
    BY <1>13 DEF EndWaiting, Requeue
  <2>2. loc'.batch = loc.batch
    BY <2>1, <1>1 DEF Locals
  <2>3. QED BY <2>1, <2>2, <1>4
<1>14. CASE Commit
  <2>1. loc' = Idle /\ pc' = "idle"
    BY <1>14 DEF Commit
  <2>2. DOMAIN loc'.batch = {}
    BY <2>1 DEF Idle
  <2>3. QED BY <2>1, <2>2 DEF ChunksKept
<1>15. QED BY <1>5, <1>6, <1>7, <1>8, <1>9, <1>10, <1>11, <1>12, <1>13, <1>14 DEF Schedule

(* The chunks of the step under construction stop at states to be cached, and *)
(* so does the one a preemption interrupts (scheduler.py,                     *)
(* _mamba_block_aligned_split and its two calls).                             *)
THEOREM ChunksInvariant == Spec => [](Base /\ ChunksKept)
<1>1. Init => ChunksKept
  BY DEF Init, ChunksKept, Idle
<1>2. Base /\ BudgetKept /\ ChunksKept /\ [Next]_vars => ChunksKept'
  <2> SUFFICES ASSUME Base, BudgetKept, ChunksKept, [Next]_vars PROVE ChunksKept'
    OBVIOUS
  <2>1. Base'
    BY BaseNext
  <2>2. CASE ~InSchedule'
    <3>1. loc' = Idle /\ pc' # "running"
      BY <2>1, <2>2 DEF Base, Phases, InSchedule, Typed, Idle
    <3>2. DOMAIN loc'.batch = {}
      BY <3>1 DEF Idle
    <3>3. QED BY <3>1, <3>2 DEF ChunksKept
  <2>3. CASE InSchedule /\ UNCHANGED <<config, pause_state, loc, pc, request, running, held>>
    <3>1. \A i \in DOMAIN loc'.batch : EntryStops(i)'
      BY <2>3, EntryKept
    <3>2. QED BY <3>1, <2>3 DEF ChunksKept, LengthIsSure, MaxTokens, StopsRight, StopsAt,
                 PrefillEnd, LastCachePosition, FloorToBlock, Aligned, BlockSize, UseEagle,
                 TokenBudget
  <2>4. QED BY <2>2, <2>3, ScheduleOnly, ChunksSchedule
<1>3. QED BY <1>1, <1>2, BudgetInvariant, PTL DEF Spec

(* With block-aligned recurrent state, no prefill chunk of a step jumps over a    *)
(* position whose state the cache must keep, whatever the budget, the drafts, the *)
(* cache hit and the length of the prompt; the one exception is stated with       *)
(* PrefillStopsAtStates (scheduler.py:366-445).                                   *)
THEOREM PrefillStops == Spec => []PrefillStopsAtStates
<1>1. ChunksKept => PrefillStopsAtStates
  BY DEF ChunksKept, EntryStops, StopsRight, StopsAt, PrefillStopsAtStates
<1>2. QED BY <1>1, ChunksInvariant, PTL

=============================================================================
