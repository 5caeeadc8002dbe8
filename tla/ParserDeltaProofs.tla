-------------------------- MODULE ParserDeltaProofs --------------------------
(***************************************************************************)
(* What the client has of a streamed answer, proved for any tools and      *)
(* requests, deltas of any size and answers of any length.                 *)
(*                                                                         *)
(* The loop over the events of a delta is a fold.  It is followed event by *)
(* event: what the events so far put together of the reasoning, of the     *)
(* content, and of what waits behind calls, is what they hold of text.     *)
(* The properties are not inductive alone: that the reasoning may be cut   *)
(* at its last visible character, delta by delta, takes that what waits is *)
(* exactly what was cut off; that white space may still be held back takes *)
(* that nothing visible was sent; that it may be dropped in front of calls *)
(* takes that nothing but white space was.  ParsedInv says so.             *)
(*                                                                         *)
(* The calls are followed along all the events so far.  Their kinds say    *)
(* which call is open and whether its name or its arguments come next, and *)
(* so which slot is whose.  What the client has of a call begins the safe  *)
(* prefix of its JSON, up to the last value or into it, and that prefix    *)
(* only grows with the raw arguments: what is sent is what was missing,    *)
(* and at the call's end that is all the rest.  The slots do not depend on *)
(* where the deltas end, so they are those of parse().  CallsInv says so.  *)
(***************************************************************************)
EXTENDS ParserDelta, FoldLemmas

---------------------------------------------------------------------------
(* The loops, step by step.                                                *)

\* The steps of the folds of ParserDelta.
Step(loop, acc, x) ==
  CASE loop = "events"  -> TakeEvent(acc, x)
    [] loop = "symbols" -> AddSymbol(acc, x)
    [] loop = "deltas"  -> MergeDelta(acc, x)
    [] loop = "slots"   -> ExtractCall(acc, x)

\* Which loop steps how.
LEMMA StepIs ==
  /\ \A acc, x : Step("events", acc, x) = TakeEvent(acc, x)
  /\ \A acc, x : Step("symbols", acc, x) = AddSymbol(acc, x)
  /\ \A acc, x : Step("deltas", acc, x) = MergeDelta(acc, x)
  /\ \A acc, x : Step("slots", acc, x) = ExtractCall(acc, x)
  BY DEF Step

LoopNext(loop, it, x, acc, s) ==
  IF x = {} THEN acc ELSE Step(loop, it[x \ {Max(x)}], s[Max(x)])

IsLoopTable(loop, it, acc, s, n) ==
  it = [x \in SUBSET (1 .. n) |-> LoopNext(loop, it, x, acc, s)]

\* The table of a loop's partial results exists, whatever its steps do.
LEMMA LoopTableExists ==
  ASSUME NEW loop, NEW acc, NEW s, NEW n \in Nat
  PROVE  \E it : IsLoopTable(loop, it, acc, s, n)
<1> DEFINE Table(k, it) == it = [x \in SUBSET (1 .. k) |-> LoopNext(loop, it, x, acc, s)]
           Have == {k \in Nat : \E it : Table(k, it)}
<1>1. 0 \in Have
  <2> DEFINE it == [x \in SUBSET (1 .. 0) |-> acc]
  <2>1. \A x \in SUBSET (1 .. 0) : x = {}
    OBVIOUS
  <2>2. \A x \in SUBSET (1 .. 0) : LoopNext(loop, it, x, acc, s) = acc
    BY <2>1 DEF LoopNext
  <2>3. Table(0, it)
    BY <2>2
  <2>4. QED BY <2>3
<1>2. ASSUME NEW k \in Nat, k \in Have PROVE k + 1 \in Have
  <2>1. PICK it : Table(k, it)
    BY <1>2
  <2> DEFINE S == SUBSET (1 .. k)
             U == SUBSET (1 .. k + 1)
             next == [x \in U |-> LoopNext(loop, it, x, acc, s)]
  <2>2. \A x \in S : it[x] = LoopNext(loop, it, x, acc, s)
    BY <2>1
  <2>3. S \subseteq U
    OBVIOUS
  <2>4. \A x \in S : next[x] = it[x]
    BY <2>2, <2>3
  <2>5. ASSUME NEW x \in U, x # {} PROVE Max(x) \in x /\ x \ {Max(x)} \in S
    <3>1. k + 1 \in Nat /\ x \in SUBSET (1 .. k + 1)
      OBVIOUS
    <3>2. Max(x) \in x /\ \A j \in x : j <= Max(x)
      BY <3>1, <2>5, MaxOfInterval
    <3>3. ASSUME NEW j \in x \ {Max(x)} PROVE j \in 1 .. k
      <4>1. j \in 1 .. k + 1 /\ Max(x) \in 1 .. k + 1 /\ j <= Max(x) /\ j # Max(x)
        BY <3>2
      <4>2. QED BY <4>1
    <3>4. QED BY <3>2, <3>3
  <2> HIDE DEF S, next
  <2>6. ASSUME NEW x \in U
        PROVE  LoopNext(loop, it, x, acc, s) = LoopNext(loop, next, x, acc, s)
    <3>1. CASE x = {}
      BY <3>1 DEF LoopNext
    <3>2. CASE x # {}
      BY <3>2, <2>4, <2>5 DEF LoopNext
    <3>3. QED BY <3>1, <3>2
  <2>7. next = [x \in U |-> LoopNext(loop, next, x, acc, s)]
    BY <2>6 DEF next
  <2>8. Table(k + 1, next)
    BY <2>7
  <2>9. QED BY <2>8
<1>3. n \in Have
  <2> HIDE DEF Have
  <2>1. QED BY <1>1, <1>2, NatInductionSet
<1>4. QED BY <1>3 DEF IsLoopTable

\* f is what the loop has after each of the elements, and result after the last.
IsLoop(loop, f, acc, s, n, result) ==
  /\ f[0] = acc /\ f[n] = result
  /\ \A k \in 1 .. n : f[k] = Step(loop, f[k - 1], s[k])

HasLoop(loop, acc, s, n, result) == \E f : IsLoop(loop, f, acc, s, n, result)

\* A table of partial results holds those of a loop from the first element on.
LEMMA LoopSteps ==
  ASSUME NEW loop, NEW acc, NEW s, NEW n \in Nat, NEW t, IsLoopTable(loop, t, acc, s, n)
  PROVE  HasLoop(loop, acc, s, n, t[1 .. n])
<1>4. \A x \in SUBSET (1 .. n) : t[x] = LoopNext(loop, t, x, acc, s)
  BY DEF IsLoopTable
<1> DEFINE f == [k \in 0 .. n |-> t[1 .. k]]
<1>5. f[0] = acc
  <2>1. 1 .. 0 = {} /\ 0 \in 0 .. n /\ {} \in SUBSET (1 .. n)
    OBVIOUS
  <2>2. QED BY <2>1, <1>4 DEF LoopNext
<1>6. ASSUME NEW k \in 1 .. n PROVE f[k] = Step(loop, f[k - 1], s[k])
  <2>1. k \in Nat \ {0} /\ k <= n /\ k \in 0 .. n /\ k - 1 \in 0 .. n
    OBVIOUS
  <2>2. 1 .. k \in SUBSET (1 .. n) /\ 1 .. k # {}
    <3>1. \A i \in 1 .. k : i \in 1 .. n
      BY <2>1
    <3>2. k \in 1 .. k
      BY <2>1
    <3>3. QED BY <3>1, <3>2
  <2>3. Max(1 .. k) = k /\ (1 .. k) \ {k} = 1 .. (k - 1)
    BY <2>1, MaxIsLast
  <2>4. t[1 .. k] = Step(loop, t[1 .. (k - 1)], s[k])
    BY <2>2, <2>3, <1>4, Zenon DEF LoopNext
  <2>5. f[k] = t[1 .. k] /\ f[k - 1] = t[1 .. (k - 1)]
    BY <2>1
  <2>6. QED BY <2>4, <2>5, Zenon
<1>7. n \in 0 .. n /\ f[n] = t[1 .. n]
  OBVIOUS
<1> HIDE DEF f
<1>8. IsLoop(loop, f, acc, s, n, t[1 .. n])
  BY <1>5, <1>6, <1>7, Zenon DEF IsLoop
<1>9. QED BY <1>8 DEF HasLoop

\* A loop's partial results are the only ones.
LEMMA LoopsAgree ==
  ASSUME NEW loop, NEW acc, NEW s, NEW n \in Nat, NEW k \in 0 .. n, NEW f, NEW g, NEW r, NEW q,
         IsLoop(loop, f, acc, s, n, r), IsLoop(loop, g, acc, s, k, q)
  PROVE  \A i \in 0 .. k : f[i] = g[i]
<1>0. /\ f[0] = acc /\ \A i \in 1 .. n : f[i] = Step(loop, f[i - 1], s[i])
      /\ g[0] = acc /\ \A i \in 1 .. k : g[i] = Step(loop, g[i - 1], s[i])
  BY DEF IsLoop
<1> DEFINE Good == {i \in Nat : i <= k => f[i] = g[i]}
<1>1. 0 \in Good
  BY <1>0
<1>2. ASSUME NEW i \in Nat, i \in Good PROVE i + 1 \in Good
  <2>1. SUFFICES ASSUME i + 1 <= k PROVE f[i + 1] = g[i + 1]
    OBVIOUS
  <2>2. i + 1 \in 1 .. n /\ i + 1 \in 1 .. k /\ (i + 1) - 1 = i /\ i <= k
    BY <2>1
  <2>3. f[i + 1] = Step(loop, f[i], s[i + 1]) /\ g[i + 1] = Step(loop, g[i], s[i + 1])
    BY <2>2, <1>0
  <2>4. f[i] = g[i]
    BY <1>2, <2>2
  <2>5. QED BY <2>3, <2>4
<1>3. \A i \in Nat : i \in Good
  <2> HIDE DEF Good
  <2>1. QED BY <1>1, <1>2, NatInductionSet
<1>4. QED BY <1>3

EventTable(acc, s) ==
  CHOOSE it : it = [x \in SUBSET (DOMAIN s) |->
                      IF x = {} THEN acc ELSE TakeEvent(it[x \ {Max(x)}], s[Max(x)])]
SymbolTable(acc, s) ==
  CHOOSE it : it = [x \in SUBSET (DOMAIN s) |->
                      IF x = {} THEN acc ELSE AddSymbol(it[x \ {Max(x)}], s[Max(x)])]
DeltaTable(acc, s) ==
  CHOOSE it : it = [x \in SUBSET (DOMAIN s) |->
                      IF x = {} THEN acc ELSE MergeDelta(it[x \ {Max(x)}], s[Max(x)])]
SlotTable(acc, s) ==
  CHOOSE it : it = [x \in SUBSET (DOMAIN s) |->
                      IF x = {} THEN acc ELSE ExtractCall(it[x \ {Max(x)}], s[Max(x)])]

\* The result of a fold is the last entry of the table of its partial results.
LEMMA FoldsAreTables ==
  ASSUME NEW acc, NEW s
  PROVE  /\ FoldLeft(TakeEvent, acc, s) = EventTable(acc, s)[DOMAIN s]
         /\ FoldLeft(AddSymbol, acc, s) = SymbolTable(acc, s)[DOMAIN s]
         /\ FoldLeft(MergeDelta, acc, s) = DeltaTable(acc, s)[DOMAIN s]
         /\ FoldLeft(ExtractCall, acc, s) = SlotTable(acc, s)[DOMAIN s]
<1>1. FoldLeft(TakeEvent, acc, s) = EventTable(acc, s)[DOMAIN s]
  BY SMT DEF FoldLeft, MapThenFoldSet, EventTable
<1>2. FoldLeft(AddSymbol, acc, s) = SymbolTable(acc, s)[DOMAIN s]
  BY SMT DEF FoldLeft, MapThenFoldSet, SymbolTable
<1>3. FoldLeft(MergeDelta, acc, s) = DeltaTable(acc, s)[DOMAIN s]
  BY SMT DEF FoldLeft, MapThenFoldSet, DeltaTable
<1>4. FoldLeft(ExtractCall, acc, s) = SlotTable(acc, s)[DOMAIN s]
  BY SMT DEF FoldLeft, MapThenFoldSet, SlotTable
<1>5. QED BY <1>1, <1>2, <1>3, <1>4

\* The loop over the events goes event by event.
LEMMA EventLoop ==
  ASSUME NEW acc, NEW s, NEW n \in Nat, DOMAIN s = 1 .. n
  PROVE  HasLoop("events", acc, s, n, FoldLeft(TakeEvent, acc, s))
<1> DEFINE E(it) == it = [x \in SUBSET (DOMAIN s) |->
                            IF x = {} THEN acc ELSE TakeEvent(it[x \ {Max(x)}], s[Max(x)])]
           t == EventTable(acc, s)
<1>1. \A it : IsLoopTable("events", it, acc, s, n) <=> E(it)
  BY StepIs DEF IsLoopTable, LoopNext
<1>2. t = CHOOSE it : E(it)
  BY DEF EventTable
<1> HIDE DEF E
<1>3. E(t)
  BY <1>1, <1>2, LoopTableExists
<1>4. HasLoop("events", acc, s, n, t[1 .. n])
  BY <1>1, <1>3, LoopSteps
<1>5. QED BY <1>4, FoldsAreTables, Zenon

\* The loop over the raw arguments goes symbol by symbol.
LEMMA SymbolSteps ==
  ASSUME NEW acc, NEW s, NEW n \in Nat, DOMAIN s = 1 .. n
  PROVE  HasLoop("symbols", acc, s, n, FoldLeft(AddSymbol, acc, s))
<1> DEFINE E(it) == it = [x \in SUBSET (DOMAIN s) |->
                            IF x = {} THEN acc ELSE AddSymbol(it[x \ {Max(x)}], s[Max(x)])]
           t == SymbolTable(acc, s)
<1>1. \A it : IsLoopTable("symbols", it, acc, s, n) <=> E(it)
  BY StepIs DEF IsLoopTable, LoopNext
<1>2. t = CHOOSE it : E(it)
  BY DEF SymbolTable
<1> HIDE DEF E
<1>3. E(t)
  BY <1>1, <1>2, LoopTableExists
<1>4. HasLoop("symbols", acc, s, n, t[1 .. n])
  BY <1>1, <1>3, LoopSteps
<1>5. QED BY <1>4, FoldsAreTables, Zenon

\* The loop over the deltas goes delta by delta.
LEMMA DeltaSteps ==
  ASSUME NEW acc, NEW s, NEW n \in Nat, DOMAIN s = 1 .. n
  PROVE  HasLoop("deltas", acc, s, n, FoldLeft(MergeDelta, acc, s))
<1> DEFINE E(it) == it = [x \in SUBSET (DOMAIN s) |->
                            IF x = {} THEN acc ELSE MergeDelta(it[x \ {Max(x)}], s[Max(x)])]
           t == DeltaTable(acc, s)
<1>1. \A it : IsLoopTable("deltas", it, acc, s, n) <=> E(it)
  BY StepIs DEF IsLoopTable, LoopNext
<1>2. t = CHOOSE it : E(it)
  BY DEF DeltaTable
<1> HIDE DEF E
<1>3. E(t)
  BY <1>1, <1>2, LoopTableExists
<1>4. HasLoop("deltas", acc, s, n, t[1 .. n])
  BY <1>1, <1>3, LoopSteps
<1>5. QED BY <1>4, FoldsAreTables, Zenon

\* The loop over the slots goes slot by slot.
LEMMA SlotSteps ==
  ASSUME NEW acc, NEW s, NEW n \in Nat, DOMAIN s = 1 .. n
  PROVE  HasLoop("slots", acc, s, n, FoldLeft(ExtractCall, acc, s))
<1> DEFINE E(it) == it = [x \in SUBSET (DOMAIN s) |->
                            IF x = {} THEN acc ELSE ExtractCall(it[x \ {Max(x)}], s[Max(x)])]
           t == SlotTable(acc, s)
<1>1. \A it : IsLoopTable("slots", it, acc, s, n) <=> E(it)
  BY StepIs DEF IsLoopTable, LoopNext
<1>2. t = CHOOSE it : E(it)
  BY DEF SlotTable
<1> HIDE DEF E
<1>3. E(t)
  BY <1>1, <1>2, LoopTableExists
<1>4. HasLoop("slots", acc, s, n, t[1 .. n])
  BY <1>1, <1>3, LoopSteps
<1>5. QED BY <1>4, FoldsAreTables, Zenon

\* f is the parser after each of the events, one after the other.
IsRun(f, acc, events, n) ==
  /\ f[0] = acc /\ f[n] = FoldLeft(TakeEvent, acc, events)
  /\ \A k \in 1 .. n : f[k] = TakeEvent(f[k - 1], events[k])

HasRun(acc, events, n) == \E f : IsRun(f, acc, events, n)

\* The loop over the events, with the steps written out.
LEMMA EventSteps ==
  ASSUME NEW acc, NEW events, NEW n \in Nat, DOMAIN events = 1 .. n
  PROVE  HasRun(acc, events, n)
<1> DEFINE result == FoldLeft(TakeEvent, acc, events)
<1>1. HasLoop("events", acc, events, n, result)
  BY EventLoop, Zenon
<1> HIDE DEF result
<1>2. PICK f : IsLoop("events", f, acc, events, n, result)
  BY <1>1 DEF HasLoop
<1>3. \A k \in 1 .. n : f[k] = TakeEvent(f[k - 1], events[k])
  BY <1>2, StepIs DEF IsLoop
<1>4. f[0] = acc /\ f[n] = result
  BY <1>2 DEF IsLoop
<1>5. IsRun(f, acc, events, n)
  BY <1>3, <1>4, Zenon DEF IsRun, result
<1>6. QED BY <1>5, Zenon DEF HasRun

---------------------------------------------------------------------------
(* Joined texts.                                                           *)

\* f joins the texts of ss one by one.
Joins(f, ss, A) ==
  /\ f \in [0 .. Len(ss) -> Seq(A)]
  /\ f[0] = <<>>
  /\ \A k \in 1 .. Len(ss) : f[k] = f[k - 1] \o ss[k]

\* Texts can be joined one by one.
LEMMA JoinsExist ==
  ASSUME NEW A, NEW ss \in Seq(Seq(A))
  PROVE  \E f : Joins(f, ss, A)
<1> DEFINE n == Len(ss)
           Part(k, f) == /\ f \in [0 .. k -> Seq(A)] /\ f[0] = <<>>
                         /\ \A i \in 1 .. k : f[i] = f[i - 1] \o ss[i]
           Have == {k \in Nat : k <= n => \E f : Part(k, f)}
<1>1. n \in Nat /\ \A k \in 1 .. n : ss[k] \in Seq(A)
  BY LenProperties, ElementOfSeq
<1> HIDE DEF n
<1>2. 0 \in Have
  <2>1. Part(0, [i \in 0 .. 0 |-> <<>>])
    BY EmptySeq
  <2>2. QED BY <2>1
<1>3. ASSUME NEW k \in Nat, k \in Have PROVE k + 1 \in Have
  <2> HIDE DEF Part
  <2>1. SUFFICES ASSUME k + 1 <= n PROVE \E f : Part(k + 1, f)
    OBVIOUS
  <2>2. PICK f : Part(k, f)
    BY <1>1, <1>3, <2>1
  <2> USE DEF Part
  <2> DEFINE g == [i \in 0 .. k + 1 |-> IF i = k + 1 THEN f[k] \o ss[k + 1] ELSE f[i]]
  <2>3. f[k] \in Seq(A) /\ ss[k + 1] \in Seq(A)
    BY <2>2, <1>1, <2>1
  <2>4. f[k] \o ss[k + 1] \in Seq(A)
    BY <2>3, ConcatProperties
  <2>5. g \in [0 .. k + 1 -> Seq(A)] /\ g[0] = <<>>
    BY <2>2, <2>4
  <2>6. ASSUME NEW i \in 1 .. k + 1 PROVE g[i] = g[i - 1] \o ss[i]
    <3>1. CASE i = k + 1
      <4>1. k \in 0 .. k + 1 /\ k + 1 \in 0 .. k + 1 /\ (k + 1) - 1 = k /\ k # k + 1
        OBVIOUS
      <4>2. g[k + 1] = f[k] \o ss[k + 1] /\ g[k] = f[k]
        BY <4>1
      <4>3. QED BY <3>1, <4>1, <4>2
    <3>2. CASE i # k + 1
      <4>1. i \in 1 .. k /\ i - 1 \in 0 .. k
        BY <3>2
      <4>2. g[i] = f[i] /\ g[i - 1] = f[i - 1]
        BY <4>1
      <4>3. QED BY <4>1, <4>2, <2>2
    <3>3. QED BY <3>1, <3>2
  <2> HIDE DEF g
  <2>7. QED BY <2>5, <2>6
<1>4. n \in Have
  <2> HIDE DEF Have
  <2>1. QED BY <1>1, <1>2, <1>3, NatInductionSet
<1>5. PICK f : Part(n, f)
  <2> HIDE DEF Part
  <2>1. QED BY <1>1, <1>4
<1>6. QED BY <1>5 DEF Joins, n

FlattenNext(ss, f) == [i \in 1 .. Len(ss) |-> IF i = 1 THEN ss[i] ELSE f[i - 1] \o ss[i]]

\* FlattenSeq joins them all.
LEMMA FlattenJoins ==
  ASSUME NEW A, NEW ss \in Seq(Seq(A)), NEW f, Joins(f, ss, A)
  PROVE  FlattenSeq(ss) = f[Len(ss)]
<1> DEFINE n == Len(ss)
           g == CHOOSE h : h = FlattenNext(ss, h)
           r == [i \in 1 .. n |-> f[i]]
<1>1. n \in Nat /\ \A k \in 1 .. n : ss[k] \in Seq(A)
  BY LenProperties, ElementOfSeq
<1>2. CASE n = 0
  <2>1. ss = <<>> /\ FlattenSeq(ss) = ss
    BY <1>2, EmptySeq DEF FlattenSeq
  <2>2. QED BY <2>1, <1>2 DEF Joins
<1>3. CASE n # 0
  <2>1. FlattenSeq(ss) = g[n]
    BY <1>3 DEF FlattenSeq, FlattenNext
  <2> HIDE DEF n
  <2>2. f \in [0 .. n -> Seq(A)] /\ f[0] = <<>> /\ \A k \in 1 .. n : f[k] = f[k - 1] \o ss[k]
    BY DEF Joins, n
  <2>3. r = FlattenNext(ss, r)
    <3>1. ASSUME NEW i \in 1 .. n PROVE r[i] = IF i = 1 THEN ss[i] ELSE r[i - 1] \o ss[i]
      <4>1. CASE i = 1
        <5>0. 1 \in 1 .. n /\ 1 - 1 = 0
          BY <4>1
        <5>1. f[1] = <<>> \o ss[1]
          BY <5>0, <2>2
        <5>2. <<>> \o ss[1] = ss[1]
          BY <4>1, <1>1, ConcatEmptySeq
        <5>3. QED BY <5>1, <5>2, <4>1
      <4>2. CASE i # 1
        <5>1. i - 1 \in 1 .. n
          BY <4>2, <1>1
        <5>2. QED BY <5>1, <4>2, <2>2
      <4>3. QED BY <4>1, <4>2
    <3>2. r = [i \in 1 .. n |-> r[i]]
      OBVIOUS
    <3>3. [i \in 1 .. n |-> r[i]] = [i \in 1 .. n |-> IF i = 1 THEN ss[i] ELSE r[i - 1] \o ss[i]]
      BY <3>1
    <3> HIDE DEF r
    <3>4. QED BY <3>2, <3>3, Zenon DEF FlattenNext, n
  <2> HIDE DEF r
  <2>4. g = FlattenNext(ss, g)
    BY <2>3
  <2> HIDE DEF g
  <2>5. \A i \in 1 .. n : g[i] = IF i = 1 THEN ss[i] ELSE g[i - 1] \o ss[i]
    BY <2>4 DEF FlattenNext, n
  <2> DEFINE Same == {k \in Nat : k \in 1 .. n => g[k] = f[k]}
  <2>6. 0 \in Same
    OBVIOUS
  <2>7. ASSUME NEW k \in Nat, k \in Same PROVE k + 1 \in Same
    <3>1. SUFFICES ASSUME k + 1 \in 1 .. n PROVE g[k + 1] = f[k + 1]
      OBVIOUS
    <3>2. (k + 1) - 1 = k
      OBVIOUS
    <3>3. f[k + 1] = f[k] \o ss[k + 1]
      BY <3>1, <3>2, <2>2
    <3>4. CASE k = 0
      <4>1. <<>> \o ss[1] = ss[1]
        BY <3>1, <3>4, <1>1, ConcatEmptySeq
      <4>2. g[1] = ss[1]
        BY <3>1, <3>4, <2>5
      <4>3. QED BY <4>1, <4>2, <3>3, <3>4, <2>2
    <3>5. CASE k # 0
      <4>1. k \in 1 .. n /\ k + 1 # 1
        BY <3>1, <3>5, <1>1
      <4>2. g[k] = f[k]
        BY <4>1, <2>7
      <4>3. g[k + 1] = g[k] \o ss[k + 1]
        BY <4>1, <3>1, <3>2, <2>5
      <4>4. QED BY <4>2, <4>3, <3>3
    <3>6. QED BY <3>4, <3>5
  <2>8. n \in Same
    <3> HIDE DEF Same
    <3>1. QED BY <1>1, <2>6, <2>7, NatInductionSet DEF n
  <2>9. n \in 1 .. n
    BY <1>1, <1>3 DEF n
  <2>10. QED BY <2>1, <2>8, <2>9 DEF n
<1>4. QED BY <1>2, <1>3

\* One more text is joined behind the others.
LEMMA FlattenAppend ==
  ASSUME NEW A, NEW ss \in Seq(Seq(A)), NEW s \in Seq(A)
  PROVE  /\ FlattenSeq(ss) \in Seq(A)
         /\ FlattenSeq(Append(ss, s)) = FlattenSeq(ss) \o s
<1> DEFINE tt == Append(ss, s)
           n == Len(ss)
<1>1. /\ tt \in Seq(Seq(A)) /\ Len(tt) = n + 1 /\ n \in Nat
      /\ tt[n + 1] = s /\ \A i \in 1 .. n : tt[i] = ss[i]
  BY AppendProperties, LenProperties
<1>2. PICK f : Joins(f, tt, A)
  BY <1>1, JoinsExist
<1> HIDE DEF tt
<1> DEFINE g == [i \in 0 .. n |-> f[i]]
<1>3. Joins(g, ss, A)
  <2>1. f \in [0 .. n + 1 -> Seq(A)] /\ f[0] = <<>>
    BY <1>1, <1>2 DEF Joins
  <2>2. \A k \in 1 .. n + 1 : f[k] = f[k - 1] \o tt[k]
    BY <1>1, <1>2 DEF Joins
  <2> HIDE DEF n
  <2>3. g \in [0 .. n -> Seq(A)] /\ g[0] = <<>>
    BY <1>1, <2>1
  <2>4. ASSUME NEW k \in 1 .. n PROVE g[k] = g[k - 1] \o ss[k]
    <3>1. k \in 1 .. n + 1 /\ k \in 0 .. n /\ k - 1 \in 0 .. n
      BY <1>1
    <3>2. QED BY <3>1, <2>2, <1>1
  <2> HIDE DEF g
  <2>5. QED BY <2>3, <2>4 DEF Joins, n
<1>4. FlattenSeq(ss) = f[n] /\ f[n] \in Seq(A)
  <2>1. FlattenSeq(ss) = g[n]
    BY <1>3, FlattenJoins
  <2>2. n \in 0 .. n /\ g \in [0 .. n -> Seq(A)]
    BY <1>1, <1>3 DEF Joins
  <2>3. QED BY <2>1, <2>2
<1>5. FlattenSeq(tt) = f[n + 1]
  BY <1>1, <1>2, FlattenJoins
<1>6. f[n + 1] = f[n] \o s
  <2>1. n + 1 \in 1 .. Len(tt) /\ (n + 1) - 1 = n
    BY <1>1
  <2>2. QED BY <2>1, <1>1, <1>2 DEF Joins
<1>7. QED BY <1>4, <1>5, <1>6 DEF tt

Symbols == Characters \union Parts \union Keys \union Letters

EventTypes == CallEvents \union {"TEXT_CHUNK", "REASONING_CHUNK", "REASONING_END"}

\* The events of an answer.
EventSet ==
  {e \in [type : EventTypes, value : Seq(Symbols), index : Nat] :
     /\ e.type = "TEXT_CHUNK" => e.value \in Seq(Characters)
     /\ e.type = "REASONING_CHUNK" => e.value \in Seq({"x", "nl"})
     /\ e.type = "TOOL_NAME" => e.value \in Seq(Parts)
     /\ e.type = "ARG_VALUE_CHUNK" => e.value \in Seq(Keys \union Letters)
     /\ e.type \in CallEvents => e.index # 0}

TextTypes == {"TEXT_CHUNK", "REASONING_CHUNK"}

\* What an event adds to the text of a type.
Adding(e, type) == IF e.type = type THEN e.value ELSE <<>>

\* The text of a type in some events.
Of(events, type) ==
  FlattenSeq([i \in DOMAIN events |-> IF events[i].type = type THEN events[i].value ELSE <<>>])

\* What is added is text.
LEMMA AddingFacts ==
  ASSUME NEW e \in EventSet, NEW type \in TextTypes
  PROVE  Adding(e, type) \in Seq(Characters)
<1>1. CASE e.type = type
  <2>1. e.value \in Seq(Characters)
    <3>1. {"x", "nl"} \subseteq Characters
      BY DEF Characters
    <3>2. Seq({"x", "nl"}) \subseteq Seq(Characters)
      BY <3>1, SeqMonotonic
    <3>3. QED BY <1>1, <3>2 DEF EventSet, TextTypes
  <2>2. QED BY <2>1, <1>1 DEF Adding
<1>2. CASE e.type # type
  BY <1>2, EmptySeq DEF Adding
<1>3. QED BY <1>1, <1>2

\* An event more.
LEMMA OfAppend ==
  ASSUME NEW w \in Seq(EventSet), NEW e \in EventSet, NEW type \in TextTypes
  PROVE  /\ Of(w, type) \in Seq(Characters)
         /\ Of(Append(w, e), type) = Of(w, type) \o Adding(e, type)
<1> DEFINE n == Len(w)
           v == Append(w, e)
           s == [i \in DOMAIN w |-> Adding(w[i], type)]
           t == [i \in DOMAIN v |-> Adding(v[i], type)]
           a == Adding(e, type)
<1>1. n \in Nat /\ DOMAIN w = 1 .. n /\ \A i \in 1 .. n : w[i] \in EventSet
  BY LenProperties, ElementOfSeq
<1>2. /\ v \in Seq(EventSet) /\ Len(v) = n + 1 /\ v[n + 1] = e /\ \A i \in 1 .. n : v[i] = w[i]
      /\ DOMAIN v = 1 .. n + 1
  BY AppendProperties, LenProperties
<1>3. Of(w, type) = FlattenSeq(s) /\ Of(v, type) = FlattenSeq(t)
  BY DEF Of, Adding
<1>4. a \in Seq(Characters) /\ \A i \in 1 .. n : Adding(w[i], type) \in Seq(Characters)
  BY <1>1, AddingFacts
<1> HIDE DEF n, v
<1>5. s \in Seq(Seq(Characters)) /\ Len(s) = n
  <2>1. s \in [1 .. n -> Seq(Characters)]
    BY <1>1, <1>4
  <2>2. QED BY <2>1, <1>1, IsASeq
<1>6. t = Append(s, a)
  <2>1. Append(s, a) \in Seq(Seq(Characters)) /\ Len(Append(s, a)) = n + 1
        /\ Append(s, a)[n + 1] = a /\ \A i \in 1 .. n : Append(s, a)[i] = s[i]
    BY <1>4, <1>5, AppendProperties
  <2>2. t \in Seq(Seq(Characters)) /\ Len(t) = n + 1
    <3>1. \A i \in 1 .. n + 1 : v[i] \in EventSet
      BY <1>2, ElementOfSeq
    <3>2. \A i \in 1 .. n + 1 : Adding(v[i], type) \in Seq(Characters)
      BY <3>1, AddingFacts
    <3>3. t \in [1 .. n + 1 -> Seq(Characters)] /\ n + 1 \in Nat
      BY <3>2, <1>1, <1>2
    <3>4. QED BY <3>3, IsASeq
  <2>3. ASSUME NEW i \in 1 .. n + 1 PROVE t[i] = Append(s, a)[i]
    <3>1. t[i] = Adding(v[i], type)
      BY <1>2
    <3>2. CASE i = n + 1
      BY <3>1, <3>2, <2>1, <1>2
    <3>3. CASE i # n + 1
      <4>1. i \in 1 .. n
        BY <3>3, <1>1
      <4>2. QED BY <4>1, <3>1, <2>1, <1>1, <1>2
    <3>4. QED BY <3>2, <3>3
  <2> HIDE DEF s, t, a
  <2>4. QED BY <2>1, <2>2, <2>3, SeqEqual
<1> HIDE DEF s, t, a
<1>7. FlattenSeq(s) \in Seq(Characters) /\ FlattenSeq(Append(s, a)) = FlattenSeq(s) \o a
  BY <1>4, <1>5, FlattenAppend
<1>8. QED BY <1>3, <1>6, <1>7 DEF v, a

\* No events, no text.
LEMMA OfNothing == ASSUME NEW type PROVE Of(<<>>, type) = <<>>
  <1>1. DOMAIN <<>> = {} /\ Len(<<>>) = 0
    BY EmptySeq
  <1> DEFINE s == [i \in DOMAIN <<>> |-> IF <<>>[i].type = type THEN <<>>[i].value ELSE <<>>]
  <1>2. s = <<>>
    BY <1>1
  <1>3. FlattenSeq(<<>>) = <<>>
    BY <1>1 DEF FlattenSeq
  <1> HIDE DEF s
  <1>4. Of(<<>>, type) = FlattenSeq(s)
    BY DEF Of, s
  <1>5. QED BY <1>2, <1>3, <1>4

\* A sequence, and the first i elements of another behind it.
LEMMA PrefixGrows ==
  ASSUME NEW A, NEW u \in Seq(A), NEW v \in Seq(A), NEW i \in 1 .. Len(v)
  PROVE  /\ u \o SubSeq(v, 1, i) = Append(u \o SubSeq(v, 1, i - 1), v[i])
         /\ u \o SubSeq(v, 1, i - 1) \in Seq(A)
         /\ Len(u \o SubSeq(v, 1, i - 1)) = Len(u) + (i - 1)
         /\ v[i] \in A
<1> DEFINE p == SubSeq(v, 1, i - 1)
           q == SubSeq(v, 1, i)
           e == v[i]
<1>1. Len(v) \in Nat /\ i \in Nat /\ i <= Len(v) /\ i - 1 \in 0 .. Len(v) /\ 1 \in 1 .. Len(v)
      /\ i \in 1 .. Len(v) /\ e \in A
  BY LenProperties, ElementOfSeq
<1>2. p \in Seq(A) /\ Len(p) = i - 1
  BY <1>1, CutInTwo
<1>3. q = p \o <<e>>
  BY <1>1, SubSeqRecursiveSecond
<1> HIDE DEF p, q, e
<1>4. <<e>> \in Seq(A)
  BY <1>1
<1>5. u \o (p \o <<e>>) = (u \o p) \o <<e>>
  BY <1>2, <1>4, ConcatAssociative, SMTT(30)
<1>6. u \o p \in Seq(A) /\ Len(u \o p) = Len(u) + Len(p)
  BY <1>2, ConcatProperties
<1>7. Append(u \o p, e) = (u \o p) \o <<e>>
  BY <1>1, <1>6, AppendIsConcat
<1>8. QED BY <1>1, <1>2, <1>3, <1>5, <1>6, <1>7 DEF p, q, e

\* The text of the events of two lists.
LEMMA OfConcat ==
  ASSUME NEW u \in Seq(EventSet), NEW w \in Seq(EventSet), NEW type \in TextTypes
  PROVE  /\ Of(u, type) \in Seq(Characters) /\ Of(w, type) \in Seq(Characters)
         /\ Of(u \o w, type) = Of(u, type) \o Of(w, type)
<1> DEFINE n == Len(w)
           p(k) == SubSeq(w, 1, k)
           Good == {k \in Nat : k <= n =>
                      Of(u \o p(k), type) = Of(u, type) \o Of(p(k), type)}
<1>1. n \in Nat
  BY LenProperties
<1>2. \A v \in Seq(EventSet) : Of(v, type) \in Seq(Characters)
  <2>1. ASSUME NEW v \in Seq(EventSet) PROVE Of(v, type) \in Seq(Characters)
    <3>1. CASE v = <<>>
      BY <3>1, OfNothing, EmptySeq
    <3>2. CASE v # <<>>
      <4>1. Len(v) \in Nat /\ Len(v) # 0 /\ v[1] \in EventSet
        <5>1. Len(v) \in Nat /\ Len(v) # 0
          BY <3>2, LenProperties, EmptySeq
        <5>2. 1 \in 1 .. Len(v)
          BY <5>1
        <5>3. QED BY <5>1, <5>2, ElementOfSeq
      <4>2. QED BY <4>1, OfAppend
    <3>3. QED BY <3>1, <3>2
  <2>2. QED BY <2>1
<1>3. 0 \in Good
  <2>1. p(0) = <<>> /\ u \o <<>> = u /\ Of(<<>>, type) = <<>>
    BY SubSeqEmpty, ConcatEmptySeq, OfNothing
  <2>2. Of(u, type) \o <<>> = Of(u, type)
    BY <1>2, ConcatEmptySeq
  <2>3. QED BY <2>1, <2>2
<1>4. ASSUME NEW k \in Nat, k \in Good PROVE k + 1 \in Good
  <2>1. SUFFICES ASSUME k + 1 <= n
                 PROVE  Of(u \o p(k + 1), type) = Of(u, type) \o Of(p(k + 1), type)
    OBVIOUS
  <2> DEFINE e == w[k + 1]
             j == k + 1
             a == Adding(e, type)
  <2>2. j \in 1 .. Len(w) /\ j - 1 = k /\ <<>> \in Seq(EventSet)
    BY <2>1, <1>1, EmptySeq
  <2>3. /\ u \o p(j) = Append(u \o p(k), e) /\ u \o p(k) \in Seq(EventSet) /\ e \in EventSet
    <3> HIDE DEF j
    <3>1. /\ u \o SubSeq(w, 1, j) = Append(u \o SubSeq(w, 1, j - 1), w[j])
          /\ u \o SubSeq(w, 1, j - 1) \in Seq(EventSet) /\ w[j] \in EventSet
      BY <2>2, PrefixGrows
    <3>2. e = w[j]
      BY DEF j
    <3>3. QED BY <3>1, <3>2, <2>2
  <2>4. p(j) = Append(p(k), e) /\ p(k) \in Seq(EventSet)
    <3> HIDE DEF j
    <3>1. /\ SubSeq(w, 1, j - 1) \in Seq(EventSet) /\ SubSeq(w, 1, j) \in Seq(EventSet)
      <4>1. j \in 0 .. Len(w) /\ j - 1 \in 0 .. Len(w)
        BY <2>2, <1>1
      <4>2. QED BY <4>1, CutInTwo
    <3>2. <<>> \o SubSeq(w, 1, j) = Append(<<>> \o SubSeq(w, 1, j - 1), w[j])
      BY <2>2, PrefixGrows
    <3>3. /\ <<>> \o SubSeq(w, 1, j) = SubSeq(w, 1, j)
          /\ <<>> \o SubSeq(w, 1, j - 1) = SubSeq(w, 1, j - 1)
      BY <3>1, ConcatEmptySeq
    <3>4. e = w[j]
      BY DEF j
    <3>5. QED BY <3>1, <3>2, <3>3, <3>4, <2>2
  <2> DEFINE q == p(k)
             r == u \o q
  <2> HIDE DEF j, e, a, q, r, p
  <2>5. Of(Append(r, e), type) = Of(r, type) \o a /\ Of(Append(q, e), type) = Of(q, type) \o a
    BY <2>3, <2>4, OfAppend DEF a, q, r
  <2>6. Of(r, type) = Of(u, type) \o Of(q, type)
    BY <2>1, <1>1, <1>4 DEF q, r
  <2>7. a \in Seq(Characters) /\ Of(u, type) \in Seq(Characters) /\ Of(q, type) \in Seq(Characters)
    BY <2>3, <2>4, <1>2, AddingFacts DEF a, q
  <2> DEFINE x == Of(u, type)
             y == Of(q, type)
  <2> HIDE DEF x, y
  <2>8. (x \o y) \o a = x \o (y \o a)
    <3>1. \A b, c, d \in Seq(Characters) : (b \o c) \o d = b \o (c \o d)
      BY ConcatAssociative, SMTT(30)
    <3>2. QED BY <3>1, <2>7 DEF x, y
  <2>9. Of(u \o p(j), type) = Of(u, type) \o Of(p(j), type)
    BY <2>3, <2>4, <2>5, <2>6, <2>8, Zenon DEF q, r, x, y
  <2>10. QED BY <2>9 DEF j
<1>5. n \in Good
  <2> HIDE DEF Good
  <2>1. QED BY <1>1, <1>3, <1>4, NatInductionSet
<1>6. p(n) = w
  BY SubSeqFull
<1>7. Of(u \o w, type) = Of(u, type) \o Of(w, type)
  <2> HIDE DEF p, n
  <2>1. QED BY <1>1, <1>5, <1>6
<1>8. QED BY <1>2, <1>7

---------------------------------------------------------------------------
(* White space at the ends of a text.                                      *)

White == {"nl", "sp"}

Texts == Seq(Characters)

\* rest is what is left of a text without the characters of N in front.
Fronted(N, text, rest) ==
  /\ rest \in Texts
  /\ \E b \in Seq(N) : text = b \o rest
  /\ rest = <<>> \/ rest[1] \notin N

\* rest is what is left of a text without the white space at its end.
Ended(text, rest) ==
  /\ rest \in Texts
  /\ \E b \in Seq(White) : text = rest \o b
  /\ rest = <<>> \/ rest[Len(rest)] \notin White

\* Some white space is a set of characters.
LEMMA WhiteFacts ==
  /\ {"nl"} \subseteq Characters /\ White \subseteq Characters
  /\ {"nl"} \subseteq White /\ {"x", "nl"} \subseteq Characters
  /\ \A c \in Characters : (c # "nl" <=> c \notin {"nl"}) /\ (~Blank(c) <=> c \notin White)
  /\ Seq({"nl"}) \subseteq Texts /\ Seq(White) \subseteq Texts /\ Seq({"nl"}) \subseteq Seq(White)
<1>1. /\ {"nl"} \subseteq Characters /\ White \subseteq Characters
      /\ {"nl"} \subseteq White /\ {"x", "nl"} \subseteq Characters
  BY DEF Characters, White
<1>2. \A c \in Characters : (c # "nl" <=> c \notin {"nl"}) /\ (~Blank(c) <=> c \notin White)
  BY DEF Characters, White, Blank
<1>3. Seq({"nl"}) \subseteq Texts /\ Seq(White) \subseteq Texts /\ Seq({"nl"}) \subseteq Seq(White)
  BY <1>1, SeqMonotonic DEF Texts
<1>4. QED BY <1>1, <1>2, <1>3

\* The elements of a sequence are those of its parts.
LEMMA JoinedAt ==
  ASSUME NEW A, NEW s \in Seq(A), NEW t \in Seq(A)
  PROVE  /\ s \o t \in Seq(A) /\ Len(s \o t) = Len(s) + Len(t)
         /\ Len(s) \in Nat /\ Len(t) \in Nat
         /\ \A i \in 1 .. Len(s) : (s \o t)[i] = s[i] /\ s[i] \in A
         /\ \A i \in 1 .. Len(t) : (s \o t)[Len(s) + i] = t[i] /\ t[i] \in A
<1> DEFINE n == Len(s)
           m == Len(t)
           c == s \o t
<1>1. c \in Seq(A) /\ Len(c) = n + m /\ n \in Nat /\ m \in Nat
  BY ConcatProperties, LenProperties
<1>2. \A i \in 1 .. n + m : c[i] = IF i <= n THEN s[i] ELSE t[i - n]
  BY ConcatProperties
<1>3. (\A i \in 1 .. n : s[i] \in A) /\ (\A i \in 1 .. m : t[i] \in A)
  BY ElementOfSeq
<1> HIDE DEF n, m, c
<1>4. \A i \in 1 .. n : c[i] = s[i]
  BY <1>1, <1>2
<1>5. ASSUME NEW i \in 1 .. m PROVE c[n + i] = t[i]
  <2>1. n + i \in 1 .. n + m /\ ~(n + i <= n) /\ (n + i) - n = i
    BY <1>1
  <2>2. QED BY <2>1, <1>2
<1>6. QED BY <1>1, <1>3, <1>4, <1>5 DEF n, m, c

\* What follows as many elements of one sequence is the same.
LEMMA SameRest ==
  ASSUME NEW A, NEW a \in Seq(A), NEW b \in Seq(A), NEW s \in Seq(A), NEW t \in Seq(A),
         a \o s = b \o t, Len(a) = Len(b)
  PROVE  a = b /\ s = t
<1> DEFINE n == Len(a)
           m == Len(s)
           c == a \o s
           d == b \o t
<1>1. /\ n \in Nat /\ m \in Nat /\ Len(t) \in Nat /\ Len(b) = n
      /\ Len(c) = n + m /\ Len(d) = n + Len(t)
      /\ \A i \in 1 .. n : c[i] = a[i] /\ d[i] = b[i]
      /\ \A i \in 1 .. m : c[n + i] = s[i]
      /\ \A i \in 1 .. Len(t) : d[n + i] = t[i]
  <2>0. ASSUME NEW p \in Seq(A), NEW q \in Seq(A)
        PROVE  /\ Len(p) \in Nat /\ Len(q) \in Nat /\ Len(p \o q) = Len(p) + Len(q)
               /\ \A i \in 1 .. Len(p) : (p \o q)[i] = p[i]
               /\ \A i \in 1 .. Len(q) : (p \o q)[Len(p) + i] = q[i]
    BY JoinedAt
  <2>1. /\ Len(a) \in Nat /\ Len(s) \in Nat /\ Len(a \o s) = Len(a) + Len(s)
        /\ \A i \in 1 .. Len(a) : (a \o s)[i] = a[i]
        /\ \A i \in 1 .. Len(s) : (a \o s)[Len(a) + i] = s[i]
    BY <2>0
  <2>2. /\ Len(t) \in Nat /\ Len(b \o t) = Len(b) + Len(t)
        /\ \A i \in 1 .. Len(b) : (b \o t)[i] = b[i]
        /\ \A i \in 1 .. Len(t) : (b \o t)[Len(b) + i] = t[i]
    BY <2>0
  <2> HIDE DEF c, d, m, n
  <2>3. Len(b) = n
    BY DEF n
  <2>4. QED BY <2>1, <2>2, <2>3 DEF c, d, n, m
<1>2. c = d
  OBVIOUS
<1> HIDE DEF c, d, n, m
<1>3. Len(t) = m
  BY <1>1, <1>2
<1>4. a = b
  BY <1>1, <1>2, SeqEqual DEF n
<1>5. s = t
  BY <1>1, <1>2, <1>3, SeqEqual DEF m
<1>6. QED BY <1>4, <1>5

\* b followed by r is the text.  The operator keeps the equation whole where it is cited.
CutsTo(b, r, text) == text = b \o r

\* SameRest for two ways to cut one text.
LEMMA SameCut ==
  ASSUME NEW a \in Texts, NEW b \in Texts, NEW s \in Texts, NEW t \in Texts, NEW text,
         CutsTo(a, s, text), CutsTo(b, t, text), Len(a) = Len(b)
  PROVE  a = b /\ s = t
<1>1. a \o s = b \o t
  BY DEF CutsTo
<1>2. QED BY <1>1, SameRest DEF Texts

\* There is one rest.
LEMMA FrontedOnce ==
  ASSUME NEW N, N \subseteq Characters, NEW text, NEW r, NEW s,
         Fronted(N, text, r), Fronted(N, text, s)
  PROVE  r = s
<1>1. PICK a \in Seq(N) : text = a \o r
  BY DEF Fronted
<1>2. PICK b \in Seq(N) : text = b \o s
  BY DEF Fronted
<1>3. Seq(N) \subseteq Texts
  BY SeqMonotonic DEF Texts
<1>4. a \in Texts /\ b \in Texts /\ r \in Texts /\ s \in Texts
  BY <1>3 DEF Fronted
<1>5. ASSUME NEW p \in Texts, NEW q \in Texts, NEW c \in Seq(N), NEW d \in Seq(N),
             c \o p = d \o q, p = <<>> \/ p[1] \notin N
      PROVE  ~(Len(c) < Len(d))
  <2>1. SUFFICES ASSUME Len(c) < Len(d) PROVE FALSE
    OBVIOUS
  <2>2. c \in Texts /\ d \in Texts
    BY <1>3
  <2> DEFINE n == Len(c)
             m == Len(d)
             e == c \o p
  <2>3. /\ n \in Nat /\ m \in Nat /\ Len(p) \in Nat /\ Len(q) \in Nat
        /\ Len(e) = n + Len(p) /\ Len(e) = m + Len(q)
        /\ \A i \in 1 .. m : e[i] = d[i]
        /\ \A i \in 1 .. Len(p) : e[n + i] = p[i]
    <3>1. /\ Len(c \o p) = n + Len(p) /\ n \in Nat /\ Len(p) \in Nat
          /\ \A i \in 1 .. Len(p) : (c \o p)[n + i] = p[i]
      BY <2>2, JoinedAt DEF Texts
    <3>2. /\ Len(d \o q) = m + Len(q) /\ m \in Nat /\ Len(q) \in Nat
          /\ \A i \in 1 .. m : (d \o q)[i] = d[i]
      BY <2>2, JoinedAt DEF Texts
    <3>3. d \o q = e
      BY <1>5
    <3> HIDE DEF e, n, m
    <3>4. QED BY <3>1, <3>2, <3>3 DEF e
  <2>4. \A i \in 1 .. m : d[i] \in N
    BY ElementOfSeq
  <2> HIDE DEF n, m, e
  <2>5. n + 1 \in 1 .. m /\ 1 \in 1 .. Len(p)
    BY <2>1, <2>3 DEF n, m
  <2>6. p[1] \in N
    BY <2>3, <2>4, <2>5
  <2>7. p # <<>>
    BY <2>5, <2>2, EmptySeq DEF Texts
  <2>8. QED BY <2>6, <2>7, <1>5
<1>6. ~(Len(a) < Len(b)) /\ ~(Len(b) < Len(a))
  BY <1>1, <1>2, <1>4, <1>5 DEF Fronted
<1>7. Len(a) \in Nat /\ Len(b) \in Nat
  BY LenProperties
<1>8. Len(a) = Len(b)
  BY <1>6, <1>7
<1>9. CutsTo(a, r, text) /\ CutsTo(b, s, text)
  BY <1>1, <1>2 DEF CutsTo
<1>10. QED BY <1>4, <1>8, <1>9, SameCut

\* And one beginning.
LEMMA EndedOnce ==
  ASSUME NEW text, NEW r, NEW s, Ended(text, r), Ended(text, s)
  PROVE  r = s
<1>1. PICK a \in Seq(White) : text = r \o a
  BY DEF Ended
<1>2. PICK b \in Seq(White) : text = s \o b
  BY DEF Ended
<1>3. a \in Texts /\ b \in Texts /\ r \in Texts /\ s \in Texts
  BY WhiteFacts DEF Ended
<1>4. ASSUME NEW p \in Texts, NEW q \in Texts, NEW c \in Seq(White), NEW d \in Seq(White),
             p \o c = q \o d, q = <<>> \/ q[Len(q)] \notin White
      PROVE  ~(Len(p) < Len(q))
  <2>1. SUFFICES ASSUME Len(p) < Len(q) PROVE FALSE
    OBVIOUS
  <2>2. c \in Texts /\ d \in Texts
    BY WhiteFacts
  <2> DEFINE n == Len(p)
             m == Len(q)
             e == p \o c
  <2>3. /\ n \in Nat /\ m \in Nat /\ Len(c) \in Nat /\ Len(d) \in Nat
        /\ Len(e) = n + Len(c) /\ Len(e) = m + Len(d)
        /\ \A i \in 1 .. m : e[i] = q[i]
        /\ \A i \in 1 .. Len(c) : e[n + i] = c[i]
    <3>1. /\ Len(p \o c) = n + Len(c) /\ n \in Nat /\ Len(c) \in Nat
          /\ \A i \in 1 .. Len(c) : (p \o c)[n + i] = c[i]
      BY <2>2, JoinedAt DEF Texts
    <3>2. /\ Len(q \o d) = m + Len(d) /\ m \in Nat /\ Len(d) \in Nat
          /\ \A i \in 1 .. m : (q \o d)[i] = q[i]
      BY <2>2, JoinedAt DEF Texts
    <3>3. q \o d = e
      BY <1>4
    <3> HIDE DEF e, n, m
    <3>4. QED BY <3>1, <3>2, <3>3 DEF e
  <2>4. \A i \in 1 .. Len(c) : c[i] \in White
    BY ElementOfSeq
  <2> HIDE DEF n, m, e
  <2>5. m \in 1 .. m /\ m - n \in 1 .. Len(c) /\ n + (m - n) = m
    BY <2>1, <2>3 DEF n, m
  <2>6. q[m] \in White
    <3> DEFINE i == m - n
    <3>1. i \in 1 .. Len(c) /\ n + i = m
      BY <2>5
    <3> HIDE DEF i
    <3>2. e[n + i] = c[i] /\ e[m] = q[m]
      BY <3>1, <2>3, <2>5
    <3>3. QED BY <3>1, <3>2, <2>4
  <2>7. q # <<>>
    BY <2>5, <2>2, EmptySeq DEF Texts, m
  <2>8. QED BY <2>6, <2>7, <1>4 DEF m
<1>5. ~(Len(r) < Len(s)) /\ ~(Len(s) < Len(r))
  BY <1>1, <1>2, <1>3, <1>4 DEF Ended
<1>6. Len(r) \in Nat /\ Len(s) \in Nat
  BY <1>3, LenProperties DEF Texts
<1>7. Len(r) = Len(s)
  BY <1>5, <1>6
<1>8. QED BY <1>1, <1>2, <1>3, <1>7, SameRest DEF Texts

\* An index set has a least and a greatest element.
LEMMA Ends ==
  ASSUME NEW n \in Nat, NEW I \in SUBSET (1 .. n), I # {}
  PROVE  /\ Min(I) \in I /\ \A x \in I : Min(I) <= x
         /\ Max(I) \in I /\ \A x \in I : x <= Max(I)
<1>1. IsFiniteSet(1 .. n)
  BY FS_Interval
<1>2. IsFiniteSet(I) /\ I \in SUBSET Int
  <2>1. IsFiniteSet(I)
    BY <1>1, FS_Subset
  <2>2. I \in SUBSET Int
    OBVIOUS
  <2>3. QED BY <2>1, <2>2
<1>3. QED BY <1>2, MinOfInts, MaxOfInts

\* A sequence is told to be over a smaller set by its elements.
LEMMA SeqOver ==
  ASSUME NEW A, NEW B, NEW s \in Seq(A), \A i \in 1 .. Len(s) : s[i] \in B
  PROVE  s \in Seq(B)
<1>1. Len(s) \in Nat /\ s \in [1 .. Len(s) -> A]
  BY LenProperties
<1>2. s \in [1 .. Len(s) -> B]
  BY <1>1
<1>3. QED BY <1>1, <1>2, SeqDef

\* A text from its first character that is not of N.
LEMMA FromIsFronted ==
  ASSUME NEW N, NEW text \in Texts, NEW k,
         k = LET I == {j \in 1 .. Len(text) : text[j] \notin N}
             IN  IF I # {} THEN Min(I) ELSE 0
  PROVE  Fronted(N, text, From(text, k))
<1> DEFINE I == {j \in 1 .. Len(text) : text[j] \notin N}
<1>1. Len(text) \in Nat /\ text \in Seq(Characters)
  BY LenProperties DEF Texts
<1>2. CASE I = {}
  <2>1. \A j \in 1 .. Len(text) : text[j] \in N
    BY <1>2
  <2>2. text \in Seq(N)
    BY <2>1, <1>1, SeqOver
  <2>3. From(text, k) = <<>>
    BY <1>2 DEF From
  <2>4. text = text \o <<>> /\ <<>> \in Texts
    BY <1>1, ConcatEmptySeq, EmptySeq DEF Texts
  <2>5. QED BY <2>2, <2>3, <2>4 DEF Fronted
<1>3. CASE I # {}
  <2>1. k = Min(I)
    BY <1>3
  <2> HIDE DEF I
  <2>2. k \in I /\ \A j \in I : k <= j
    BY <1>1, <1>3, <2>1, Ends DEF I
  <2> DEFINE n == Len(text)
             m == k - 1
             b == SubSeq(text, 1, m)
             r == SubSeq(text, k, n)
  <2>3. k \in 1 .. n /\ text[k] \notin N /\ m \in 0 .. n /\ m + 1 = k
        /\ \A j \in 1 .. m : text[j] \in N
    <3>1. k \in 1 .. n /\ text[k] \notin N /\ \A j \in 1 .. n : text[j] \notin N => k <= j
      BY <2>2 DEF I
    <3> HIDE DEF n
    <3>2. n \in Nat
      BY <1>1 DEF n
    <3>3. \A j \in 1 .. m : j \in 1 .. n /\ ~(k <= j)
      BY <3>1, <3>2
    <3>4. m \in 0 .. n /\ m + 1 = k
      BY <3>1, <3>2
    <3>5. QED BY <3>1, <3>3, <3>4
  <2> HIDE DEF m
  <2>4. /\ b \in Seq(Characters) /\ r \in Seq(Characters) /\ Len(b) = m /\ Len(r) = n - m
        /\ \A i \in 1 .. m : b[i] = text[i]
        /\ \A i \in 1 .. n - m : r[i] = text[m + i]
        /\ text = b \o r
    <3>1. r = SubSeq(text, m + 1, n)
      BY <2>3
    <3> HIDE DEF r
    <3>2. /\ SubSeq(text, 1, m) \in Seq(Characters) /\ SubSeq(text, m + 1, Len(text)) \in Seq(Characters)
          /\ Len(SubSeq(text, 1, m)) = m /\ Len(SubSeq(text, m + 1, Len(text))) = Len(text) - m
          /\ \A i \in 1 .. m : SubSeq(text, 1, m)[i] = text[i]
          /\ \A i \in 1 .. Len(text) - m : SubSeq(text, m + 1, Len(text))[i] = text[m + i]
          /\ text = SubSeq(text, 1, m) \o SubSeq(text, m + 1, Len(text))
      BY <1>1, <2>3, CutInTwo
    <3>3. QED BY <3>1, <3>2
  <2>5. b \in Seq(N)
    <3> HIDE DEF b, r
    <3>1. \A i \in 1 .. Len(b) : b[i] \in N
      BY <2>3, <2>4
    <3>2. QED BY <2>4, <3>1, SeqOver
  <2>6. r[1] \notin N
    <3>1. 1 \in 1 .. n - m
      BY <2>3, <1>1
    <3> HIDE DEF b, r, n
    <3>2. QED BY <3>1, <2>3, <2>4
  <2>7. From(text, k) = r
    <3>1. k # 0
      BY <2>3
    <3>2. QED BY <3>1 DEF From
  <2>8. QED BY <2>4, <2>5, <2>6, <2>7 DEF Fronted, Texts
<1>4. QED BY <1>2, <1>3

\* lstrip("\r\n") and what a text has from its first visible character.
LEMMA NewlinesFronted ==
  ASSUME NEW text \in Texts
  PROVE  Fronted({"nl"}, text, StripNewlines(text))
<1> DEFINE I == {j \in 1 .. Len(text) : text[j] # "nl"}
           J == {j \in 1 .. Len(text) : text[j] \notin {"nl"}}
           k == IF I # {} THEN Min(I) ELSE 0
<1>1. StripNewlines(text) = From(text, k)
  BY DEF StripNewlines, SelectInSeq
<1>2. I = J
  OBVIOUS
<1>3. k = IF J # {} THEN Min(J) ELSE 0
  BY <1>2
<1> HIDE DEF k, I
<1>4. Fronted({"nl"}, text, From(text, k))
  BY <1>3, FromIsFronted
<1>5. QED BY <1>1, <1>4

\* The same of the visible text.
LEMMA VisibleFronted ==
  ASSUME NEW text \in Texts
  PROVE  Fronted(White, text, FromVisible(text))
<1> DEFINE I == {j \in 1 .. Len(text) : ~Blank(text[j])}
           J == {j \in 1 .. Len(text) : text[j] \notin White}
           k == IF I # {} THEN Min(I) ELSE 0
<1>1. FromVisible(text) = From(text, k)
  BY DEF FromVisible, SelectInSeq
<1>2. I = J
  BY DEF Blank, White
<1>3. k = IF J # {} THEN Min(J) ELSE 0
  BY <1>2
<1> HIDE DEF k, I
<1>4. Fronted(White, text, From(text, k))
  BY <1>3, FromIsFronted
<1>5. QED BY <1>1, <1>4

\* rstrip(), and the white space it takes away.
LEMMA StripEndEnded ==
  ASSUME NEW text \in Texts
  PROVE  /\ Ended(text, StripEnd(text))
         /\ From(text, Len(StripEnd(text)) + 1) \in Seq(White)
         /\ text = StripEnd(text) \o From(text, Len(StripEnd(text)) + 1)
<1> DEFINE I == {j \in 1 .. Len(text) : ~Blank(text[j])}
           n == Len(text)
           k == IF I # {} THEN Max(I) ELSE 0
           p == SubSeq(text, 1, k)
           b == SubSeq(text, k + 1, n)
<1>1. n \in Nat /\ text \in Seq(Characters)
  BY LenProperties DEF Texts
<1>2. StripEnd(text) = p
  BY DEF StripEnd, SelectLastInSeq
<1>3. k \in 0 .. n /\ (k # 0 => text[k] \notin White) /\ \A j \in k + 1 .. n : text[j] \in White
  <2>1. CASE I = {}
    <3>1. \A j \in 1 .. n : Blank(text[j])
      BY <2>1
    <3>2. k = 0
      BY <2>1
    <3>3. QED BY <3>1, <3>2, <1>1 DEF Blank, White
  <2>2. CASE I # {}
    <3>1. k = Max(I)
      BY <2>2
    <3>2. I \in SUBSET (1 .. n)
      OBVIOUS
    <3> HIDE DEF I, k
    <3>3. k \in I /\ \A j \in I : j <= k
      BY <1>1, <2>2, <3>1, <3>2, Ends
    <3>4. k \in 1 .. n /\ ~Blank(text[k]) /\ \A j \in 1 .. n : ~Blank(text[j]) => j <= k
      BY <3>3 DEF I
    <3>5. \A j \in k + 1 .. n : j \in 1 .. n /\ ~(j <= k)
      BY <3>4, <1>1
    <3>6. QED BY <3>4, <3>5 DEF Blank, White
  <2>3. QED BY <2>1, <2>2
<1> HIDE DEF k
<1>4. /\ p \in Seq(Characters) /\ b \in Seq(Characters) /\ Len(p) = k /\ Len(b) = n - k
      /\ \A i \in 1 .. k : p[i] = text[i]
      /\ \A i \in 1 .. n - k : b[i] = text[k + i]
      /\ text = p \o b
  <2>1. /\ SubSeq(text, 1, k) \in Seq(Characters) /\ SubSeq(text, k + 1, Len(text)) \in Seq(Characters)
        /\ Len(SubSeq(text, 1, k)) = k /\ Len(SubSeq(text, k + 1, Len(text))) = Len(text) - k
        /\ \A i \in 1 .. k : SubSeq(text, 1, k)[i] = text[i]
        /\ \A i \in 1 .. Len(text) - k : SubSeq(text, k + 1, Len(text))[i] = text[k + i]
        /\ text = SubSeq(text, 1, k) \o SubSeq(text, k + 1, Len(text))
    BY <1>1, <1>3, CutInTwo
  <2>2. QED BY <2>1
<1>5. From(text, Len(StripEnd(text)) + 1) = b
  <2>1. Len(StripEnd(text)) = k
    BY <1>2, <1>4
  <2>2. k + 1 # 0
    BY <1>3
  <2>3. QED BY <2>1, <2>2 DEF From
<1> HIDE DEF p, b
<1>6. \A i \in 1 .. Len(b) : b[i] \in White
  <2>1. \A i \in 1 .. n - k : k + i \in k + 1 .. n
    BY <1>1, <1>3
  <2>2. QED BY <2>1, <1>3, <1>4
<1>7. b \in Seq(White)
  BY <1>4, <1>6, SeqOver
<1>8. p = <<>> \/ p[Len(p)] \notin White
  <2>1. CASE k = 0
    BY <2>1, <1>4, EmptySeq
  <2>2. CASE k # 0
    <3>1. k \in 1 .. k
      BY <2>2, <1>3
    <3>2. QED BY <2>2, <3>1, <1>3, <1>4
  <2>3. QED BY <2>1, <2>2
<1>9. QED BY <1>2, <1>4, <1>5, <1>7, <1>8 DEF Ended, Texts

\* A text that goes on keeps its rest, unless it had none.
LEMMA FrontedKeeps ==
  ASSUME NEW N, N \subseteq Characters, NEW text, NEW rest, Fronted(N, text, rest),
         rest # <<>>, NEW t \in Texts
  PROVE  Fronted(N, text \o t, rest \o t)
<1>1. PICK b \in Seq(N) : text = b \o rest
  BY DEF Fronted
<1>2. b \in Seq(Characters) /\ rest \in Seq(Characters) /\ t \in Seq(Characters)
  BY SeqMonotonic DEF Fronted, Texts
<1>3. text \o t = b \o (rest \o t)
  BY <1>1, <1>2, ConcatAssociative, SMTT(30)
<1>4. /\ rest \o t \in Seq(Characters)
      /\ \A i \in 1 .. Len(rest) : (rest \o t)[i] = rest[i]
  BY <1>2, JoinedAt
<1>5. 1 \in 1 .. Len(rest)
  BY <1>2, EmptySeq, LenProperties
<1>6. (rest \o t)[1] = rest[1]
  BY <1>4, <1>5
<1>7. rest[1] \notin N
  BY DEF Fronted
<1>8. QED BY <1>1, <1>3, <1>4, <1>6, <1>7 DEF Fronted, Texts

\* What is taken away later may as well be taken away at once.
LEMMA FrontedAgain ==
  ASSUME NEW N, NEW M, N \subseteq M, M \subseteq Characters,
         NEW text, NEW rest, Fronted(N, text, rest),
         NEW t \in Texts, NEW r, Fronted(M, rest \o t, r)
  PROVE  Fronted(M, text \o t, r)
<1>1. PICK b \in Seq(N) : text = b \o rest
  BY DEF Fronted
<1>2. PICK c \in Seq(M) : rest \o t = c \o r
  BY DEF Fronted
<1>3. b \in Seq(M)
  BY SeqMonotonic
<1>4. /\ b \in Seq(Characters) /\ c \in Seq(Characters)
      /\ rest \in Seq(Characters) /\ t \in Seq(Characters) /\ r \in Seq(Characters)
  BY <1>3, SeqMonotonic DEF Fronted, Texts
<1>5. text \o t = b \o (rest \o t)
  BY <1>1, <1>4, ConcatAssociative, SMTT(30)
<1>6. b \o (c \o r) = (b \o c) \o r
  BY <1>4, ConcatAssociative, SMTT(30)
<1>7. b \o c \in Seq(M)
  BY <1>3, ConcatProperties
<1>8. text \o t = (b \o c) \o r
  BY <1>2, <1>5, <1>6
<1>9. QED BY <1>7, <1>8 DEF Fronted

\* Nothing is left of a text of such characters, and of no other.
LEMMA FrontedNothing ==
  ASSUME NEW N, N \subseteq Characters, NEW text \in Texts, NEW rest, Fronted(N, text, rest)
  PROVE  rest = <<>> <=> \A i \in 1 .. Len(text) : text[i] \in N
<1>1. PICK b \in Seq(N) : text = b \o rest
  BY DEF Fronted
<1>2. b \in Seq(Characters) /\ rest \in Seq(Characters)
  BY SeqMonotonic DEF Fronted, Texts
<1>3. /\ Len(text) = Len(b) + Len(rest) /\ Len(b) \in Nat /\ Len(rest) \in Nat
      /\ \A i \in 1 .. Len(b) : text[i] = b[i]
      /\ \A i \in 1 .. Len(rest) : text[Len(b) + i] = rest[i]
  BY <1>1, <1>2, JoinedAt
<1>4. \A i \in 1 .. Len(b) : b[i] \in N
  BY ElementOfSeq
<1>5. ASSUME rest = <<>> PROVE \A i \in 1 .. Len(text) : text[i] \in N
  <2>1. Len(rest) = 0
    BY <1>5, EmptySeq
  <2>2. QED BY <2>1, <1>3, <1>4
<1>6. ASSUME rest # <<>> PROVE ~\A i \in 1 .. Len(text) : text[i] \in N
  <2>1. 1 \in 1 .. Len(rest) /\ Len(b) + 1 \in 1 .. Len(text)
    BY <1>2, <1>3, <1>6, EmptySeq
  <2>2. text[Len(b) + 1] = rest[1] /\ rest[1] \notin N
    BY <2>1, <1>3, <1>6 DEF Fronted
  <2>3. QED BY <2>1, <2>2
<1>7. QED BY <1>5, <1>6

\* Facts about the leading newlines of a text that goes on.
LEMMA NewlinesFacts ==
  ASSUME NEW u \in Texts, NEW t \in Texts
  PROVE  /\ StripNewlines(u) \in Texts
         /\ StripNewlines(StripNewlines(u) \o t) = StripNewlines(u \o t)
         /\ StripNewlines(u) # <<>> => StripNewlines(u \o t) = StripNewlines(u) \o t
<1> DEFINE r == StripNewlines(u)
           N == {"nl"}
<1>1. N \subseteq Characters
  BY WhiteFacts
<1>2. Fronted(N, u, r)
  BY NewlinesFronted
<1>3. r \in Texts
  BY <1>2 DEF Fronted
<1> HIDE DEF r, N
<1>4. r \o t \in Texts /\ u \o t \in Texts
  BY <1>3, ConcatProperties DEF Texts
<1>5. Fronted(N, r \o t, StripNewlines(r \o t)) /\ Fronted(N, u \o t, StripNewlines(u \o t))
  BY <1>4, NewlinesFronted DEF N
<1>6. Fronted(N, u \o t, StripNewlines(r \o t))
  BY <1>1, <1>2, <1>5, FrontedAgain
<1>7. StripNewlines(r \o t) = StripNewlines(u \o t)
  BY <1>1, <1>5, <1>6, FrontedOnce
<1>8. ASSUME r # <<>> PROVE StripNewlines(u \o t) = r \o t
  <2>1. Fronted(N, u \o t, r \o t)
    BY <1>1, <1>2, <1>8, FrontedKeeps
  <2>2. QED BY <2>1, <1>1, <1>5, FrontedOnce
<1>9. QED BY <1>3, <1>7, <1>8 DEF r

\* Of no text there is no rest.
LEMMA FrontedEmpty == ASSUME NEW N PROVE Fronted(N, <<>>, <<>>)
  <1>1. <<>> \in Texts /\ <<>> \in Seq(N) /\ <<>> = <<>> \o <<>>
    BY EmptySeq, ConcatEmptySeq DEF Texts
  <1>2. QED BY <1>1 DEF Fronted

\* Facts about the visible part of a text.
LEMMA VisibleFacts ==
  ASSUME NEW u \in Texts, NEW t \in Texts
  PROVE  /\ FromVisible(u) \in Texts
         /\ FromVisible(u) # <<>> => FromVisible(u \o t) = FromVisible(u) \o t
         /\ FromVisible(u) = <<>> => FromVisible(u \o t) = FromVisible(t)
         /\ FromVisible(u) = <<>> <=> Blanks(u)
         /\ FromVisible(StripNewlines(u)) = FromVisible(u)
         /\ Blanks(StripNewlines(u)) <=> Blanks(u)
<1> DEFINE r == FromVisible(u)
           s == StripNewlines(u)
<1>1. White \subseteq Characters /\ {"nl"} \subseteq White
  BY WhiteFacts
<1>2. Fronted(White, u, r) /\ Fronted({"nl"}, u, s)
  BY VisibleFronted, NewlinesFronted
<1>3. r \in Texts /\ s \in Texts
  BY <1>2 DEF Fronted
<1> HIDE DEF r, s
<1>4. u \o t \in Texts
  BY <1>3, ConcatProperties DEF Texts
<1>5. Fronted(White, u \o t, FromVisible(u \o t)) /\ Fronted(White, t, FromVisible(t))
      /\ Fronted(White, s, FromVisible(s))
  BY <1>3, <1>4, VisibleFronted
<1>6. ASSUME r # <<>> PROVE FromVisible(u \o t) = r \o t
  <2>1. Fronted(White, u \o t, r \o t)
    BY <1>1, <1>2, <1>6, FrontedKeeps
  <2>2. QED BY <2>1, <1>1, <1>5, FrontedOnce
<1>7. ASSUME r = <<>> PROVE FromVisible(u \o t) = FromVisible(t)
  <2>1. r \o t = t
    BY <1>7, ConcatEmptySeq DEF Texts
  <2>2. Fronted(White, r \o t, FromVisible(t))
    BY <2>1, <1>5
  <2>3. Fronted(White, u \o t, FromVisible(t))
    BY <2>2, <1>1, <1>2, FrontedAgain
  <2>4. QED BY <2>3, <1>1, <1>5, FrontedOnce
<1>8. ASSUME NEW v \in Texts PROVE FromVisible(v) = <<>> <=> Blanks(v)
  <2>1. Fronted(White, v, FromVisible(v))
    BY VisibleFronted
  <2>2. FromVisible(v) = <<>> <=> \A i \in 1 .. Len(v) : v[i] \in White
    BY <2>1, <1>1, FrontedNothing
  <2>3. DOMAIN v = 1 .. Len(v)
    BY LenProperties DEF Texts
  <2>4. QED BY <2>2, <2>3 DEF Blanks, Blank, White
<1>9. FromVisible(s) = r
  <2>1. <<>> \in Texts /\ s \o <<>> = s /\ u \o <<>> = u
    BY <1>3, EmptySeq, ConcatEmptySeq DEF Texts
  <2>2. Fronted(White, s \o <<>>, FromVisible(s))
    BY <2>1, <1>5
  <2>3. Fronted(White, u \o <<>>, FromVisible(s))
    BY <2>1, <2>2, <1>1, <1>2, FrontedAgain
  <2>4. QED BY <2>1, <2>3, <1>1, <1>2, FrontedOnce
<1>10. r = <<>> <=> Blanks(u)
  BY <1>8 DEF r
<1>11. Blanks(s) <=> Blanks(u)
  BY <1>3, <1>8, <1>9, <1>10
<1>12. QED BY <1>3, <1>6, <1>7, <1>9, <1>10, <1>11 DEF r, s

\* What ends in no white space stays in front of a text without it.
LEMMA EndedAfter ==
  ASSUME NEW c \in Texts, c = <<>> \/ c[Len(c)] \notin White,
         NEW text \in Texts, NEW rest, Ended(text, rest)
  PROVE  Ended(c \o text, c \o rest)
<1>1. PICK b \in Seq(White) : text = rest \o b
  BY DEF Ended
<1>2. /\ c \in Seq(Characters) /\ rest \in Seq(Characters) /\ b \in Seq(Characters)
  BY WhiteFacts DEF Ended, Texts
<1>3. c \o text = (c \o rest) \o b
  <2>1. c \o (rest \o b) = (c \o rest) \o b
    BY <1>2, ConcatAssociative, SMTT(30)
  <2>2. QED BY <1>1, <2>1
<1>4. /\ c \o rest \in Seq(Characters) /\ Len(c \o rest) = Len(c) + Len(rest)
      /\ Len(c) \in Nat /\ Len(rest) \in Nat
      /\ \A i \in 1 .. Len(rest) : (c \o rest)[Len(c) + i] = rest[i]
  BY <1>2, JoinedAt
<1>5. CASE rest = <<>>
  <2>1. c \o rest = c
    BY <1>2, <1>5, ConcatEmptySeq
  <2>2. QED BY <2>1, <1>1, <1>3, <1>4 DEF Ended, Texts
<1>6. CASE rest # <<>>
  <2>1. Len(rest) \in 1 .. Len(rest)
    BY <1>2, <1>4, <1>6, EmptySeq
  <2>2. (c \o rest)[Len(c) + Len(rest)] = rest[Len(rest)]
    BY <2>1, <1>4
  <2>3. (c \o rest)[Len(c \o rest)] \notin White
    BY <2>2, <1>4, <1>6 DEF Ended
  <2>4. QED BY <2>3, <1>1, <1>3, <1>4 DEF Ended, Texts
<1>7. QED BY <1>5, <1>6

\* Reasoning sent up to its last visible character goes on with the white
\* space that waits, as StripTrailingReasoning sends it.
LEMMA ReasoningGoesOn ==
  ASSUME NEW text \in Texts, NEW wait \in Seq(White), NEW t \in Texts,
         text = StripEnd(text) \o wait
  PROVE  /\ StripEnd(text \o t) = StripEnd(text) \o StripEnd(wait \o t)
         /\ From(wait \o t, Len(StripEnd(wait \o t)) + 1) \in Seq(White)
         /\ text \o t = StripEnd(text \o t) \o From(wait \o t, Len(StripEnd(wait \o t)) + 1)
<1> DEFINE c == StripEnd(text)
           w == wait \o t
           s == StripEnd(w)
           b == From(w, Len(s) + 1)
<1>1. wait \in Seq(Characters) /\ t \in Seq(Characters) /\ text \in Seq(Characters)
  BY WhiteFacts DEF Texts
<1>2. w \in Texts /\ text \o t \in Texts
  BY <1>1, ConcatProperties DEF Texts
<1>3. Ended(text, c)
  BY StripEndEnded
<1>4. c \in Texts /\ (c = <<>> \/ c[Len(c)] \notin White)
  BY <1>3 DEF Ended
<1> HIDE DEF c, w
<1>5. Ended(w, s) /\ b \in Seq(White) /\ w = s \o b
  BY <1>2, StripEndEnded
<1>6. text \o t = c \o w
  <2>1. c \in Seq(Characters) /\ text = c \o wait
    BY <1>4 DEF Texts, c
  <2>2. (c \o wait) \o t = c \o (wait \o t)
    BY <1>1, <2>1, ConcatAssociative, SMTT(30)
  <2>3. text \o t = (c \o wait) \o t
    BY <2>1
  <2>4. QED BY <2>2, <2>3 DEF w
<1> HIDE DEF s, b
<1>7. Ended(c \o w, c \o s)
  BY <1>2, <1>4, <1>5, EndedAfter
<1>8. Ended(text \o t, StripEnd(text \o t))
  BY <1>2, StripEndEnded
<1>9. StripEnd(text \o t) = c \o s
  BY <1>6, <1>7, <1>8, EndedOnce
<1>10. s \in Seq(Characters) /\ b \in Seq(Characters) /\ c \in Seq(Characters)
  BY <1>4, <1>5, WhiteFacts DEF Ended, Texts
<1>11. c \o (s \o b) = (c \o s) \o b
  BY <1>10, ConcatAssociative, SMTT(30)
<1>12. text \o t = (c \o s) \o b
  BY <1>5, <1>6, <1>11
<1>13. QED BY <1>5, <1>9, <1>12 DEF c, w, s, b

---------------------------------------------------------------------------
(* What one event does to the parser.                                      *)

IsSlot(slot) ==
  /\ slot = [id |-> slot.id, name |-> slot.name, args |-> slot.args,
             name_sent |-> slot.name_sent, string_keys |-> slot.string_keys,
             streamed_json |-> slot.streamed_json]
  /\ slot.name \in Name /\ slot.args \in Seq(Keys \union Letters)
  /\ slot.name_sent \in BOOLEAN /\ (~slot.name_sent => slot.id = NoId)

\* The slots of calls; cnt ids have been given out.
Slots(s, cnt) ==
  /\ \E n \in Nat : DOMAIN s = 1 .. n
  /\ s = [i \in DOMAIN s |-> s[i]]
  /\ \A i \in DOMAIN s :
       /\ IsSlot(s[i])
       /\ s[i].name_sent => s[i].id \in 1 .. cnt
       /\ \A j \in DOMAIN s : i # j /\ s[i].name_sent => s[j].id # s[i].id

IsParser(p) ==
  /\ p = [reasoning_ended |-> p.reasoning_ended, saw_reasoning_end |-> p.saw_reasoning_end,
          content_has_nonws |-> p.content_has_nonws, deferred_content |-> p.deferred_content,
          deferred_reasoning |-> p.deferred_reasoning, slots |-> p.slots,
          history_tool_call_cnt |-> p.history_tool_call_cnt]
  /\ p.history_tool_call_cnt \in Nat
  /\ Slots(p.slots, p.history_tool_call_cnt)

IsAcc(acc) ==
  /\ acc = [p |-> acc.p, content |-> acc.content, reasoning |-> acc.reasoning,
            deltas |-> acc.deltas, seen |-> acc.seen]
  /\ IsParser(acc.p)

\* An event of a call changes the slots, the ids and the deltas.
OnlyCalls(acc, b) ==
  /\ IsAcc(b)
  /\ b.content = acc.content /\ b.reasoning = acc.reasoning /\ b.seen = acc.seen
  /\ b.p.reasoning_ended = acc.p.reasoning_ended
  /\ b.p.saw_reasoning_end = acc.p.saw_reasoning_end
  /\ b.p.content_has_nonws = acc.p.content_has_nonws
  /\ b.p.deferred_content = acc.p.deferred_content
  /\ b.p.deferred_reasoning = acc.p.deferred_reasoning
  /\ DOMAIN b.p.slots = DOMAIN acc.p.slots

\* A slot changes, but not its id.
LEMMA SlotChanges ==
  ASSUME NEW s, NEW cnt \in Nat, Slots(s, cnt), NEW k, NEW slot,
         k \in DOMAIN s => /\ IsSlot(slot)
                           /\ slot.name_sent = s[k].name_sent /\ slot.id = s[k].id
  PROVE  /\ Slots([s EXCEPT ![k] = slot], cnt)
         /\ DOMAIN [s EXCEPT ![k] = slot] = DOMAIN s
<1> DEFINE t == [s EXCEPT ![k] = slot]
<1>1. /\ DOMAIN t = DOMAIN s /\ t = [i \in DOMAIN t |-> t[i]]
      /\ \A i \in DOMAIN s : t[i] = IF i = k THEN slot ELSE s[i]
  OBVIOUS
<1> HIDE DEF t
<1>2. \A i \in DOMAIN s : /\ IsSlot(t[i]) /\ t[i].name_sent = s[i].name_sent
                          /\ t[i].id = s[i].id
  BY <1>1 DEF Slots
<1>3. QED BY <1>1, <1>2 DEF Slots, t

\* The name of a call is sent, with the next id.
LEMMA SlotAnnounced ==
  ASSUME NEW s, NEW cnt \in Nat, Slots(s, cnt), NEW k, NEW slot,
         k \in DOMAIN s => /\ IsSlot(slot) /\ slot.name_sent = TRUE /\ slot.id = cnt + 1
  PROVE  /\ Slots([s EXCEPT ![k] = slot], cnt + 1)
         /\ DOMAIN [s EXCEPT ![k] = slot] = DOMAIN s
<1> DEFINE t == [s EXCEPT ![k] = slot]
<1>1. /\ DOMAIN t = DOMAIN s /\ t = [i \in DOMAIN t |-> t[i]]
      /\ \A i \in DOMAIN s : t[i] = IF i = k THEN slot ELSE s[i]
  OBVIOUS
<1> HIDE DEF t
<1>2. \A i \in DOMAIN s : s[i].id \in 0 .. cnt
  <2>1. SUFFICES ASSUME NEW i \in DOMAIN s PROVE s[i].id \in 0 .. cnt
    OBVIOUS
  <2>2. /\ s[i].name_sent \in BOOLEAN /\ (~s[i].name_sent => s[i].id = 0)
        /\ (s[i].name_sent => s[i].id \in 1 .. cnt)
    BY DEF Slots, IsSlot, NoId
  <2>3. QED BY <2>2
<1>3. ASSUME NEW i \in DOMAIN t
      PROVE  /\ IsSlot(t[i])
             /\ t[i].name_sent => t[i].id \in 1 .. cnt + 1
  <2>1. CASE i = k
    <3>1. t[i] = slot /\ IsSlot(slot) /\ slot.id = cnt + 1
      BY <1>1, <2>1
    <3>2. cnt + 1 \in 1 .. cnt + 1
      OBVIOUS
    <3>3. QED BY <3>1, <3>2
  <2>2. CASE i # k
    <3>1. t[i] = s[i] /\ IsSlot(s[i]) /\ (s[i].name_sent => s[i].id \in 1 .. cnt)
      BY <1>1, <2>2 DEF Slots
    <3>2. \A x \in 1 .. cnt : x \in 1 .. cnt + 1
      OBVIOUS
    <3>3. QED BY <3>1, <3>2
  <2>3. QED BY <2>1, <2>2
<1>4. ASSUME NEW i \in DOMAIN t, NEW j \in DOMAIN t, i # j, t[i].name_sent
      PROVE  t[j].id # t[i].id
  <2>1. \A x \in 0 .. cnt : x # cnt + 1
    OBVIOUS
  <2>2. CASE i = k
    <3>1. t[i].id = cnt + 1 /\ t[j] = s[j]
      BY <1>1, <1>4, <2>2
    <3>2. QED BY <3>1, <2>1, <1>1, <1>2
  <2>3. CASE j = k
    <3>1. t[j].id = cnt + 1 /\ t[i] = s[i]
      BY <1>1, <1>4, <2>3
    <3>2. QED BY <3>1, <2>1, <1>1, <1>2
  <2>4. CASE i # k /\ j # k
    <3>1. t[i] = s[i] /\ t[j] = s[j]
      BY <1>1, <2>4
    <3>2. QED BY <3>1, <1>1, <1>4 DEF Slots
  <2>5. QED BY <2>2, <2>3, <2>4
<1>5. QED BY <1>1, <1>3, <1>4 DEF Slots, t

\* AddArguments
LEMMA ArgumentsAdded ==
  ASSUME NEW acc, IsAcc(acc), NEW idx, NEW arguments
  PROVE  OnlyCalls(acc, AddArguments(acc, idx, arguments))
  BY DEF IsAcc, OnlyCalls, AddArguments

\* A slot changes, and its call keeps its id.
LEMMA SlotInPlace ==
  ASSUME NEW acc, IsAcc(acc), NEW idx, NEW slot,
         idx \in DOMAIN acc.p.slots =>
           /\ IsSlot(slot) /\ slot.name_sent = acc.p.slots[idx].name_sent
           /\ slot.id = acc.p.slots[idx].id
  PROVE  OnlyCalls(acc, [acc EXCEPT !.p.slots[idx] = slot])
<1> DEFINE s == acc.p.slots
           t == [s EXCEPT ![idx] = slot]
           p == [acc.p EXCEPT !.slots = t]
           b == [acc EXCEPT !.p = p]
<1>1. b = [acc EXCEPT !.p.slots[idx] = slot]
  OBVIOUS
<1>2. Slots(s, acc.p.history_tool_call_cnt) /\ acc.p.history_tool_call_cnt \in Nat
  BY DEF IsAcc, IsParser
<1>4. Slots(t, acc.p.history_tool_call_cnt) /\ DOMAIN t = DOMAIN s
  BY <1>2, SlotChanges
<1> HIDE DEF t
<1>5. /\ IsParser(p) /\ p.slots = t
      /\ p.reasoning_ended = acc.p.reasoning_ended
      /\ p.saw_reasoning_end = acc.p.saw_reasoning_end
      /\ p.content_has_nonws = acc.p.content_has_nonws
      /\ p.deferred_content = acc.p.deferred_content
      /\ p.deferred_reasoning = acc.p.deferred_reasoning
  BY <1>2, <1>4 DEF IsAcc, IsParser
<1> HIDE DEF p
<1>6. /\ b.p = p /\ b.content = acc.content /\ b.reasoning = acc.reasoning
      /\ b.seen = acc.seen /\ b.deltas = acc.deltas
      /\ b = [p |-> b.p, content |-> b.content, reasoning |-> b.reasoning,
              deltas |-> b.deltas, seen |-> b.seen]
  BY DEF IsAcc
<1> HIDE DEF b
<1>7. OnlyCalls(acc, b)
  BY <1>4, <1>5, <1>6 DEF OnlyCalls, IsAcc
<1>8. QED BY <1>1, <1>7

\* What was sent of a call changes.
LEMMA SentChanges ==
  ASSUME NEW acc, IsAcc(acc), NEW idx, NEW x
  PROVE  OnlyCalls(acc, [acc EXCEPT !.p.slots[idx].streamed_json = x])
<1> DEFINE slot == [acc.p.slots[idx] EXCEPT !.streamed_json = x]
<1>1. ASSUME idx \in DOMAIN acc.p.slots
      PROVE  /\ IsSlot(slot) /\ slot.name_sent = acc.p.slots[idx].name_sent
             /\ slot.id = acc.p.slots[idx].id
  <2> DEFINE old == acc.p.slots[idx]
  <2>1. IsSlot(old)
    BY <1>1 DEF IsAcc, IsParser, Slots
  <2> HIDE DEF old
  <2>2. QED BY <2>1 DEF IsSlot, old
<1>2. [acc EXCEPT !.p.slots[idx] = slot] = [acc EXCEPT !.p.slots[idx].streamed_json = x]
  OBVIOUS
<1> HIDE DEF slot
<1>3. QED BY <1>1, <1>2, SlotInPlace

\* The name of a call grows.
LEMMA NameGrows ==
  ASSUME NEW acc, IsAcc(acc), NEW idx, NEW x \in Seq(Parts)
  PROVE  OnlyCalls(acc, [acc EXCEPT !.p.slots[idx].name = @ \o x])
<1> DEFINE slot == [acc.p.slots[idx] EXCEPT !.name = @ \o x]
<1>1. ASSUME idx \in DOMAIN acc.p.slots
      PROVE  /\ IsSlot(slot) /\ slot.name_sent = acc.p.slots[idx].name_sent
             /\ slot.id = acc.p.slots[idx].id
  <2> DEFINE old == acc.p.slots[idx]
             v == old.name \o x
  <2>1. IsSlot(old)
    BY <1>1 DEF IsAcc, IsParser, Slots
  <2> HIDE DEF old
  <2>2. v \in Name
    BY <2>1, ConcatProperties DEF IsSlot, Name
  <2>3. slot = [old EXCEPT !.name = v]
    BY DEF old
  <2> HIDE DEF v, slot
  <2>4. QED BY <2>1, <2>2, <2>3 DEF IsSlot, old
<1>2. [acc EXCEPT !.p.slots[idx] = slot] = [acc EXCEPT !.p.slots[idx].name = @ \o x]
  OBVIOUS
<1> HIDE DEF slot
<1>3. QED BY <1>1, <1>2, SlotInPlace

\* The arguments of a call grow.
LEMMA ArgsGrow ==
  ASSUME NEW acc, IsAcc(acc), NEW idx, NEW x \in Seq(Keys \union Letters)
  PROVE  OnlyCalls(acc, [acc EXCEPT !.p.slots[idx].args = @ \o x])
<1> DEFINE slot == [acc.p.slots[idx] EXCEPT !.args = @ \o x]
<1>1. ASSUME idx \in DOMAIN acc.p.slots
      PROVE  /\ IsSlot(slot) /\ slot.name_sent = acc.p.slots[idx].name_sent
             /\ slot.id = acc.p.slots[idx].id
  <2> DEFINE old == acc.p.slots[idx]
             v == old.args \o x
  <2>1. IsSlot(old)
    BY <1>1 DEF IsAcc, IsParser, Slots
  <2> HIDE DEF old
  <2>2. v \in Seq(Keys \union Letters)
    BY <2>1, ConcatProperties DEF IsSlot
  <2>3. slot = [old EXCEPT !.args = v]
    BY DEF old
  <2> HIDE DEF v, slot
  <2>4. QED BY <2>1, <2>2, <2>3 DEF IsSlot, old
<1>2. [acc EXCEPT !.p.slots[idx] = slot] = [acc EXCEPT !.p.slots[idx].args = @ \o x]
  OBVIOUS
<1> HIDE DEF slot
<1>3. QED BY <1>1, <1>2, SlotInPlace

\* What two events of calls do is what events of calls do.
LEMMA OnlyCallsTwice ==
  ASSUME NEW a, NEW b, NEW c, OnlyCalls(a, b), OnlyCalls(b, c)
  PROVE  OnlyCalls(a, c)
  BY DEF OnlyCalls

\* The first delta of a call whose name was not sent.
LEMMA Announced ==
  ASSUME NEW acc, IsAcc(acc), NEW idx, NEW arguments,
         idx \in DOMAIN acc.p.slots => ~acc.p.slots[idx].name_sent
  PROVE  OnlyCalls(acc, AnnounceCall(acc, idx, arguments))
<1> DEFINE s == acc.p.slots
           cnt == acc.p.history_tool_call_cnt
           keys == StringKeys(s[idx].name)
           new == cnt + 1
           slot == [s[idx] EXCEPT !.name_sent = TRUE, !.string_keys = keys, !.id = new]
           t == [s EXCEPT ![idx] = slot]
           p == [acc.p EXCEPT !.slots = t, !.history_tool_call_cnt = new]
           q == NameSent(acc.p, idx)
           d == CallDelta(idx, q.slots[idx].id, q.slots[idx].name, arguments)
           ds == Append(acc.deltas, d)
           b == [acc EXCEPT !.p = q, !.deltas = ds]
<1>1. AnnounceCall(acc, idx, arguments) = b
  BY DEF AnnounceCall
<1>2. Slots(s, cnt) /\ cnt \in Nat /\ new \in Nat
  BY DEF IsAcc, IsParser
<1>3. q = p
  <2> HIDE DEF keys
  <2> DEFINE r1 == [acc.p EXCEPT !.slots = [s EXCEPT ![idx] = [s[idx] EXCEPT !.name_sent = TRUE]]]
             r2 == [acc.p EXCEPT !.slots = [s EXCEPT ![idx] =
                      [s[idx] EXCEPT !.name_sent = TRUE, !.string_keys = keys]]]
             r3 == [acc.p EXCEPT !.slots = t]
  <2>0. acc.p = [acc.p EXCEPT !.slots = s] /\ "slots" \in DOMAIN acc.p
    BY DEF IsAcc, IsParser
  <2>1. r1 = [acc.p EXCEPT !.slots[idx].name_sent = TRUE]
    OBVIOUS
  <2>2. r2 = [r1 EXCEPT !.slots[idx].string_keys = keys]
    BY <2>0
  <2>3. r3 = [r2 EXCEPT !.slots[idx].id = cnt + 1]
    BY <2>0
  <2>4. p = [r3 EXCEPT !.history_tool_call_cnt = @ + 1]
    BY <2>0 DEF IsAcc, IsParser
  <2> HIDE DEF r1, r2, r3, p, t
  <2>5. QED BY <2>1, <2>2, <2>3, <2>4 DEF NameSent, keys
<1>4. ASSUME idx \in DOMAIN s
      PROVE  IsSlot(slot) /\ slot.name_sent = TRUE /\ slot.id = new
  <2> DEFINE old == s[idx]
  <2>1. IsSlot(old)
    BY <1>2, <1>4 DEF Slots
  <2> HIDE DEF keys, new
  <2>2. slot = [old EXCEPT !.name_sent = TRUE, !.string_keys = keys, !.id = new]
    OBVIOUS
  <2> HIDE DEF old, slot
  <2>3. slot.id = new
    BY <2>1, <2>2 DEF IsSlot
  <2>4. slot.name_sent = TRUE /\ slot.name = old.name /\ slot.args = old.args
    BY <2>1, <2>2 DEF IsSlot
  <2>5. slot = [id |-> slot.id, name |-> slot.name, args |-> slot.args,
                name_sent |-> slot.name_sent, string_keys |-> slot.string_keys,
                streamed_json |-> slot.streamed_json]
    BY <2>1, <2>2 DEF IsSlot
  <2>6. QED BY <2>1, <2>3, <2>4, <2>5 DEF IsSlot, new
<1> HIDE DEF slot
<1>5. Slots(t, new) /\ DOMAIN t = DOMAIN s
  <2>1. new = cnt + 1
    OBVIOUS
  <2> HIDE DEF s, cnt, new
  <2>2. Slots(t, cnt + 1) /\ DOMAIN t = DOMAIN s
    <3>1. idx \in DOMAIN s => IsSlot(slot) /\ slot.name_sent = TRUE /\ slot.id = cnt + 1
      BY <1>4, <2>1
    <3>2. QED BY <1>2, <3>1, SlotAnnounced DEF t
  <2>3. QED BY <2>1, <2>2
<1> HIDE DEF t
<1>6. /\ IsParser(p) /\ p.slots = t
      /\ p.reasoning_ended = acc.p.reasoning_ended
      /\ p.saw_reasoning_end = acc.p.saw_reasoning_end
      /\ p.content_has_nonws = acc.p.content_has_nonws
      /\ p.deferred_content = acc.p.deferred_content
      /\ p.deferred_reasoning = acc.p.deferred_reasoning
  <2> HIDE DEF new
  <2>1. /\ p.slots = t /\ p.history_tool_call_cnt = new
        /\ p.reasoning_ended = acc.p.reasoning_ended
        /\ p.saw_reasoning_end = acc.p.saw_reasoning_end
        /\ p.content_has_nonws = acc.p.content_has_nonws
        /\ p.deferred_content = acc.p.deferred_content
        /\ p.deferred_reasoning = acc.p.deferred_reasoning
    BY DEF IsAcc, IsParser
  <2>2. p = [reasoning_ended |-> p.reasoning_ended, saw_reasoning_end |-> p.saw_reasoning_end,
             content_has_nonws |-> p.content_has_nonws, deferred_content |-> p.deferred_content,
             deferred_reasoning |-> p.deferred_reasoning, slots |-> p.slots,
             history_tool_call_cnt |-> p.history_tool_call_cnt]
    <3> DEFINE o == acc.p
               r == [o EXCEPT !.slots = t]
    <3>1. p = [r EXCEPT !.history_tool_call_cnt = new]
      OBVIOUS
    <3>2. o = [reasoning_ended |-> o.reasoning_ended, saw_reasoning_end |-> o.saw_reasoning_end,
               content_has_nonws |-> o.content_has_nonws, deferred_content |-> o.deferred_content,
               deferred_reasoning |-> o.deferred_reasoning, slots |-> o.slots,
               history_tool_call_cnt |-> o.history_tool_call_cnt]
      BY DEF IsAcc, IsParser
    <3> HIDE DEF p, o
    <3>3. r = [reasoning_ended |-> r.reasoning_ended, saw_reasoning_end |-> r.saw_reasoning_end,
               content_has_nonws |-> r.content_has_nonws, deferred_content |-> r.deferred_content,
               deferred_reasoning |-> r.deferred_reasoning, slots |-> r.slots,
               history_tool_call_cnt |-> r.history_tool_call_cnt]
      BY <3>2
    <3> HIDE DEF r
    <3>4. QED BY <3>1, <3>3
  <2> HIDE DEF p
  <2>3. Slots(t, new)
    BY <1>5 DEF new
  <2>4. QED BY <1>2, <2>1, <2>2, <2>3 DEF IsParser
<1> HIDE DEF p, q, ds
<1>7. /\ b.p = p /\ b.content = acc.content /\ b.reasoning = acc.reasoning
      /\ b.seen = acc.seen
      /\ b = [p |-> b.p, content |-> b.content, reasoning |-> b.reasoning,
              deltas |-> b.deltas, seen |-> b.seen]
  <2> DEFINE a == [acc EXCEPT !.p = q]
  <2>1. acc = [p |-> acc.p, content |-> acc.content, reasoning |-> acc.reasoning,
               deltas |-> acc.deltas, seen |-> acc.seen]
    BY DEF IsAcc
  <2>2. /\ a.p = q /\ a.content = acc.content /\ a.reasoning = acc.reasoning
        /\ a.seen = acc.seen
        /\ a = [p |-> a.p, content |-> a.content, reasoning |-> a.reasoning,
                deltas |-> a.deltas, seen |-> a.seen]
    BY <2>1
  <2>3. b = [a EXCEPT !.deltas = ds]
    BY <2>1
  <2> HIDE DEF a, b
  <2>4. /\ b.p = a.p /\ b.content = a.content /\ b.reasoning = a.reasoning
        /\ b.seen = a.seen
        /\ b = [p |-> b.p, content |-> b.content, reasoning |-> b.reasoning,
                deltas |-> b.deltas, seen |-> b.seen]
    BY <2>2, <2>3
  <2>5. QED BY <1>3, <2>2, <2>4
<1> HIDE DEF b
<1>8. QED BY <1>1, <1>5, <1>6, <1>7 DEF OnlyCalls, IsAcc, s

\* The arguments of a call go on.
LEMMA ArgumentsSent ==
  ASSUME NEW acc, IsAcc(acc), NEW idx, NEW arguments
  PROVE  OnlyCalls(acc, SendArguments(acc, idx, arguments))
<1> DEFINE x == acc.p.slots[idx].streamed_json \o arguments
           b == [acc EXCEPT !.p.slots[idx].streamed_json = x]
<1>1. SendArguments(acc, idx, arguments) = AddArguments(b, idx, arguments)
  BY DEF SendArguments
<1> HIDE DEF x
<1>2. OnlyCalls(acc, b)
  BY SentChanges
<1> HIDE DEF b
<1>3. IsAcc(b)
  BY <1>2 DEF OnlyCalls
<1>4. OnlyCalls(b, AddArguments(b, idx, arguments))
  BY <1>3, ArgumentsAdded
<1>5. QED BY <1>1, <1>2, <1>4, OnlyCallsTwice

\* Nothing done to a call.
LEMMA NothingDone == ASSUME NEW acc, IsAcc(acc) PROVE OnlyCalls(acc, acc)
  BY DEF OnlyCalls

\* _handle_arg_chunk
LEMMA ArgChunkHandled ==
  ASSUME NEW acc, IsAcc(acc), NEW idx, NEW chunk
  PROVE  OnlyCalls(acc, HandleArgChunk(acc, idx, chunk))
<1> DEFINE slot == acc.p.slots[idx]
           d == ComputeArgDelta(slot, chunk)
           b == HandleArgChunk(acc, idx, chunk)
<1>1. CASE slot.name_sent
  <2>1. b = SendArguments(acc, idx, d)
    BY <1>1 DEF HandleArgChunk
  <2> HIDE DEF b, d
  <2>2. QED BY <2>1, ArgumentsSent DEF b
<1>2. CASE ~slot.name_sent /\ AcceptToolName(slot.name)
  <2>1. b = AnnounceCall(acc, idx, <<>>)
    BY <1>2 DEF HandleArgChunk
  <2> HIDE DEF b
  <2>2. QED BY <1>2, <2>1, Announced DEF b
<1>3. CASE ~slot.name_sent /\ ~AcceptToolName(slot.name)
  <2>1. b = acc
    BY <1>3 DEF HandleArgChunk
  <2> HIDE DEF b
  <2>2. QED BY <2>1, NothingDone DEF b
<1>4. QED BY <1>1, <1>2, <1>3

\* _handle_tool_end
LEMMA ToolEndHandled ==
  ASSUME NEW acc, IsAcc(acc), NEW idx, NEW rest
  PROVE  OnlyCalls(acc, HandleToolEnd(acc, idx, rest))
<1> DEFINE slot == acc.p.slots[idx]
           x == slot.streamed_json \o rest
           f == [acc EXCEPT !.p.slots[idx].streamed_json = x]
           b == HandleToolEnd(acc, idx, rest)
<1>1. OnlyCalls(acc, f)
  <2> HIDE DEF x
  <2>1. QED BY SentChanges
<1>2. IsAcc(f)
  BY <1>1 DEF OnlyCalls
<1>3. CASE slot.name_sent
  <2>1. b = AddArguments(f, idx, rest)
    BY <1>3 DEF HandleToolEnd
  <2> HIDE DEF b, f
  <2>2. OnlyCalls(f, AddArguments(f, idx, rest))
    BY <1>2, ArgumentsAdded
  <2>3. OnlyCalls(acc, b)
    BY <1>1, <2>1, <2>2, OnlyCallsTwice
  <2>4. QED BY <2>3 DEF b
<1>4. CASE ~slot.name_sent /\ AcceptToolName(slot.name)
  <2>1. b = AnnounceCall(f, idx, rest)
    BY <1>4 DEF HandleToolEnd
  <2>2. idx \in DOMAIN f.p.slots => ~f.p.slots[idx].name_sent
    <3> DEFINE s == acc.p.slots
               t == [slot EXCEPT !.streamed_json = x]
    <3>1. f.p.slots = [s EXCEPT ![idx] = t]
      BY DEF IsAcc, IsParser
    <3>2. idx \in DOMAIN s => IsSlot(slot)
      BY DEF IsAcc, IsParser, Slots
    <3> HIDE DEF f, x, slot
    <3>3. idx \in DOMAIN s => ~t.name_sent
      BY <1>4, <3>2 DEF IsSlot
    <3> HIDE DEF t, s
    <3>4. QED BY <3>1, <3>3
  <2> HIDE DEF b, f
  <2>3. OnlyCalls(f, AnnounceCall(f, idx, rest))
    BY <1>2, <2>2, Announced
  <2>4. OnlyCalls(acc, b)
    BY <1>1, <2>1, <2>3, OnlyCallsTwice
  <2>5. QED BY <2>4 DEF b
<1>5. CASE ~slot.name_sent /\ ~AcceptToolName(slot.name)
  <2>1. b = f
    BY <1>5 DEF HandleToolEnd
  <2> HIDE DEF b, f
  <2>2. QED BY <1>1, <2>1 DEF b
<1>6. QED BY <1>3, <1>4, <1>5

\* The request takes this event of a call.
Effective(e) == e.type \in CallEvents /\ ~Suppress

\* What an event does, outside of the calls.
Effect(acc, e, b) ==
  /\ IsAcc(b)
  /\ b.reasoning = IF e.type = "REASONING_CHUNK" THEN acc.reasoning \o e.value
                   ELSE acc.reasoning
  /\ b.p.reasoning_ended = IF e.type = "REASONING_END" THEN TRUE ELSE acc.p.reasoning_ended
  /\ b.p.saw_reasoning_end = IF e.type = "REASONING_END" THEN TRUE
                             ELSE acc.p.saw_reasoning_end
  /\ b.p.content_has_nonws = acc.p.content_has_nonws
  /\ b.p.deferred_reasoning = acc.p.deferred_reasoning
  /\ b.seen = IF Effective(e) THEN TRUE ELSE acc.seen
  /\ b.content = IF e.type = "TEXT_CHUNK" /\ ~acc.seen THEN acc.content \o e.value
                 ELSE acc.content
  /\ b.p.deferred_content = IF e.type = "TEXT_CHUNK" /\ acc.seen
                            THEN acc.p.deferred_content \o e.value
                            ELSE acc.p.deferred_content
  /\ Effective(e) \/ (b.deltas = acc.deltas /\ b.p.slots = acc.p.slots)
  /\ b.p.slots = <<>> => acc.p.slots = <<>> /\ ~(Effective(e) /\ e.type = "TOOL_CALL_START")

\* An empty sequence is told by its domain.
LEMMA SlotsEmpty ==
  ASSUME NEW s, NEW cnt, Slots(s, cnt)
  PROVE  s = <<>> <=> DOMAIN s = {}
<1>1. s = [i \in DOMAIN s |-> s[i]]
  BY DEF Slots
<1>2. DOMAIN <<>> = {} /\ <<>> = [i \in {} |-> i]
  BY SMT
<1>3. QED BY <1>1, <1>2

\* The parser's note that it has seen a call changes.
LEMMA SeenChanges ==
  ASSUME NEW acc, IsAcc(acc), NEW x
  PROVE  LET b == [acc EXCEPT !.seen = x]
         IN  /\ b.p = acc.p /\ b.content = acc.content /\ b.reasoning = acc.reasoning
             /\ b.seen = x
             /\ b = [p |-> b.p, content |-> b.content, reasoning |-> b.reasoning,
                     deltas |-> b.deltas, seen |-> b.seen]
<1>1. acc = [p |-> acc.p, content |-> acc.content, reasoning |-> acc.reasoning,
             deltas |-> acc.deltas, seen |-> acc.seen]
  BY DEF IsAcc
<1>2. QED BY <1>1

\* A call starts.
LEMMA CallStarts ==
  ASSUME NEW acc, IsAcc(acc)
  PROVE  LET b == [acc EXCEPT !.seen = TRUE, !.p.slots = Append(@, NewSlot)]
         IN  /\ IsAcc(b) /\ b.p.slots # <<>> /\ b.seen = TRUE
             /\ b.content = acc.content /\ b.reasoning = acc.reasoning
             /\ b.p.reasoning_ended = acc.p.reasoning_ended
             /\ b.p.saw_reasoning_end = acc.p.saw_reasoning_end
             /\ b.p.content_has_nonws = acc.p.content_has_nonws
             /\ b.p.deferred_content = acc.p.deferred_content
             /\ b.p.deferred_reasoning = acc.p.deferred_reasoning
<1> DEFINE s == acc.p.slots
           cnt == acc.p.history_tool_call_cnt
           t == Append(s, NewSlot)
           p == [acc.p EXCEPT !.slots = t]
           a == [acc EXCEPT !.seen = TRUE]
           b == [a EXCEPT !.p = p]
<1>1. b = [acc EXCEPT !.seen = TRUE, !.p.slots = Append(@, NewSlot)]
  OBVIOUS
<1>2. Slots(s, cnt) /\ cnt \in Nat
  BY DEF IsAcc, IsParser
<1>3. PICK n \in Nat : DOMAIN s = 1 .. n
  BY <1>2 DEF Slots
<1>4. /\ DOMAIN t = 1 .. n + 1 /\ t = [i \in DOMAIN t |-> t[i]]
      /\ t[n + 1] = NewSlot /\ \A i \in 1 .. n : t[i] = s[i]
  <2> DEFINE A == {s[i] : i \in 1 .. n} \union {NewSlot}
  <2>1. s \in Seq(A)
    <3>1. s \in [1 .. n -> A]
      BY <1>2, <1>3 DEF Slots
    <3>2. QED BY <3>1, SeqDef
  <2>2. NewSlot \in A
    OBVIOUS
  <2>3. Len(s) = n
    BY <2>1, <1>3, LenProperties
  <2> HIDE DEF A, s, t
  <2>4. /\ Append(s, NewSlot) \in Seq(A) /\ Len(Append(s, NewSlot)) = Len(s) + 1
        /\ \A i \in 1 .. Len(s) : Append(s, NewSlot)[i] = s[i]
        /\ Append(s, NewSlot)[Len(s) + 1] = NewSlot
    BY <2>1, <2>2, AppendProperties
  <2>5. t \in Seq(A) /\ Len(t) = n + 1 /\ t[n + 1] = NewSlot /\ \A i \in 1 .. n : t[i] = s[i]
    BY <2>3, <2>4 DEF t
  <2>6. DOMAIN t = 1 .. n + 1 /\ t \in [1 .. n + 1 -> A]
    BY <2>5, LenProperties
  <2>7. QED BY <2>5, <2>6
<1> HIDE DEF t, s, cnt
<1>5. IsSlot(NewSlot) /\ NewSlot.id = NoId /\ NewSlot.name_sent = FALSE
  <2>1. <<>> \in Name /\ <<>> \in Seq(Keys \union Letters)
    BY EmptySeq DEF Name
  <2>2. QED BY <2>1 DEF NewSlot, IsSlot
<1>6. \A i \in 1 .. n + 1 : i \in 1 .. n \/ i = n + 1
  OBVIOUS
<1>7. Slots(t, cnt)
  <2>1. \A i \in 1 .. n : IsSlot(s[i]) /\ (s[i].name_sent => s[i].id \in 1 .. cnt)
    BY <1>2, <1>3 DEF Slots
  <2>2. \A i \in 1 .. n + 1 : IsSlot(t[i]) /\ (t[i].name_sent => t[i].id \in 1 .. cnt)
    BY <2>1, <1>4, <1>5, <1>6
  <2>3. ASSUME NEW i \in 1 .. n + 1, NEW j \in 1 .. n + 1, i # j, t[i].name_sent
        PROVE  t[j].id # t[i].id
    <3>1. i \in 1 .. n /\ t[i] = s[i]
      BY <2>3, <1>4, <1>5, <1>6
    <3>2. CASE j \in 1 .. n
      BY <3>1, <3>2, <2>3, <1>2, <1>3, <1>4 DEF Slots
    <3>3. CASE j = n + 1
      <4>1. t[j].id = 0 /\ t[i].id \in 1 .. cnt
        BY <3>1, <3>3, <2>2, <2>3, <1>4, <1>5 DEF NoId
      <4>2. QED BY <4>1, <1>2
    <3>4. QED BY <3>2, <3>3, <1>6
  <2>4. n + 1 \in Nat
    OBVIOUS
  <2>5. QED BY <2>2, <2>3, <2>4, <1>4 DEF Slots
<1>8. t # <<>>
  <2>1. n + 1 \in DOMAIN t
    BY <1>4
  <2>2. QED BY <2>1, <1>7, SlotsEmpty
<1>9. /\ IsParser(p) /\ p.slots = t
      /\ p.reasoning_ended = acc.p.reasoning_ended
      /\ p.saw_reasoning_end = acc.p.saw_reasoning_end
      /\ p.content_has_nonws = acc.p.content_has_nonws
      /\ p.deferred_content = acc.p.deferred_content
      /\ p.deferred_reasoning = acc.p.deferred_reasoning
  BY <1>2, <1>7 DEF IsAcc, IsParser, cnt
<1> HIDE DEF p
<1>10. /\ a.p = acc.p /\ a.content = acc.content /\ a.reasoning = acc.reasoning /\ a.seen = TRUE
       /\ a = [p |-> a.p, content |-> a.content, reasoning |-> a.reasoning,
               deltas |-> a.deltas, seen |-> a.seen]
  BY SeenChanges
<1> HIDE DEF a
<1>11. /\ b.p = p /\ b.content = acc.content /\ b.reasoning = acc.reasoning /\ b.seen = TRUE
       /\ b = [p |-> b.p, content |-> b.content, reasoning |-> b.reasoning,
               deltas |-> b.deltas, seen |-> b.seen]
  BY <1>10
<1> HIDE DEF b
<1>12. QED BY <1>1, <1>8, <1>9, <1>11 DEF IsAcc

\* An event of a call is known to the request.
LEMMA CallSeen ==
  ASSUME NEW acc, IsAcc(acc)
  PROVE  LET b == [acc EXCEPT !.seen = TRUE]
         IN  /\ IsAcc(b) /\ b.seen = TRUE /\ b.p = acc.p
             /\ b.content = acc.content /\ b.reasoning = acc.reasoning
<1> DEFINE b == [acc EXCEPT !.seen = TRUE]
<1>2. /\ b.p = acc.p /\ b.content = acc.content /\ b.reasoning = acc.reasoning /\ b.seen = TRUE
      /\ b = [p |-> b.p, content |-> b.content, reasoning |-> b.reasoning,
              deltas |-> b.deltas, seen |-> b.seen]
  BY SeenChanges
<1> HIDE DEF b
<1>3. IsAcc(b)
  BY <1>2 DEF IsAcc
<1>4. QED BY <1>2, <1>3 DEF b

\* The kinds of events exclude each other.
LEMMA EventKinds ==
  /\ "TEXT_CHUNK" \notin CallEvents /\ "REASONING_CHUNK" \notin CallEvents
  /\ "REASONING_END" \notin CallEvents
  /\ \A x \in CallEvents : \/ x = "TOOL_CALL_START" \/ x = "TOOL_NAME"
                           \/ x = "ARG_VALUE_CHUNK" \/ x = "TOOL_CALL_END"
  BY DEF CallEvents

\* An event of a call, as Effect has it.
LEMMA CallEffect ==
  ASSUME NEW acc, IsAcc(acc), NEW e \in EventSet, Effective(e)
  PROVE  Effect(acc, e, TakeEvent(acc, e))
<1> DEFINE a == [acc EXCEPT !.seen = TRUE]
           b == TakeEvent(acc, e)
<1>1. /\ IsAcc(a) /\ a.seen = TRUE /\ a.p = acc.p
      /\ a.content = acc.content /\ a.reasoning = acc.reasoning
  BY CallSeen
<1>2. e.type \in CallEvents /\ ~Suppress /\ e.type # "TEXT_CHUNK" /\ e.type # "REASONING_CHUNK"
      /\ e.type # "REASONING_END"
  BY EventKinds DEF Effective
<1>3. CASE e.type = "TOOL_CALL_START"
  <2> DEFINE d == [acc EXCEPT !.seen = TRUE, !.p.slots = Append(@, NewSlot)]
  <2>1. b = d
    BY <1>2, <1>3 DEF TakeEvent
  <2>2. /\ IsAcc(d) /\ d.p.slots # <<>> /\ d.seen = TRUE
        /\ d.content = acc.content /\ d.reasoning = acc.reasoning
        /\ d.p.reasoning_ended = acc.p.reasoning_ended
        /\ d.p.saw_reasoning_end = acc.p.saw_reasoning_end
        /\ d.p.content_has_nonws = acc.p.content_has_nonws
        /\ d.p.deferred_content = acc.p.deferred_content
        /\ d.p.deferred_reasoning = acc.p.deferred_reasoning
    BY CallStarts
  <2> HIDE DEF b, d
  <2>3. QED BY <2>1, <2>2, <1>2 DEF Effect, Effective, b
<1>4. CASE e.type # "TOOL_CALL_START"
  <2>1. OnlyCalls(a, b)
    <3>1. CASE e.type = "TOOL_NAME"
      <4> DEFINE v == e.value
                 d == [a EXCEPT !.p.slots[e.index].name = @ \o v]
      <4>1. b = d
        BY <1>2, <3>1 DEF TakeEvent
      <4>2. v \in Seq(Parts)
        BY <3>1 DEF EventSet
      <4> HIDE DEF v, a, b
      <4>3. OnlyCalls(a, d)
        BY <4>2, <1>1, NameGrows
      <4>4. QED BY <4>1, <4>3
    <3>2. CASE e.type = "ARG_VALUE_CHUNK"
      <4> DEFINE v == e.value
                 idx == e.index
                 d == [a EXCEPT !.p.slots[idx].args = @ \o v]
      <4>1. b = HandleArgChunk(d, idx, v)
        BY <1>2, <3>2 DEF TakeEvent
      <4>2. v \in Seq(Keys \union Letters)
        BY <3>2 DEF EventSet
      <4> HIDE DEF v, a, b, idx
      <4>3. OnlyCalls(a, d)
        BY <4>2, <1>1, ArgsGrow
      <4> HIDE DEF d
      <4>4. IsAcc(d)
        BY <4>3 DEF OnlyCalls
      <4>5. OnlyCalls(d, HandleArgChunk(d, idx, v))
        BY <4>4, ArgChunkHandled
      <4>6. QED BY <4>1, <4>3, <4>5, OnlyCallsTwice
    <3>3. CASE e.type = "TOOL_CALL_END"
      <4> DEFINE idx == e.index
                 rest == FlushArgs(acc.p.slots[idx])
      <4>1. b = HandleToolEnd(a, idx, rest)
        BY <1>2, <3>3 DEF TakeEvent
      <4> HIDE DEF a, b, idx, rest
      <4>2. QED BY <4>1, <1>1, ToolEndHandled
    <3>4. QED BY <3>1, <3>2, <3>3, <1>2, <1>4, EventKinds
  <2> HIDE DEF a, b
  <2>2. b.p.slots = <<>> => acc.p.slots = <<>>
    <3>1. /\ Slots(b.p.slots, b.p.history_tool_call_cnt)
          /\ Slots(acc.p.slots, acc.p.history_tool_call_cnt)
          /\ DOMAIN b.p.slots = DOMAIN acc.p.slots
      BY <1>1, <2>1 DEF OnlyCalls, IsAcc, IsParser
    <3>2. QED BY <3>1, SlotsEmpty
  <2>3. QED BY <1>1, <1>2, <1>4, <2>1, <2>2 DEF Effect, OnlyCalls, Effective, b
<1>5. QED BY <1>3, <1>4

\* The content of the delta changes.
LEMMA ContentChanges ==
  ASSUME NEW acc, IsAcc(acc), NEW x
  PROVE  LET b == [acc EXCEPT !.content = x]
         IN  /\ IsAcc(b) /\ b.content = x /\ b.p = acc.p /\ b.reasoning = acc.reasoning
             /\ b.deltas = acc.deltas /\ b.seen = acc.seen
<1>1. acc = [p |-> acc.p, content |-> acc.content, reasoning |-> acc.reasoning,
             deltas |-> acc.deltas, seen |-> acc.seen] /\ IsParser(acc.p)
  BY DEF IsAcc
<1>2. QED BY <1>1 DEF IsAcc

\* The reasoning of the delta changes.
LEMMA ReasoningChanges ==
  ASSUME NEW acc, IsAcc(acc), NEW x
  PROVE  LET b == [acc EXCEPT !.reasoning = x]
         IN  /\ IsAcc(b) /\ b.reasoning = x /\ b.p = acc.p /\ b.content = acc.content
             /\ b.deltas = acc.deltas /\ b.seen = acc.seen
<1>1. acc = [p |-> acc.p, content |-> acc.content, reasoning |-> acc.reasoning,
             deltas |-> acc.deltas, seen |-> acc.seen] /\ IsParser(acc.p)
  BY DEF IsAcc
<1>2. QED BY <1>1 DEF IsAcc

\* The deferred content changes.
LEMMA DeferredChanges ==
  ASSUME NEW acc, IsAcc(acc), NEW x
  PROVE  LET b == [acc EXCEPT !.p.deferred_content = x]
         IN  /\ IsAcc(b) /\ b.content = acc.content /\ b.reasoning = acc.reasoning
             /\ b.deltas = acc.deltas /\ b.seen = acc.seen
             /\ b.p.deferred_content = x /\ b.p.slots = acc.p.slots
             /\ b.p.reasoning_ended = acc.p.reasoning_ended
             /\ b.p.saw_reasoning_end = acc.p.saw_reasoning_end
             /\ b.p.content_has_nonws = acc.p.content_has_nonws
             /\ b.p.deferred_reasoning = acc.p.deferred_reasoning
<1>1. acc = [p |-> acc.p, content |-> acc.content, reasoning |-> acc.reasoning,
             deltas |-> acc.deltas, seen |-> acc.seen] /\ IsParser(acc.p)
  BY DEF IsAcc
<1> DEFINE p == [acc.p EXCEPT !.deferred_content = x]
           b == [acc EXCEPT !.p = p]
<1>4. /\ IsParser(p)
      /\ p.deferred_content = x /\ p.slots = acc.p.slots
      /\ p.reasoning_ended = acc.p.reasoning_ended
      /\ p.saw_reasoning_end = acc.p.saw_reasoning_end
      /\ p.content_has_nonws = acc.p.content_has_nonws
      /\ p.deferred_reasoning = acc.p.deferred_reasoning
  BY <1>1 DEF IsParser
<1> HIDE DEF p
<1>5. /\ b.content = acc.content /\ b.reasoning = acc.reasoning
      /\ b.deltas = acc.deltas /\ b.seen = acc.seen /\ b.p = p
      /\ IsAcc(b)
  BY <1>1, <1>4 DEF IsAcc
<1>6. b = [acc EXCEPT !.p.deferred_content = x]
  BY DEF p
<1> HIDE DEF b
<1>7. QED BY <1>4, <1>5, <1>6

\* The reasoning ends.
LEMMA EndSeen ==
  ASSUME NEW acc, IsAcc(acc)
  PROVE  LET b == [acc EXCEPT !.p.reasoning_ended = TRUE, !.p.saw_reasoning_end = TRUE]
         IN  /\ IsAcc(b) /\ b.content = acc.content /\ b.reasoning = acc.reasoning
             /\ b.deltas = acc.deltas /\ b.seen = acc.seen
             /\ b.p.deferred_content = acc.p.deferred_content /\ b.p.slots = acc.p.slots
             /\ b.p.reasoning_ended = TRUE /\ b.p.saw_reasoning_end = TRUE
             /\ b.p.content_has_nonws = acc.p.content_has_nonws
             /\ b.p.deferred_reasoning = acc.p.deferred_reasoning
<1>1. acc = [p |-> acc.p, content |-> acc.content, reasoning |-> acc.reasoning,
             deltas |-> acc.deltas, seen |-> acc.seen] /\ IsParser(acc.p)
  BY DEF IsAcc
<1> DEFINE q == [acc.p EXCEPT !.reasoning_ended = TRUE, !.saw_reasoning_end = TRUE]
           b == [acc EXCEPT !.p = q]
<1>2. b = [acc EXCEPT !.p.reasoning_ended = TRUE, !.p.saw_reasoning_end = TRUE]
  BY <1>1
<1>4. /\ IsParser(q)
      /\ q.deferred_content = acc.p.deferred_content /\ q.slots = acc.p.slots
      /\ q.reasoning_ended = TRUE /\ q.saw_reasoning_end = TRUE
      /\ q.content_has_nonws = acc.p.content_has_nonws
      /\ q.deferred_reasoning = acc.p.deferred_reasoning
  <2> DEFINE o == acc.p
             yes == TRUE
             p == [o EXCEPT !.reasoning_ended = yes]
             r == [p EXCEPT !.saw_reasoning_end = yes]
  <2>1. IsParser(o)
    BY <1>1
  <2> HIDE DEF o, yes
  <2>a. /\ IsParser(p)
        /\ p.deferred_content = o.deferred_content /\ p.slots = o.slots
        /\ p.reasoning_ended = yes
        /\ p.content_has_nonws = o.content_has_nonws
        /\ p.deferred_reasoning = o.deferred_reasoning
    BY <2>1 DEF IsParser
  <2>3. r = q
    BY DEF o, yes
  <2> HIDE DEF p
  <2>2. /\ IsParser(r)
        /\ r.deferred_content = o.deferred_content /\ r.slots = o.slots
        /\ r.reasoning_ended = yes /\ r.saw_reasoning_end = yes
        /\ r.content_has_nonws = o.content_has_nonws
        /\ r.deferred_reasoning = o.deferred_reasoning
    BY <2>a DEF IsParser
  <2> HIDE DEF q, r
  <2>4. q.reasoning_ended = TRUE /\ q.saw_reasoning_end = TRUE
    BY <2>2, <2>3 DEF yes
  <2>5. QED BY <2>2, <2>3, <2>4 DEF o
<1> HIDE DEF q
<1>5. /\ b.content = acc.content /\ b.reasoning = acc.reasoning
      /\ b.deltas = acc.deltas /\ b.seen = acc.seen /\ b.p = q
      /\ IsAcc(b)
  BY <1>1, <1>4 DEF IsAcc
<1> HIDE DEF b
<1>6. QED BY <1>2, <1>4, <1>5

\* What one event of an answer does.
LEMMA EventEffect ==
  ASSUME NEW acc, IsAcc(acc), NEW e \in EventSet
  PROVE  Effect(acc, e, TakeEvent(acc, e))
<1> DEFINE b == TakeEvent(acc, e)
<1>1. CASE Effective(e)
  BY <1>1, CallEffect
<1>2. CASE e.type = "TEXT_CHUNK" /\ acc.seen
  <2> DEFINE x == acc.p.deferred_content \o e.value
             d == [acc EXCEPT !.p.deferred_content = x]
  <2>1. b = d
    BY <1>2, EventKinds DEF TakeEvent
  <2> HIDE DEF x
  <2>2. /\ IsAcc(d) /\ d.content = acc.content /\ d.reasoning = acc.reasoning
        /\ d.deltas = acc.deltas /\ d.seen = acc.seen
        /\ d.p.deferred_content = x /\ d.p.slots = acc.p.slots
        /\ d.p.reasoning_ended = acc.p.reasoning_ended
        /\ d.p.saw_reasoning_end = acc.p.saw_reasoning_end
        /\ d.p.content_has_nonws = acc.p.content_has_nonws
        /\ d.p.deferred_reasoning = acc.p.deferred_reasoning
    BY DeferredChanges
  <2> HIDE DEF b, d
  <2>3. QED BY <2>1, <2>2, <1>2, EventKinds DEF Effect, Effective, b, x
<1>3. CASE e.type = "TEXT_CHUNK" /\ ~acc.seen
  <2> DEFINE x == acc.content \o e.value
             d == [acc EXCEPT !.content = x]
  <2>1. b = d
    BY <1>3, EventKinds DEF TakeEvent
  <2> HIDE DEF x
  <2>2. /\ IsAcc(d) /\ d.content = x /\ d.p = acc.p /\ d.reasoning = acc.reasoning
        /\ d.deltas = acc.deltas /\ d.seen = acc.seen
    BY ContentChanges
  <2> HIDE DEF b, d
  <2>3. QED BY <2>1, <2>2, <1>3, EventKinds DEF Effect, Effective, b, x
<1>4. CASE e.type = "REASONING_CHUNK"
  <2> DEFINE x == acc.reasoning \o e.value
             d == [acc EXCEPT !.reasoning = x]
  <2>1. b = d
    BY <1>4, EventKinds DEF TakeEvent
  <2> HIDE DEF x
  <2>2. /\ IsAcc(d) /\ d.reasoning = x /\ d.p = acc.p /\ d.content = acc.content
        /\ d.deltas = acc.deltas /\ d.seen = acc.seen
    BY ReasoningChanges
  <2> HIDE DEF b, d
  <2>3. QED BY <2>1, <2>2, <1>4, EventKinds DEF Effect, Effective, b, x
<1>5. CASE e.type = "REASONING_END"
  <2> DEFINE d == [acc EXCEPT !.p.reasoning_ended = TRUE, !.p.saw_reasoning_end = TRUE]
  <2>1. b = d
    BY <1>5, EventKinds DEF TakeEvent
  <2>2. /\ IsAcc(d) /\ d.content = acc.content /\ d.reasoning = acc.reasoning
        /\ d.deltas = acc.deltas /\ d.seen = acc.seen
        /\ d.p.deferred_content = acc.p.deferred_content /\ d.p.slots = acc.p.slots
        /\ d.p.reasoning_ended = TRUE /\ d.p.saw_reasoning_end = TRUE
        /\ d.p.content_has_nonws = acc.p.content_has_nonws
        /\ d.p.deferred_reasoning = acc.p.deferred_reasoning
    BY EndSeen
  <2> HIDE DEF b, d
  <2>3. QED BY <2>1, <2>2, <1>5, EventKinds DEF Effect, Effective, b
<1>6. CASE e.type \in CallEvents /\ Suppress
  <2>1. b = acc
    BY <1>6, EventKinds DEF TakeEvent
  <2> HIDE DEF b
  <2>2. QED BY <2>1, <1>6, EventKinds DEF Effect, Effective, b
<1>7. e.type \in EventTypes
  BY DEF EventSet
<1>8. QED BY <1>1, <1>2, <1>3, <1>4, <1>5, <1>6, <1>7 DEF EventTypes, Effective

---------------------------------------------------------------------------
(* What the events of a batch do.                                          *)

\* The text of a type in the first k events.
Upto(w, k, type) == Of(SubSeq(w, 1, k), type)

\* The reasoning ends in the first k events.
EndIn(w, k) == \E i \in 1 .. k : w[i].type = "REASONING_END"

\* No event of a call comes after text.
CallsFirst(w) ==
  \A i, j \in 1 .. Len(w) : i < j /\ w[i].type = "TEXT_CHUNK" => ~Effective(w[j])

AlongReasoning(p, w, k, b) ==
  /\ b.reasoning = Upto(w, k, "REASONING_CHUNK")
  /\ b.p.reasoning_ended = IF EndIn(w, k) THEN TRUE ELSE p.reasoning_ended
  /\ b.p.saw_reasoning_end = IF EndIn(w, k) THEN TRUE ELSE p.saw_reasoning_end
  /\ b.p.content_has_nonws = p.content_has_nonws
  /\ b.p.deferred_reasoning = p.deferred_reasoning

AlongContent(p, w, k, b) ==
  /\ b.seen \in BOOLEAN
  /\ b.seen => \E i \in 1 .. k : Effective(w[i])
  /\ b.content \in Texts /\ b.p.deferred_content \in Texts
  /\ ~b.seen => /\ b.content = Upto(w, k, "TEXT_CHUNK")
                /\ b.p.deferred_content = p.deferred_content
                /\ b.deltas = <<>> /\ b.p.slots = p.slots
  /\ b.seen /\ CallsFirst(w) =>
       /\ b.content = <<>>
       /\ b.p.deferred_content = p.deferred_content \o Upto(w, k, "TEXT_CHUNK")
  /\ b.p.slots = <<>> =>
       /\ p.slots = <<>>
       /\ \A i \in 1 .. k : ~(Effective(w[i]) /\ w[i].type = "TOOL_CALL_START")

\* One event more.
LEMMA PrefixNext ==
  ASSUME NEW w \in Seq(EventSet), NEW k \in Nat, k + 1 <= Len(w)
  PROVE  /\ SubSeq(w, 1, k) \in Seq(EventSet) /\ w[k + 1] \in EventSet
         /\ SubSeq(w, 1, k + 1) = Append(SubSeq(w, 1, k), w[k + 1])
<1> DEFINE j == k + 1
<1>1. j \in 1 .. Len(w) /\ j - 1 = k /\ <<>> \in Seq(EventSet)
  BY EmptySeq, LenProperties
<1> HIDE DEF j
<1>2. /\ SubSeq(w, 1, j - 1) \in Seq(EventSet) /\ SubSeq(w, 1, j) \in Seq(EventSet)
  <2>1. j \in 0 .. Len(w) /\ j - 1 \in 0 .. Len(w)
    BY <1>1, LenProperties
  <2>2. QED BY <2>1, CutInTwo
<1>3. <<>> \o SubSeq(w, 1, j) = Append(<<>> \o SubSeq(w, 1, j - 1), w[j]) /\ w[j] \in EventSet
  BY <1>1, PrefixGrows
<1>4. <<>> \o SubSeq(w, 1, j) = SubSeq(w, 1, j) /\ <<>> \o SubSeq(w, 1, j - 1) = SubSeq(w, 1, j - 1)
  BY <1>2, ConcatEmptySeq
<1>5. SubSeq(w, 1, j) = Append(SubSeq(w, 1, k), w[j]) /\ SubSeq(w, 1, k) \in Seq(EventSet)
  BY <1>1, <1>2, <1>3, <1>4
<1>6. QED BY <1>3, <1>5 DEF j

\* What it adds to the text.
LEMMA UptoNext ==
  ASSUME NEW w \in Seq(EventSet), NEW k \in Nat, k + 1 <= Len(w), NEW type \in TextTypes
  PROVE  /\ Upto(w, k, type) \in Texts
         /\ Upto(w, k + 1, type) =
              IF w[k + 1].type = type THEN Upto(w, k, type) \o w[k + 1].value
              ELSE Upto(w, k, type)
         /\ w[k + 1].type = type => w[k + 1].value \in Texts
<1> DEFINE u == SubSeq(w, 1, k)
           v == SubSeq(w, 1, k + 1)
           e == w[k + 1]
           t == Of(u, type)
           a == Adding(e, type)
<1>1. u \in Seq(EventSet) /\ e \in EventSet /\ v = Append(u, e)
  BY PrefixNext
<1> HIDE DEF u, v, e
<1>2. t \in Seq(Characters) /\ Of(Append(u, e), type) = t \o a
  BY <1>1, OfAppend
<1>3. a \in Seq(Characters)
  BY <1>1, AddingFacts
<1>4. CASE e.type = type
  <2>1. a = e.value
    BY <1>4 DEF Adding
  <2>2. QED BY <1>1, <1>2, <1>3, <2>1, <1>4 DEF Upto, Texts, u, v, e
<1>5. CASE e.type # type
  <2>1. a = <<>>
    BY <1>5 DEF Adding
  <2>2. t \o <<>> = t
    BY <1>2, ConcatEmptySeq
  <2>3. QED BY <1>1, <1>2, <2>1, <2>2, <1>5 DEF Upto, Texts, u, v, e
<1>6. QED BY <1>4, <1>5

\* Of no events there is no text.
LEMMA UptoNone == ASSUME NEW w, NEW type PROVE Upto(w, 0, type) = <<>>
  <1>1. SubSeq(w, 1, 0) = <<>>
    BY SubSeqEmpty
  <1>2. QED BY <1>1, OfNothing DEF Upto

\* Nor of events of other types.
LEMMA NoText ==
  ASSUME NEW w \in Seq(EventSet), NEW type \in TextTypes
  PROVE  \A k \in 0 .. Len(w) :
           (\A i \in 1 .. k : w[i].type # type) => Upto(w, k, type) = <<>>
<1> DEFINE None(k) == (\A i \in 1 .. k : w[i].type # type) => Upto(w, k, type) = <<>>
           Good == {k \in Nat : k <= Len(w) => None(k)}
<1>1. Len(w) \in Nat
  BY LenProperties
<1>2. 0 \in Good
  BY UptoNone
<1>3. ASSUME NEW k \in Nat, k \in Good PROVE k + 1 \in Good
  <2>1. SUFFICES ASSUME k + 1 <= Len(w), \A i \in 1 .. k + 1 : w[i].type # type
                 PROVE  Upto(w, k + 1, type) = <<>>
    OBVIOUS
  <2>2. k <= Len(w) /\ k + 1 \in 1 .. k + 1 /\ \A i \in 1 .. k : i \in 1 .. k + 1
    BY <2>1, <1>1
  <2>3. Upto(w, k, type) = <<>>
    BY <2>1, <2>2, <1>3
  <2>4. Upto(w, k + 1, type) = Upto(w, k, type)
    BY <2>1, <2>2, UptoNext
  <2>5. QED BY <2>3, <2>4
<1>4. \A k \in Nat : k \in Good
  <2> HIDE DEF Good
  <2>1. QED BY <1>2, <1>3, NatInductionSet
<1>5. QED BY <1>1, <1>4

\* The reasoning along a batch.
LEMMA ReasoningStep ==
  ASSUME NEW p, NEW w \in Seq(EventSet), NEW k \in Nat, k + 1 <= Len(w),
         NEW a, NEW b, AlongReasoning(p, w, k, a), Effect(a, w[k + 1], b)
  PROVE  AlongReasoning(p, w, k + 1, b)
<1> DEFINE e == w[k + 1]
<1>1. "REASONING_CHUNK" \in TextTypes
  BY DEF TextTypes
<1>2. b.reasoning = Upto(w, k + 1, "REASONING_CHUNK")
  <2>1. Upto(w, k + 1, "REASONING_CHUNK") =
          IF e.type = "REASONING_CHUNK" THEN Upto(w, k, "REASONING_CHUNK") \o e.value
          ELSE Upto(w, k, "REASONING_CHUNK")
    BY <1>1, UptoNext
  <2> HIDE DEF e
  <2>2. a.reasoning = Upto(w, k, "REASONING_CHUNK")
    BY DEF AlongReasoning
  <2>3. b.reasoning = IF e.type = "REASONING_CHUNK" THEN a.reasoning \o e.value ELSE a.reasoning
    BY DEF Effect, e
  <2>4. QED BY <2>1, <2>2, <2>3
<1>3. EndIn(w, k + 1) <=> EndIn(w, k) \/ e.type = "REASONING_END"
  <2>1. \A i : i \in 1 .. k + 1 <=> i \in 1 .. k \/ i = k + 1
    OBVIOUS
  <2>2. QED BY <2>1 DEF EndIn
<1>4. /\ b.p.content_has_nonws = p.content_has_nonws
      /\ b.p.deferred_reasoning = p.deferred_reasoning
  BY DEF AlongReasoning, Effect
<1>5. CASE e.type = "REASONING_END"
  <2>1. b.p.reasoning_ended = TRUE /\ b.p.saw_reasoning_end = TRUE
    BY <1>5 DEF Effect
  <2>2. QED BY <2>1, <1>2, <1>3, <1>4, <1>5 DEF AlongReasoning
<1>6. CASE e.type # "REASONING_END"
  <2>1. /\ b.p.reasoning_ended = a.p.reasoning_ended
        /\ b.p.saw_reasoning_end = a.p.saw_reasoning_end
    BY <1>6 DEF Effect
  <2>2. QED BY <2>1, <1>2, <1>3, <1>4, <1>6 DEF AlongReasoning
<1>7. QED BY <1>5, <1>6

\* The content along a batch.
LEMMA ContentStep ==
  ASSUME NEW p, p.deferred_content \in Texts,
         NEW w \in Seq(EventSet), NEW k \in Nat, k + 1 <= Len(w),
         NEW a, NEW b, AlongContent(p, w, k, a), Effect(a, w[k + 1], b)
  PROVE  AlongContent(p, w, k + 1, b)
<1> DEFINE e == w[k + 1]
           x == Upto(w, k, "TEXT_CHUNK")
           y == Upto(w, k + 1, "TEXT_CHUNK")
           D == p.deferred_content
<1>1. x \in Texts /\ y = (IF e.type = "TEXT_CHUNK" THEN x \o e.value ELSE x)
      /\ (e.type = "TEXT_CHUNK" => e.value \in Texts)
  <2>1. "TEXT_CHUNK" \in TextTypes
    BY DEF TextTypes
  <2>2. QED BY <2>1, UptoNext
<1>2. \A i : i \in 1 .. k + 1 <=> i \in 1 .. k \/ i = k + 1
  OBVIOUS
<1>3. b.seen \in BOOLEAN /\ (b.seen <=> Effective(e) \/ a.seen)
  BY DEF AlongContent, Effect
<1>4. b.seen => \E i \in 1 .. k + 1 : Effective(w[i])
  BY <1>2, <1>3 DEF AlongContent
<1>5. b.content \in Texts /\ b.p.deferred_content \in Texts
  <2>1. a.content \in Texts /\ a.p.deferred_content \in Texts
    BY DEF AlongContent
  <2>2. CASE e.type = "TEXT_CHUNK" /\ a.seen
    <3>1. b.content = a.content /\ b.p.deferred_content = a.p.deferred_content \o e.value
      BY <2>2 DEF Effect
    <3>2. QED BY <3>1, <2>1, <2>2, <1>1, ConcatProperties DEF Texts
  <2>3. CASE e.type = "TEXT_CHUNK" /\ ~a.seen
    <3>1. b.content = a.content \o e.value /\ b.p.deferred_content = a.p.deferred_content
      BY <2>3 DEF Effect
    <3>2. QED BY <3>1, <2>1, <2>3, <1>1, ConcatProperties DEF Texts
  <2>4. CASE e.type # "TEXT_CHUNK"
    BY <2>1, <2>4 DEF Effect
  <2>5. QED BY <2>2, <2>3, <2>4
<1>6. ASSUME ~b.seen
      PROVE  /\ b.content = y /\ b.p.deferred_content = D
             /\ b.deltas = <<>> /\ b.p.slots = p.slots
  <2>1. ~Effective(e) /\ ~a.seen
    BY <1>3, <1>6
  <2>2. a.content = x /\ a.p.deferred_content = D /\ a.deltas = <<>> /\ a.p.slots = p.slots
    BY <2>1 DEF AlongContent
  <2>3. b.content = IF e.type = "TEXT_CHUNK" THEN a.content \o e.value ELSE a.content
    BY <2>1 DEF Effect
  <2>4. b.p.deferred_content = a.p.deferred_content /\ b.deltas = a.deltas /\ b.p.slots = a.p.slots
    BY <2>1 DEF Effect
  <2>5. b.content = y
    <3> HIDE DEF e, x, y
    <3>1. QED BY <2>2, <2>3, <1>1
  <2>6. QED BY <2>2, <2>4, <2>5
<1>7. ASSUME b.seen, CallsFirst(w)
      PROVE  b.content = <<>> /\ b.p.deferred_content = D \o y
  <2>1. CASE a.seen
    <3>1. a.content = <<>> /\ a.p.deferred_content = D \o x
      BY <2>1, <1>7 DEF AlongContent
    <3>2. b.content = a.content
      BY <2>1 DEF Effect
    <3>3. b.p.deferred_content = IF e.type = "TEXT_CHUNK" THEN a.p.deferred_content \o e.value
                                 ELSE a.p.deferred_content
      BY <2>1 DEF Effect
    <3> HIDE DEF e, x, y, D
    <3>4. CASE e.type = "TEXT_CHUNK"
      <4>1. x \in Seq(Characters) /\ e.value \in Seq(Characters) /\ D \in Seq(Characters)
        BY <1>1, <3>4 DEF Texts, D
      <4> DEFINE v == e.value
      <4> HIDE DEF v
      <4>0. x \in Seq(Characters) /\ v \in Seq(Characters) /\ D \in Seq(Characters)
        BY <4>1 DEF v
      <4>2. (D \o x) \o v = D \o (x \o v)
        BY <4>0, ConcatAssociative, SMTT(30)
      <4>3. QED BY <4>2, <3>1, <3>2, <3>3, <3>4, <1>1 DEF v
    <3>5. CASE e.type # "TEXT_CHUNK"
      BY <3>1, <3>2, <3>3, <3>5, <1>1
    <3>6. QED BY <3>4, <3>5
  <2>2. CASE ~a.seen
    <3>1. Effective(e) /\ e.type # "TEXT_CHUNK"
      BY <2>2, <1>3, <1>7, EventKinds DEF Effective
    <3>2. x = <<>>
      <4>1. k + 1 \in 1 .. Len(w) /\ Len(w) \in Nat
        BY LenProperties
      <4>2. \A i \in 1 .. k : i \in 1 .. Len(w) /\ i < k + 1
        BY <4>1
      <4>3. \A i \in 1 .. k : w[i].type # "TEXT_CHUNK"
        BY <4>1, <4>2, <3>1, <1>7 DEF CallsFirst
      <4>4. k \in 0 .. Len(w) /\ "TEXT_CHUNK" \in TextTypes
        BY <4>1 DEF TextTypes
      <4>5. QED BY <4>3, <4>4, NoText
    <3>3. a.content = x /\ a.p.deferred_content = D
      BY <2>2 DEF AlongContent
    <3>4. b.content = a.content /\ b.p.deferred_content = a.p.deferred_content
      BY <3>1 DEF Effect
    <3> HIDE DEF e, x, y, D
    <3>5. y = <<>>
      BY <3>1, <3>2, <1>1
    <3>6. D \o <<>> = D
      BY ConcatEmptySeq DEF Texts, D
    <3>7. QED BY <3>2, <3>3, <3>4, <3>5, <3>6
  <2>3. a.seen \in BOOLEAN
    BY DEF AlongContent
  <2>4. QED BY <2>1, <2>2, <2>3
<1>8. ASSUME b.p.slots = <<>>
      PROVE  /\ p.slots = <<>>
             /\ \A i \in 1 .. k + 1 : ~(Effective(w[i]) /\ w[i].type = "TOOL_CALL_START")
  <2>1. a.p.slots = <<>> /\ ~(Effective(e) /\ e.type = "TOOL_CALL_START")
    BY <1>8 DEF Effect
  <2>2. /\ p.slots = <<>>
        /\ \A i \in 1 .. k : ~(Effective(w[i]) /\ w[i].type = "TOOL_CALL_START")
    BY <2>1 DEF AlongContent
  <2>3. QED BY <2>1, <2>2, <1>2
<1>9. QED BY <1>3, <1>4, <1>5, <1>6, <1>7, <1>8 DEF AlongContent

\* What a batch does.
LEMMA BatchEffect ==
  ASSUME NEW p, IsParser(p), p.deferred_content \in Texts, NEW w \in Seq(EventSet)
  PROVE  LET b == FoldLeft(TakeEvent, NewAcc(p), w)
         IN  /\ IsAcc(b) /\ AlongReasoning(p, w, Len(w), b) /\ AlongContent(p, w, Len(w), b)
<1> DEFINE n == Len(w)
<1>1. n \in Nat /\ DOMAIN w = 1 .. n
  BY LenProperties
<1>2. PICK f : /\ f[0] = NewAcc(p) /\ f[n] = FoldLeft(TakeEvent, NewAcc(p), w)
               /\ \A k \in 1 .. n : f[k] = TakeEvent(f[k - 1], w[k])
  <2> DEFINE base == NewAcc(p)
  <2> HIDE DEF n, base
  <2>0. HasRun(base, w, n)
    BY <1>1, EventSteps
  <2>1. PICK f : IsRun(f, base, w, n)
    BY <2>0 DEF HasRun
  <2>2. /\ f[0] = base /\ f[n] = FoldLeft(TakeEvent, base, w)
        /\ \A k \in 1 .. n : f[k] = TakeEvent(f[k - 1], w[k])
    BY <2>1, Zenon DEF IsRun
  <2>3. QED BY <2>2, Zenon DEF base
<1> DEFINE Good == {k \in Nat : k <= n => /\ IsAcc(f[k]) /\ AlongReasoning(p, w, k, f[k])
                                          /\ AlongContent(p, w, k, f[k])}
<1>3. 0 \in Good
  <2> DEFINE b == NewAcc(p)
  <2>1. /\ b.p = p /\ b.content = <<>> /\ b.reasoning = <<>> /\ b.deltas = <<>> /\ b.seen = FALSE
        /\ b = [p |-> b.p, content |-> b.content, reasoning |-> b.reasoning,
                deltas |-> b.deltas, seen |-> b.seen]
    BY DEF NewAcc
  <2> HIDE DEF b
  <2>2. IsAcc(b)
    BY <2>1 DEF IsAcc
  <2>3. Upto(w, 0, "REASONING_CHUNK") = <<>> /\ Upto(w, 0, "TEXT_CHUNK") = <<>>
    BY UptoNone
  <2>4. ~EndIn(w, 0) /\ <<>> \in Texts
    BY EmptySeq DEF EndIn, Texts
  <2>5. AlongReasoning(p, w, 0, b)
    BY <2>1, <2>3, <2>4 DEF AlongReasoning
  <2>6. AlongContent(p, w, 0, b)
    <3>1. b.seen \in BOOLEAN /\ ~b.seen
      BY <2>1
    <3>2. b.content \in Texts /\ b.p.deferred_content \in Texts
      BY <2>1, <2>4
    <3>3. /\ b.content = Upto(w, 0, "TEXT_CHUNK") /\ b.p.deferred_content = p.deferred_content
          /\ b.deltas = <<>> /\ b.p.slots = p.slots
      BY <2>1, <2>3
    <3>4. \A i \in 1 .. 0 : FALSE
      OBVIOUS
    <3>5. QED BY <3>1, <3>2, <3>3, <3>4 DEF AlongContent
  <2>7. f[0] = b
    BY <1>2 DEF b
  <2>8. QED BY <2>2, <2>5, <2>6, <2>7
<1>4. ASSUME NEW k \in Nat, k \in Good PROVE k + 1 \in Good
  <2>1. SUFFICES ASSUME k + 1 <= n
                 PROVE  /\ IsAcc(f[k + 1]) /\ AlongReasoning(p, w, k + 1, f[k + 1])
                        /\ AlongContent(p, w, k + 1, f[k + 1])
    OBVIOUS
  <2> DEFINE a == f[k]
             b == f[k + 1]
             e == w[k + 1]
  <2>2. IsAcc(a) /\ AlongReasoning(p, w, k, a) /\ AlongContent(p, w, k, a)
    BY <2>1, <1>1, <1>4
  <2>3. k + 1 \in 1 .. n /\ (k + 1) - 1 = k /\ k + 1 <= Len(w)
    BY <2>1, <1>1
  <2>4. b = TakeEvent(a, e)
    <3> DEFINE j == k + 1
    <3> HIDE DEF j
    <3>1. f[j] = TakeEvent(f[j - 1], w[j])
      BY <2>3, <1>2 DEF j
    <3>2. QED BY <3>1, <2>3 DEF j
  <2>5. e \in EventSet
    BY <2>3, PrefixNext
  <2> HIDE DEF a, b
  <2>6. Effect(a, e, b)
    <3> HIDE DEF e
    <3>1. QED BY <2>2, <2>4, <2>5, EventEffect
  <2>7. AlongReasoning(p, w, k + 1, b)
    BY <2>2, <2>3, <2>6, ReasoningStep
  <2>8. AlongContent(p, w, k + 1, b)
    BY <2>2, <2>3, <2>6, ContentStep
  <2>9. IsAcc(b)
    BY <2>6 DEF Effect
  <2>10. QED BY <2>7, <2>8, <2>9 DEF b
<1>5. n \in Good
  <2> HIDE DEF Good, n
  <2>1. QED BY <1>1, <1>3, <1>4, NatInductionSet
<1>6. QED BY <1>1, <1>2, <1>5

---------------------------------------------------------------------------
(* What a delta is made of.                                                *)

\* The delta is about calls: its text waits behind them.
AboutCalls(acc) == acc.seen /\ acc.deltas # <<>>

\* The content put together for the delta.
Led(acc) ==
  IF ~acc.p.content_has_nonws /\ acc.p.saw_reasoning_end THEN StripNewlines(Release(acc))
  ELSE Release(acc)

Early(acc) == ~acc.p.content_has_nonws /\ Led(acc) # <<>> /\ Blanks(Led(acc))
Waits(acc, last) == Early(acc) /\ acc.p.slots = <<>> /\ ~last
Drops(acc) == Early(acc) /\ acc.p.slots # <<>> /\ DropWsOnly

\* The fields of a delta, and of the parser after it.
IsOut(acc, last, out) ==
  /\ out = [p |-> out.p, content |-> out.content, reasoning |-> out.reasoning,
            calls |-> out.calls]
  /\ IsParser(out.p)
  /\ out.reasoning = acc.reasoning
  /\ out.p.slots = acc.p.slots
  /\ out.p.reasoning_ended = acc.p.reasoning_ended
  /\ out.p.saw_reasoning_end = acc.p.saw_reasoning_end
  /\ out.p.deferred_reasoning = acc.p.deferred_reasoning
  /\ out.p.content_has_nonws = (acc.p.content_has_nonws \/ ~Blanks(Led(acc)))
  /\ out.p.deferred_content = IF Waits(acc, last) THEN Led(acc)
                              ELSE IF AboutCalls(acc) THEN acc.p.deferred_content ELSE <<>>
  /\ out.content = IF Waits(acc, last) \/ Drops(acc) THEN <<>> ELSE Led(acc)

\* _events_to_delta after its loop.
LEMMA DeltaEffect ==
  ASSUME NEW acc, IsAcc(acc), NEW last \in BOOLEAN
  PROVE  IsOut(acc, last, DeltaOf(acc, last))
<1> DEFINE o == acc.p
           d == IF acc.seen /\ acc.deltas # <<>> THEN o.deferred_content ELSE <<>>
           p == [o EXCEPT !.deferred_content = d]
           text == Lead(p, Release(acc))
           as == Assemble(p, text, last)
           out == DeltaOf(acc, last)
           v == p.content_has_nonws \/ ~Blanks(text)
           early == ~p.content_has_nonws /\ text # <<>> /\ Blanks(text)
           wait == early /\ p.slots = <<>> /\ ~last
           drop == early /\ p.slots # <<>> /\ DropWsOnly
           e == IF wait THEN text ELSE p.deferred_content
           p1 == [p EXCEPT !.content_has_nonws = v]
           q == [p1 EXCEPT !.deferred_content = e]
<1>1. IsParser(o)
  BY DEF IsAcc
<1>2. out = [p |-> as.p, content |-> as.content, reasoning |-> acc.reasoning,
             calls |-> Coalesce(acc.deltas)]
  <2>1. p = [acc.p EXCEPT !.deferred_content =
               IF acc.seen /\ acc.deltas # <<>> THEN @ ELSE <<>>]
    OBVIOUS
  <2> HIDE DEF p
  <2>2. QED BY <2>1, Zenon DEF DeltaOf
<1>3. /\ IsParser(p) /\ p.deferred_content = d
      /\ p.slots = o.slots
      /\ p.reasoning_ended = o.reasoning_ended
      /\ p.saw_reasoning_end = o.saw_reasoning_end
      /\ p.content_has_nonws = o.content_has_nonws
      /\ p.deferred_reasoning = o.deferred_reasoning
  <2> HIDE DEF o, d
  <2>1. QED BY <1>1 DEF IsParser
<1>4. as = [p |-> q, content |-> IF wait \/ drop THEN <<>> ELSE text]
  <2> HIDE DEF p, text
  <2>1. q = [p EXCEPT !.content_has_nonws = @ \/ ~Blanks(text),
                      !.deferred_content = IF wait THEN text ELSE @]
    BY <1>3 DEF IsParser
  <2> HIDE DEF q
  <2>2. QED BY <2>1, Zenon DEF Assemble
<1> HIDE DEF p
<1>5. text = Led(acc)
  BY <1>3 DEF Lead, Led
<1> HIDE DEF as, text
<1>6. /\ IsParser(p1) /\ p1.content_has_nonws = v
      /\ p1.slots = o.slots
      /\ p1.reasoning_ended = o.reasoning_ended
      /\ p1.saw_reasoning_end = o.saw_reasoning_end
      /\ p1.deferred_reasoning = o.deferred_reasoning
  <2> HIDE DEF v
  <2>1. QED BY <1>3 DEF IsParser
<1> HIDE DEF p1
<1>7. /\ IsParser(q) /\ q.deferred_content = e /\ q.content_has_nonws = v
      /\ q.slots = o.slots
      /\ q.reasoning_ended = o.reasoning_ended
      /\ q.saw_reasoning_end = o.saw_reasoning_end
      /\ q.deferred_reasoning = o.deferred_reasoning
  <2> HIDE DEF v, e
  <2>1. QED BY <1>6 DEF IsParser
<1> HIDE DEF q, v, wait, drop, e
<1>8. /\ out.p = q /\ out.reasoning = acc.reasoning
      /\ out.content = IF wait \/ drop THEN <<>> ELSE text
      /\ out = [p |-> out.p, content |-> out.content, reasoning |-> out.reasoning,
                calls |-> out.calls]
  <2> HIDE DEF out
  <2>1. QED BY <1>2, <1>4
<1> HIDE DEF out
<1>9. /\ wait <=> Waits(acc, last)
      /\ drop <=> Drops(acc)
  BY <1>3, <1>5 DEF wait, drop, Waits, Drops, Early
<1>10. v = (acc.p.content_has_nonws \/ ~Blanks(Led(acc)))
  BY <1>3, <1>5 DEF v
<1>11. e = IF Waits(acc, last) THEN Led(acc)
           ELSE IF AboutCalls(acc) THEN acc.p.deferred_content ELSE <<>>
  BY <1>3, <1>5, <1>9 DEF e, AboutCalls
<1>12. IsOut(acc, last, out)
  BY <1>5, <1>7, <1>8, <1>9, <1>10, <1>11 DEF IsOut
<1>13. QED BY <1>12 DEF out

\* _strip_trailing_reasoning
LEMMA TrailingEffect ==
  ASSUME NEW acc, NEW last, NEW out, IsOut(acc, last, out)
  PROVE  LET new == StripTrailingReasoning(out)
             combined == out.p.deferred_reasoning \o out.reasoning
         IN  /\ IsParser(new.p)
             /\ new.p.slots = out.p.slots
             /\ new.p.reasoning_ended = out.p.reasoning_ended
             /\ new.p.saw_reasoning_end = out.p.saw_reasoning_end
             /\ new.p.content_has_nonws = out.p.content_has_nonws
             /\ new.p.deferred_content = out.p.deferred_content
             /\ new.content = out.content
             /\ ~StripReasoning => /\ new.reasoning = out.reasoning
                                   /\ new.p.deferred_reasoning = out.p.deferred_reasoning
             /\ StripReasoning /\ out.reasoning # <<>> =>
                  /\ new.reasoning = StripEnd(combined)
                  /\ new.p.deferred_reasoning = From(combined, Len(StripEnd(combined)) + 1)
             /\ StripReasoning /\ out.reasoning = <<>> =>
                  /\ new.reasoning = <<>>
                  /\ new.p.deferred_reasoning =
                       IF out.p.reasoning_ended THEN <<>> ELSE out.p.deferred_reasoning
<1> DEFINE new == StripTrailingReasoning(out)
           o == out.p
           combined == o.deferred_reasoning \o out.reasoning
           s == StripEnd(combined)
           rest == From(combined, Len(s) + 1)
           left == IF o.reasoning_ended THEN <<>> ELSE o.deferred_reasoning
           a == [o EXCEPT !.deferred_reasoning = rest]
           b == [o EXCEPT !.deferred_reasoning = left]
<1>1. /\ IsParser(o)
      /\ out = [p |-> out.p, content |-> out.content, reasoning |-> out.reasoning,
                calls |-> out.calls]
  BY DEF IsOut
<1>2. CASE ~StripReasoning
  <2>1. new = out
    BY <1>2 DEF StripTrailingReasoning
  <2> HIDE DEF new
  <2>2. QED BY <2>1, <1>1, <1>2 DEF new
<1>3. CASE StripReasoning /\ out.reasoning # <<>>
  <2>1. new = [out EXCEPT !.reasoning = s, !.p = a]
    BY <1>3, Zenon DEF StripTrailingReasoning
  <2>2. /\ IsParser(a) /\ a.deferred_reasoning = rest
        /\ a.slots = o.slots
        /\ a.reasoning_ended = o.reasoning_ended
        /\ a.saw_reasoning_end = o.saw_reasoning_end
        /\ a.content_has_nonws = o.content_has_nonws
        /\ a.deferred_content = o.deferred_content
    <3> HIDE DEF o, rest
    <3>1. QED BY <1>1 DEF IsParser
  <2> HIDE DEF new, a, s
  <2>3. new.p = a /\ new.reasoning = s /\ new.content = out.content
    BY <2>1, <1>1
  <2>4. QED BY <2>2, <2>3, <1>3 DEF s, new
<1>4. CASE StripReasoning /\ out.reasoning = <<>>
  <2>1. new = [out EXCEPT !.p = b]
    BY <1>4, Zenon DEF StripTrailingReasoning
  <2>2. /\ IsParser(b) /\ b.deferred_reasoning = left
        /\ b.slots = o.slots
        /\ b.reasoning_ended = o.reasoning_ended
        /\ b.saw_reasoning_end = o.saw_reasoning_end
        /\ b.content_has_nonws = o.content_has_nonws
        /\ b.deferred_content = o.deferred_content
    <3> HIDE DEF o, left
    <3>1. QED BY <1>1 DEF IsParser
  <2> HIDE DEF new, b
  <2>3. new.p = b /\ new.reasoning = out.reasoning /\ new.content = out.content
    BY <2>1, <1>1
  <2>4. QED BY <2>2, <2>3, <1>4 DEF new
<1>5. QED BY <1>2, <1>3, <1>4

---------------------------------------------------------------------------
(* The events of an answer.                                                *)

\* The types that occur in a list of events.
TypesOf(s) == {s[i].type : i \in 1 .. Len(s)}

\* Text is followed by no event of a call.
TextLast(s) ==
  \A i, j \in 1 .. Len(s) : i < j /\ s[i].type = "TEXT_CHUNK" => s[j].type \notin CallEvents

\* Of no events there are no types.
LEMMA NoTypes == TypesOf(<<>>) = {} /\ TextLast(<<>>)
  BY EmptySeq DEF TypesOf, TextLast

\* An event adds its type.
LEMMA TypesAppend ==
  ASSUME NEW s \in Seq(EventSet), NEW e \in EventSet
  PROVE  /\ Append(s, e) \in Seq(EventSet)
         /\ TypesOf(Append(s, e)) = TypesOf(s) \union {e.type}
         /\ TextLast(s) /\ ("TEXT_CHUNK" \in TypesOf(s) => e.type \notin CallEvents)
              => TextLast(Append(s, e))
<1> DEFINE n == Len(s)
           t == Append(s, e)
<1>1. /\ t \in Seq(EventSet) /\ Len(t) = n + 1 /\ t[n + 1] = e
      /\ \A i \in 1 .. n : t[i] = s[i]
  BY AppendProperties
<1>2. n \in Nat
  BY LenProperties
<1> HIDE DEF t
<1>3. \A i : i \in 1 .. n + 1 <=> i \in 1 .. n \/ i = n + 1
  BY <1>2
<1>4. TypesOf(t) = TypesOf(s) \union {e.type}
  <2>1. TypesOf(t) = {t[i].type : i \in 1 .. n + 1}
    BY <1>1 DEF TypesOf
  <2> HIDE DEF n
  <2>2. \A x : x \in {t[i].type : i \in 1 .. n + 1} <=> x \in {s[i].type : i \in 1 .. n} \/ x = e.type
    BY <1>1, <1>3
  <2>3. QED BY <2>1, <2>2 DEF TypesOf, n
<1>5. ASSUME TextLast(s), "TEXT_CHUNK" \in TypesOf(s) => e.type \notin CallEvents
      PROVE  TextLast(t)
  <2>1. SUFFICES ASSUME NEW i \in 1 .. n + 1, NEW j \in 1 .. n + 1, i < j,
                        t[i].type = "TEXT_CHUNK"
                 PROVE  t[j].type \notin CallEvents
    BY <1>1 DEF TextLast
  <2>2. i \in 1 .. n
    BY <2>1, <1>2
  <2>3. "TEXT_CHUNK" \in TypesOf(s)
    <3>1. s[i].type = "TEXT_CHUNK"
      BY <2>1, <2>2, <1>1
    <3>2. QED BY <2>2, <3>1 DEF TypesOf
  <2>4. CASE j = n + 1
    BY <2>3, <2>4, <1>1, <1>5
  <2>5. CASE j \in 1 .. n
    BY <2>1, <2>2, <2>5, <1>1, <1>5 DEF TextLast
  <2>6. QED BY <2>4, <2>5, <1>3
<1>6. QED BY <1>1, <1>4, <1>5 DEF t

\* The types of two lists.
LEMMA TypesConcat ==
  ASSUME NEW s \in Seq(EventSet), NEW t \in Seq(EventSet)
  PROVE  s \o t \in Seq(EventSet) /\ TypesOf(s \o t) = TypesOf(s) \union TypesOf(t)
<1> DEFINE n == Len(s)
           m == Len(t)
           c == s \o t
<1>1. /\ c \in Seq(EventSet) /\ Len(c) = n + m /\ n \in Nat /\ m \in Nat
      /\ \A i \in 1 .. n : c[i] = s[i]
      /\ \A i \in 1 .. m : c[n + i] = t[i]
  BY JoinedAt
<1> HIDE DEF n, m, c
<1>2. \A x : x \in {c[i].type : i \in 1 .. n + m} <=>
             x \in {s[i].type : i \in 1 .. n} \/ x \in {t[i].type : i \in 1 .. m}
  <2>1. \A i \in 1 .. n + m : i \in 1 .. n \/ i - n \in 1 .. m
    BY <1>1
  <2>2. \A i \in 1 .. n : i \in 1 .. n + m
    BY <1>1
  <2>3. \A i \in 1 .. m : n + i \in 1 .. n + m
    BY <1>1
  <2>4. \A i \in 1 .. n + m : n + (i - n) = i
    BY <1>1
  <2>5. ASSUME NEW i \in 1 .. n + m
        PROVE  c[i].type \in {s[k].type : k \in 1 .. n} \union {t[k].type : k \in 1 .. m}
    <3>1. CASE i \in 1 .. n
      BY <3>1, <1>1
    <3>2. CASE i - n \in 1 .. m
      <4> DEFINE k == i - n
      <4>1. n + k = i
        BY <2>4
      <4> HIDE DEF k
      <4>2. k \in 1 .. m
        BY <3>2 DEF k
      <4>3. c[n + k] = t[k]
        BY <4>2, <1>1
      <4>4. QED BY <4>1, <4>2, <4>3
    <3>3. QED BY <3>1, <3>2, <2>1
  <2>6. ASSUME NEW k \in 1 .. n PROVE s[k].type \in {c[i].type : i \in 1 .. n + m}
    BY <2>2, <1>1
  <2>7. ASSUME NEW k \in 1 .. m PROVE t[k].type \in {c[i].type : i \in 1 .. n + m}
    <3>1. n + k \in 1 .. n + m /\ c[n + k] = t[k]
      BY <2>3, <1>1
    <3> DEFINE i == n + k
    <3>2. i \in 1 .. n + m /\ c[i].type = t[k].type
      BY <3>1
    <3> HIDE DEF i
    <3>3. QED BY <3>2
  <2>8. QED BY <2>5, <2>6, <2>7
<1>3. QED BY <1>1, <1>2 DEF TypesOf, n, m, c

\* A longer chunk of arguments is of the same type.
LEMMA TypesExcept ==
  ASSUME NEW s \in Seq(EventSet), NEW k \in 1 .. Len(s), NEW v,
         [s[k] EXCEPT !.value = v] \in EventSet
  PROVE  LET t == [s EXCEPT ![k].value = v]
         IN  t \in Seq(EventSet) /\ TypesOf(t) = TypesOf(s) /\ (TextLast(s) => TextLast(t))
<1> DEFINE n == Len(s)
           e == [s[k] EXCEPT !.value = v]
           t == [s EXCEPT ![k] = e]
<1>0. t = [s EXCEPT ![k].value = v]
  OBVIOUS
<1>1. n \in Nat /\ s \in [1 .. n -> EventSet]
  BY LenProperties
<1>2. e \in EventSet /\ e.type = s[k].type
  <2>1. s[k] \in EventSet
    BY ElementOfSeq
  <2>2. QED BY <2>1 DEF EventSet
<1> HIDE DEF e
<1>3. t \in [1 .. n -> EventSet] /\ \A i \in 1 .. n : t[i].type = s[i].type
  BY <1>1, <1>2
<1> HIDE DEF t
<1>4. t \in Seq(EventSet) /\ Len(t) = n
  <2> HIDE DEF n
  <2>1. t \in Seq(EventSet)
    BY <1>1, <1>3, SeqDef
  <2>2. DOMAIN t = 1 .. n /\ DOMAIN t = 1 .. Len(t) /\ Len(t) \in Nat
    BY <1>3, <2>1, LenProperties
  <2> DEFINE m == Len(t)
  <2> HIDE DEF m
  <2>3. m \in Nat /\ n \in Nat /\ 1 .. n = 1 .. m
    BY <1>1, <2>2 DEF m
  <2>4. m = n
    <3>1. m \in 1 .. m \/ m = 0
      BY <2>3
    <3>2. n \in 1 .. n \/ n = 0
      BY <2>3
    <3>3. QED BY <2>3, <3>1, <3>2
  <2>5. QED BY <2>1, <2>4 DEF m
<1>5. QED BY <1>0, <1>3, <1>4 DEF TypesOf, TextLast

Phases == {"reasoning", "content", "name", "args"}

\* What the events parsed and the events to come are, where the answer is.
Lexed ==
  /\ given \in Seq(EventSet) /\ batch \in Seq(EventSet)
  /\ lexer.phase \in Phases /\ lexer.calls \in Nat
  /\ lexer.phase = "reasoning" =>
       TypesOf(given) \union TypesOf(batch) \subseteq {"REASONING_CHUNK"}
  /\ lexer.phase \in {"name", "args"} => lexer.calls # 0
  /\ lexer.calls = 0 => (TypesOf(given) \union TypesOf(batch)) \cap CallEvents = {}
  /\ lexer.calls # 0 => "TOOL_CALL_START" \in TypesOf(given) \union TypesOf(batch)
  /\ "REASONING_END" \in TypesOf(given) => "REASONING_CHUNK" \notin TypesOf(batch)
  /\ "REASONING_END" \in TypesOf(batch) => TypesOf(given) \subseteq {"REASONING_CHUNK"}
  /\ ~Mixes => /\ TextLast(batch)
               /\ lexer.phase \in {"name", "args"} => "TEXT_CHUNK" \notin TypesOf(batch)

\* The event that the lexer yields, and where it leaves the answer.
Follows(e, phase) ==
  \/ /\ lexer.phase = "reasoning" /\ e.type = "REASONING_CHUNK" /\ e.index = 0
     /\ phase = "reasoning"
  \/ /\ lexer.phase = "reasoning" /\ e.type = "REASONING_END" /\ e.index = 0
     /\ phase = "content"
  \/ /\ lexer.phase = "content" /\ e.type = "TEXT_CHUNK" /\ e.index = 0
     /\ phase = "content"
  \/ /\ lexer.phase = "content" /\ e.type = "TOOL_CALL_START" /\ e.index = lexer.calls + 1
     /\ phase = "name" /\ (~Mixes => "TEXT_CHUNK" \notin TypesOf(batch))
  \/ /\ lexer.phase \in {"name", "args"} /\ e.type \in CallEvents /\ e.index = lexer.calls
     /\ phase \in {"name", "args", "content"}

\* What the lexer may yield.
LEMMA NextYields ==
  ASSUME Lexed, NEW next \in NextEvents
  PROVE  next.event \in EventSet /\ Follows(next.event, next.phase)
<1> DEFINE call == lexer.calls
           e == next.event
<1>1. call \in Nat /\ lexer.phase \in Phases /\ <<>> \in Seq(Symbols)
  BY EmptySeq DEF Lexed
<1>2. /\ EventTypes = {"TOOL_CALL_START", "TOOL_NAME", "ARG_VALUE_CHUNK", "TOOL_CALL_END",
                       "TEXT_CHUNK", "REASONING_CHUNK", "REASONING_END"}
      /\ CallEvents = {"TOOL_CALL_START", "TOOL_NAME", "ARG_VALUE_CHUNK", "TOOL_CALL_END"}
  BY DEF EventTypes, CallEvents
<1> HIDE DEF call
<1>3. CASE lexer.phase = "reasoning"
  <2>1. NextEvents =
          {[event |-> Event("REASONING_CHUNK", <<c>>, 0), phase |-> "reasoning"] :
             c \in {"x", "nl"}}
          \union {[event |-> Event("REASONING_END", <<>>, 0), phase |-> "content"]}
    BY <1>3 DEF NextEvents
  <2>2. CASE \E c \in {"x", "nl"} :
               next = [event |-> Event("REASONING_CHUNK", <<c>>, 0), phase |-> "reasoning"]
    <3>1. PICK c \in {"x", "nl"} :
               next = [event |-> Event("REASONING_CHUNK", <<c>>, 0), phase |-> "reasoning"]
      BY <2>2
    <3> DEFINE v == <<c>>
    <3>2. v \in Seq({"x", "nl"}) /\ v \in Seq(Symbols)
      BY DEF Symbols, Characters
    <3> HIDE DEF v
    <3>3. e = Event("REASONING_CHUNK", v, 0) /\ next.phase = "reasoning"
      BY <3>1 DEF v
    <3> HIDE DEF e
    <3>4. e \in EventSet /\ e.type = "REASONING_CHUNK" /\ e.index = 0
      BY <3>2, <3>3, <1>2 DEF Event, EventSet
    <3>5. QED BY <3>3, <3>4, <1>3 DEF Follows, e
  <2>3. CASE next = [event |-> Event("REASONING_END", <<>>, 0), phase |-> "content"]
    <3>1. e = Event("REASONING_END", <<>>, 0) /\ next.phase = "content"
      BY <2>3
    <3> HIDE DEF e
    <3>2. e \in EventSet /\ e.type = "REASONING_END" /\ e.index = 0
      BY <3>1, <1>1, <1>2 DEF Event, EventSet
    <3>3. QED BY <3>1, <3>2, <1>3 DEF Follows, e
  <2>4. QED BY <2>1, <2>2, <2>3
<1>4. CASE lexer.phase = "content"
  <2>1. NextEvents =
          {[event |-> Event("TEXT_CHUNK", <<c>>, 0), phase |-> "content"] :
             c \in {"x", "nl", "sp"}}
          \union {[event |-> Event("TOOL_CALL_START", <<>>, call + 1), phase |-> "name"] :
             i \in IF Mixes \/ \A j \in DOMAIN batch : batch[j].type # "TEXT_CHUNK"
                   THEN {1} ELSE {}}
    BY <1>4 DEF NextEvents, call
  <2>2. CASE \E c \in {"x", "nl", "sp"} :
               next = [event |-> Event("TEXT_CHUNK", <<c>>, 0), phase |-> "content"]
    <3>1. PICK c \in {"x", "nl", "sp"} :
               next = [event |-> Event("TEXT_CHUNK", <<c>>, 0), phase |-> "content"]
      BY <2>2
    <3> DEFINE v == <<c>>
    <3>2. v \in Seq(Characters) /\ v \in Seq(Symbols)
      BY DEF Symbols, Characters
    <3> HIDE DEF v
    <3>3. e = Event("TEXT_CHUNK", v, 0) /\ next.phase = "content"
      BY <3>1 DEF v
    <3> HIDE DEF e
    <3>4. e \in EventSet /\ e.type = "TEXT_CHUNK" /\ e.index = 0
      BY <3>2, <3>3, <1>2 DEF Event, EventSet
    <3>5. QED BY <3>3, <3>4, <1>4 DEF Follows, e
  <2>3. CASE /\ next = [event |-> Event("TOOL_CALL_START", <<>>, call + 1), phase |-> "name"]
             /\ Mixes \/ \A j \in DOMAIN batch : batch[j].type # "TEXT_CHUNK"
    <3> DEFINE n == call + 1
    <3>1. e = Event("TOOL_CALL_START", <<>>, n) /\ next.phase = "name"
      BY <2>3
    <3>2. n \in Nat /\ n # 0
      BY <1>1
    <3> HIDE DEF e, n
    <3>3. e \in EventSet /\ e.type = "TOOL_CALL_START" /\ e.index = n
      BY <3>1, <3>2, <1>1, <1>2 DEF Event, EventSet
    <3>4. ~Mixes => "TEXT_CHUNK" \notin TypesOf(batch)
      <4>1. DOMAIN batch = 1 .. Len(batch)
        BY LenProperties DEF Lexed
      <4>2. QED BY <4>1, <2>3 DEF TypesOf
    <3>5. QED BY <3>1, <3>3, <3>4, <1>4 DEF Follows, e, n, call
  <2>4. QED BY <2>1, <2>2, <2>3
<1>5. CASE lexer.phase \in {"name", "args"}
  <2> DEFINE new == (Keys \ lexer.keys) \union (IF lexer.keys = {} THEN {} ELSE Letters)
             args == {[event |-> Event("ARG_VALUE_CHUNK", <<a>>, call), phase |-> "args"] : a \in new}
             names == {[event |-> Event("TOOL_NAME", <<part>>, call), phase |-> "name"] :
                         part \in Parts}
             ends == [event |-> Event("TOOL_CALL_END", <<>>, call), phase |-> "content"]
  <2>0. call # 0
    BY <1>5 DEF Lexed, call
  <2>1. next \in names \union args \union {ends}
    <3>1. CASE lexer.phase = "name"
      <4>1. NextEvents = names \union args \union {ends}
        BY <3>1 DEF NextEvents, call
      <4>2. QED BY <4>1
    <3>2. CASE lexer.phase = "args"
      <4>1. NextEvents = args \union {ends}
        BY <3>2 DEF NextEvents, call
      <4>2. QED BY <4>1
    <3>3. QED BY <3>1, <3>2, <1>5
  <2>2. CASE next \in names
    <3>1. PICK part \in Parts :
               next = [event |-> Event("TOOL_NAME", <<part>>, call), phase |-> "name"]
      BY <2>2
    <3> DEFINE v == <<part>>
    <3>2. v \in Seq(Parts) /\ v \in Seq(Symbols)
      BY DEF Symbols
    <3> HIDE DEF v
    <3>3. e = Event("TOOL_NAME", v, call) /\ next.phase = "name"
      BY <3>1 DEF v
    <3> HIDE DEF e
    <3>4. e \in EventSet /\ e.type = "TOOL_NAME" /\ e.index = call
      BY <3>2, <3>3, <1>1, <1>2, <2>0 DEF Event, EventSet
    <3>5. QED BY <3>3, <3>4, <1>2, <1>5 DEF Follows, e, call
  <2>3. CASE next \in args
    <3>1. PICK a \in new :
               next = [event |-> Event("ARG_VALUE_CHUNK", <<a>>, call), phase |-> "args"]
      BY <2>3
    <3> DEFINE v == <<a>>
    <3>2. v \in Seq(Keys \union Letters) /\ v \in Seq(Symbols)
      <4>1. a \in Keys \union Letters
        OBVIOUS
      <4>2. QED BY <4>1 DEF Symbols
    <3> HIDE DEF v
    <3>3. e = Event("ARG_VALUE_CHUNK", v, call) /\ next.phase = "args"
      BY <3>1 DEF v
    <3> HIDE DEF e
    <3>4. e \in EventSet /\ e.type = "ARG_VALUE_CHUNK" /\ e.index = call
      BY <3>2, <3>3, <1>1, <1>2, <2>0 DEF Event, EventSet
    <3>5. QED BY <3>3, <3>4, <1>2, <1>5 DEF Follows, e, call
  <2>4. CASE next = ends
    <3>1. e = Event("TOOL_CALL_END", <<>>, call) /\ next.phase = "content"
      BY <2>4
    <3> HIDE DEF e
    <3>2. e \in EventSet /\ e.type = "TOOL_CALL_END" /\ e.index = call
      BY <3>1, <1>1, <1>2, <2>0 DEF Event, EventSet
    <3>3. QED BY <3>1, <3>2, <1>2, <1>5 DEF Follows, e, call
  <2>5. QED BY <2>1, <2>2, <2>3, <2>4
<1>6. QED BY <1>1, <1>3, <1>4, <1>5 DEF Phases

\* Before the first event.
LEMMA LexedInit == ASSUME Init PROVE Lexed
  <1>1. /\ given = <<>> /\ batch = <<>> /\ lexer.phase \in {"reasoning", "content"}
        /\ lexer.calls = 0
    BY DEF Init
  <1>2. given \in Seq(EventSet) /\ batch \in Seq(EventSet) /\ TypesOf(given) = {}
        /\ TypesOf(batch) = {} /\ TextLast(batch)
    BY <1>1, EmptySeq, NoTypes
  <1>3. QED BY <1>1, <1>2 DEF Lexed, Phases

\* The batch goes on with the event the lexer yields.
LEMMA BatchGrows ==
  ASSUME Lexed, NEW e \in EventSet,
         \/ batch' = Append(batch, e)
         \/ /\ batch # <<>> /\ Last(batch).type = "ARG_VALUE_CHUNK"
            /\ e.type = "ARG_VALUE_CHUNK"
            /\ batch' = [batch EXCEPT ![Len(batch)].value = @ \o e.value]
  PROVE  /\ batch' \in Seq(EventSet)
         /\ TypesOf(batch') = TypesOf(batch) \union {e.type}
         /\ TextLast(batch) /\ ("TEXT_CHUNK" \in TypesOf(batch) => e.type \notin CallEvents)
              => TextLast(batch')
<1>1. batch \in Seq(EventSet) /\ Len(batch) \in Nat
  BY LenProperties DEF Lexed
<1>2. CASE batch' = Append(batch, e)
  BY <1>1, <1>2, TypesAppend
<1>3. CASE /\ batch # <<>> /\ Last(batch).type = "ARG_VALUE_CHUNK"
           /\ e.type = "ARG_VALUE_CHUNK"
           /\ batch' = [batch EXCEPT ![Len(batch)].value = @ \o e.value]
  <2> DEFINE n == Len(batch)
             d == batch[n]
             v == d.value \o e.value
  <2>1. n \in 1 .. n
    BY <1>1, <1>3, EmptySeq
  <2>2. d \in EventSet /\ d.type = "ARG_VALUE_CHUNK"
    <3>1. d \in EventSet
      BY <1>1, <2>1, ElementOfSeq
    <3>2. Last(batch) = d
      BY DEF Last
    <3>3. QED BY <3>1, <3>2, <1>3
  <2>3. v \in Seq(Keys \union Letters)
    <3> HIDE DEF d
    <3>1. d.value \in Seq(Keys \union Letters) /\ e.value \in Seq(Keys \union Letters)
      BY <2>2, <1>3 DEF EventSet
    <3>2. QED BY <3>1, ConcatProperties
  <2>4. v \in Seq(Symbols)
    <3>1. Keys \union Letters \subseteq Symbols
      BY DEF Symbols
    <3>2. Seq(Keys \union Letters) \subseteq Seq(Symbols)
      BY <3>1, SeqMonotonic
    <3> HIDE DEF v
    <3>3. QED BY <2>3, <3>2
  <2>5. [d EXCEPT !.value = v] \in EventSet
    <3> HIDE DEF d, v
    <3>1. QED BY <2>2, <2>3, <2>4 DEF EventSet
  <2>6. batch' = [batch EXCEPT ![n].value = v]
    BY <1>3
  <2> HIDE DEF v
  <2>7. /\ batch' \in Seq(EventSet) /\ TypesOf(batch') = TypesOf(batch)
        /\ (TextLast(batch) => TextLast(batch'))
    <3> HIDE DEF n
    <3>1. n \in 1 .. Len(batch)
      BY <2>1 DEF n
    <3>2. QED BY <1>1, <2>5, <2>6, <3>1, TypesExcept
  <2>8. e.type \in TypesOf(batch)
    BY <2>1, <2>2, <1>3 DEF TypesOf
  <2>9. QED BY <2>7, <2>8
<1>4. QED BY <1>2, <1>3

\* Lexing keeps what is known of the events.
LEMMA LexedLex == ASSUME Lexed, Lex PROVE Lexed'
<1>1. PICK next \in NextEvents :
        LET e == next.event
        IN  /\ lexer' = [phase |-> next.phase,
                         calls |-> IF e.index > 0 THEN e.index ELSE lexer.calls,
                         keys |-> IF next.phase = "args"
                                  THEN lexer.keys \union (ToSet(e.value) \cap Keys) ELSE {},
                         written |-> lexer.written + 1]
            /\ \/ Len(batch) < MaxBatch /\ batch' = Append(batch, e)
               \/ /\ batch # <<>> /\ Last(batch).type = "ARG_VALUE_CHUNK"
                  /\ e.type = "ARG_VALUE_CHUNK"
                  /\ batch' = [batch EXCEPT ![Len(batch)].value = @ \o e.value]
  BY DEF Lex
<1>2. given' = given
  BY DEF Lex
<1> DEFINE e == next.event
           phase == next.phase
           G == TypesOf(given)
           B == TypesOf(batch)
           C == TypesOf(batch')
<1>3. e \in EventSet /\ Follows(e, phase)
  BY NextYields
<1>4. /\ lexer'.phase = phase
      /\ lexer'.calls = IF e.index > 0 THEN e.index ELSE lexer.calls
  BY <1>1
<1>5. /\ batch' \in Seq(EventSet) /\ C = B \union {e.type}
      /\ TextLast(batch) /\ ("TEXT_CHUNK" \in B => e.type \notin CallEvents) => TextLast(batch')
  <2>1. \/ batch' = Append(batch, e)
        \/ /\ batch # <<>> /\ Last(batch).type = "ARG_VALUE_CHUNK"
           /\ e.type = "ARG_VALUE_CHUNK"
           /\ batch' = [batch EXCEPT ![Len(batch)].value = @ \o e.value]
    BY <1>1
  <2> HIDE DEF e
  <2>2. QED BY <2>1, <1>3, BatchGrows
<1> HIDE DEF e, phase, B, C, G
<1>6. /\ given \in Seq(EventSet) /\ lexer.phase \in Phases /\ lexer.calls \in Nat
      /\ lexer.phase = "reasoning" => G \union B \subseteq {"REASONING_CHUNK"}
      /\ lexer.phase \in {"name", "args"} => lexer.calls # 0
      /\ lexer.calls = 0 => (G \union B) \cap CallEvents = {}
      /\ lexer.calls # 0 => "TOOL_CALL_START" \in G \union B
      /\ "REASONING_END" \in G => "REASONING_CHUNK" \notin B
      /\ "REASONING_END" \in B => G \subseteq {"REASONING_CHUNK"}
      /\ ~Mixes => /\ TextLast(batch)
                   /\ lexer.phase \in {"name", "args"} => "TEXT_CHUNK" \notin B
  BY DEF Lexed, G, B
<1>7. TypesOf(given') = G
  BY <1>2 DEF G
<1>8. /\ phase \in Phases /\ lexer'.calls \in Nat
      /\ phase = "reasoning" => G \union C \subseteq {"REASONING_CHUNK"}
      /\ phase \in {"name", "args"} => lexer'.calls # 0
      /\ lexer'.calls = 0 => (G \union C) \cap CallEvents = {}
      /\ lexer'.calls # 0 => "TOOL_CALL_START" \in G \union C
      /\ "REASONING_END" \in G => "REASONING_CHUNK" \notin C
      /\ "REASONING_END" \in C => G \subseteq {"REASONING_CHUNK"}
      /\ ~Mixes => /\ TextLast(batch')
                   /\ phase \in {"name", "args"} => "TEXT_CHUNK" \notin C
  <2>1. CASE /\ lexer.phase = "reasoning" /\ e.type = "REASONING_CHUNK" /\ e.index = 0
             /\ phase = "reasoning"
    BY <2>1, <1>4, <1>5, <1>6, EventKinds DEF Phases
  <2>2. CASE /\ lexer.phase = "reasoning" /\ e.type = "REASONING_END" /\ e.index = 0
             /\ phase = "content"
    BY <2>2, <1>4, <1>5, <1>6, EventKinds DEF Phases
  <2>3. CASE /\ lexer.phase = "content" /\ e.type = "TEXT_CHUNK" /\ e.index = 0
             /\ phase = "content"
    BY <2>3, <1>4, <1>5, <1>6, EventKinds DEF Phases
  <2>4. CASE /\ lexer.phase = "content" /\ e.type = "TOOL_CALL_START"
             /\ e.index = lexer.calls + 1
             /\ phase = "name" /\ (~Mixes => "TEXT_CHUNK" \notin TypesOf(batch))
    <3>1. lexer'.calls = lexer.calls + 1 /\ lexer'.calls \in Nat /\ lexer'.calls # 0
      BY <2>4, <1>4, <1>6
    <3>2. ~Mixes => "TEXT_CHUNK" \notin B
      BY <2>4 DEF B
    <3>3. QED BY <2>4, <3>1, <3>2, <1>5, <1>6, EventKinds DEF Phases
  <2>5. CASE /\ lexer.phase \in {"name", "args"} /\ e.type \in CallEvents
             /\ e.index = lexer.calls
             /\ phase \in {"name", "args", "content"}
    <3>1. lexer'.calls = lexer.calls /\ lexer.calls # 0
      BY <2>5, <1>4, <1>6
    <3>2. e.type # "TEXT_CHUNK" /\ e.type # "REASONING_CHUNK" /\ e.type # "REASONING_END"
      BY <2>5, EventKinds
    <3>3. QED BY <2>5, <3>1, <3>2, <1>5, <1>6 DEF Phases
  <2>6. QED BY <2>1, <2>2, <2>3, <2>4, <2>5, <1>3 DEF Follows, B
<1>9. QED BY <1>2, <1>4, <1>5, <1>6, <1>7, <1>8 DEF Lexed, C

\* The events of the delta to come.
LEMMA EventsFacts ==
  ASSUME Lexed, NEW last \in BOOLEAN
  PROVE  LET w == Events(last)
         IN  /\ w \in Seq(EventSet)
             /\ TypesOf(batch) \subseteq TypesOf(w)
             /\ TypesOf(w) \subseteq TypesOf(batch) \union {"TOOL_CALL_END"}
             /\ lexer.phase \notin {"name", "args"} => TypesOf(w) = TypesOf(batch)
             /\ ~Mixes => TextLast(w)
<1> DEFINE w == Events(last)
           e == Event("TOOL_CALL_END", <<>>, lexer.calls)
<1>1. CASE last /\ lexer.phase \in {"name", "args"}
  <2>1. w = Append(batch, e)
    BY <1>1 DEF Events
  <2>2. e \in EventSet /\ e.type = "TOOL_CALL_END"
    <3>1. lexer.calls \in Nat /\ lexer.calls # 0 /\ <<>> \in Seq(Symbols)
      BY <1>1, EmptySeq DEF Lexed
    <3>2. "TOOL_CALL_END" \in EventTypes
      BY DEF EventTypes, CallEvents
    <3>3. QED BY <3>1, <3>2 DEF Event, EventSet
  <2> HIDE DEF e, w
  <2>3. batch \in Seq(EventSet) /\ (~Mixes => TextLast(batch) /\ "TEXT_CHUNK" \notin TypesOf(batch))
    BY <1>1 DEF Lexed
  <2>4. /\ Append(batch, e) \in Seq(EventSet)
        /\ TypesOf(Append(batch, e)) = TypesOf(batch) \union {e.type}
        /\ TextLast(batch) /\ ("TEXT_CHUNK" \in TypesOf(batch) => e.type \notin CallEvents)
             => TextLast(Append(batch, e))
    BY <2>2, <2>3, TypesAppend
  <2>5. QED BY <1>1, <2>1, <2>2, <2>3, <2>4 DEF w
<1>2. CASE ~(last /\ lexer.phase \in {"name", "args"})
  <2>1. w = batch
    BY <1>2, Zenon DEF Events
  <2> HIDE DEF w
  <2>2. QED BY <2>1 DEF Lexed, w
<1>3. QED BY <1>1, <1>2

\* So does parsing.
LEMMA LexedParse == ASSUME Lexed, NEW last \in BOOLEAN, ParseDelta(last) PROVE Lexed'
<1> DEFINE w == Events(last)
           G == TypesOf(given)
           B == TypesOf(batch)
<1>1. given' = given \o w /\ batch' = <<>> /\ lexer' = lexer
  BY DEF ParseDelta, Deliver
<1>2. /\ w \in Seq(EventSet) /\ B \subseteq TypesOf(w)
      /\ TypesOf(w) \subseteq B \union {"TOOL_CALL_END"}
      /\ lexer.phase \notin {"name", "args"} => TypesOf(w) = B
  BY EventsFacts
<1> HIDE DEF w
<1>3. given' \in Seq(EventSet) /\ TypesOf(given') = G \union TypesOf(w)
  BY <1>1, <1>2, TypesConcat DEF Lexed
<1>4. batch' \in Seq(EventSet) /\ TypesOf(batch') = {} /\ TextLast(batch')
  BY <1>1, NoTypes, EmptySeq
<1> HIDE DEF G, B
<1>5. /\ lexer.phase \in Phases /\ lexer.calls \in Nat
      /\ lexer.phase = "reasoning" => G \union B \subseteq {"REASONING_CHUNK"}
      /\ lexer.phase \in {"name", "args"} => lexer.calls # 0
      /\ lexer.calls = 0 => (G \union B) \cap CallEvents = {}
      /\ lexer.calls # 0 => "TOOL_CALL_START" \in G \union B
  BY DEF Lexed, G, B
<1>6. QED BY <1>1, <1>2, <1>3, <1>4, <1>5 DEF Lexed

---------------------------------------------------------------------------
(* The content of a delta and the model's text.                            *)

\* The text that the client is to have.
Wanted(saw, text) == IF saw THEN StripNewlines(text) ELSE text

\* What was sent and what waits are that text.
Stands(sent, waits, saw, text) == sent \o waits = Wanted(saw, text)

\* The text that the parser has for the content of a delta.
Leading(nonws, saw, text) == IF ~nonws /\ saw THEN StripNewlines(text) ELSE text

\* White space in front changes nothing of the visible text; a text with a
\* visible beginning is visible.
LEMMA BlankFront ==
  ASSUME NEW u \in Texts, NEW t \in Texts
  PROVE  /\ u \o t \in Texts
         /\ Blanks(u) => FromVisible(u \o t) = FromVisible(t)
         /\ Blanks(u) /\ Blanks(t) => Blanks(u \o t) /\ FromVisible(u \o t) = <<>>
         /\ ~Blanks(u) => ~Blanks(u \o t)
<1>1. u \o t \in Texts
  BY ConcatProperties DEF Texts
<1>2. FromVisible(u) = <<>> <=> Blanks(u)
  BY VisibleFacts
<1>3. FromVisible(u) = <<>> => FromVisible(u \o t) = FromVisible(t)
  BY VisibleFacts
<1>4. FromVisible(t) = <<>> <=> Blanks(t)
  BY VisibleFacts
<1> DEFINE c == u \o t
<1> HIDE DEF c
<1>5. FromVisible(c) = <<>> <=> Blanks(c)
  BY <1>1, VisibleFacts DEF c
<1>6. ~Blanks(u) => ~Blanks(c)
  <2>1. /\ Len(c) = Len(u) + Len(t) /\ Len(u) \in Nat /\ Len(t) \in Nat
        /\ \A i \in 1 .. Len(u) : c[i] = u[i]
    BY JoinedAt DEF Texts, c
  <2>2. DOMAIN u = 1 .. Len(u) /\ DOMAIN c = 1 .. Len(c)
    BY <1>1, LenProperties DEF Texts, c
  <2>3. \A i \in 1 .. Len(u) : i \in 1 .. Len(c)
    BY <2>1
  <2>4. QED BY <2>1, <2>2, <2>3 DEF Blanks
<1>7. QED BY <1>1, <1>2, <1>3, <1>4, <1>5, <1>6 DEF c

\* Texts put together in any order.
LEMMA TextsAssociate ==
  ASSUME NEW a \in Texts, NEW b \in Texts, NEW c \in Texts
  PROVE  a \o (b \o c) = (a \o b) \o c
<1>1. a \in Seq(Characters) /\ b \in Seq(Characters) /\ c \in Seq(Characters)
  BY DEF Texts
<1>2. QED BY <1>1, ConcatAssociative, SMTT(30)

\* Without calls the client gets the model's text.
LEMMA ContentGoesOn ==
  ASSUME NEW T \in Texts, NEW t \in Texts, NEW c \in Texts, NEW D \in Texts,
         NEW saw \in BOOLEAN, NEW nonws \in BOOLEAN,
         Stands(c, D, saw, T), ~nonws => c = <<>>, nonws => ~Blanks(T),
         NEW text, text = Leading(nonws, saw, D \o t)
  PROVE  /\ text \in Texts
         /\ Stands(c, text, saw, T \o t)
         /\ nonws \/ ~Blanks(text) => ~Blanks(T \o t)
<1>1. /\ c \in Seq(Characters) /\ D \in Seq(Characters) /\ t \in Seq(Characters)
      /\ T \in Seq(Characters)
      /\ text = IF ~nonws /\ saw THEN StripNewlines(D \o t) ELSE D \o t
      /\ c \o D = Wanted(saw, T)
  BY DEF Texts, Leading, Stands
<1>2. D \o t \in Texts /\ T \o t \in Texts
  BY <1>1, ConcatProperties DEF Texts
<1>3. text \in Texts
  <2> DEFINE x == D \o t
  <2> HIDE DEF x
  <2>1. x \in Texts
    BY <1>2 DEF x
  <2>2. StripNewlines(x) \in Texts
    BY <2>1, NewlinesFacts
  <2>3. QED BY <1>1, <2>1, <2>2 DEF x
<1>4. CASE nonws
  <2>1. text = D \o t /\ c \o (D \o t) = (c \o D) \o t
    <3>1. c \o (D \o t) = (c \o D) \o t
      BY TextsAssociate
    <3>2. QED BY <3>1, <1>1, <1>4
  <2>2. c \o text = Wanted(saw, T) \o t
    BY <2>1, <1>1
  <2>3. ~Blanks(T) /\ ~Blanks(T \o t)
    BY <1>4, BlankFront
  <2>4. Wanted(saw, T) \o t = Wanted(saw, T \o t)
    <3>1. StripNewlines(T) # <<>>
      <4>1. Blanks(StripNewlines(T)) <=> Blanks(T)
        BY VisibleFacts
      <4>2. Blanks(<<>>)
        BY EmptySeq DEF Blanks
      <4>3. QED BY <4>1, <4>2, <2>3
    <3>2. StripNewlines(T \o t) = StripNewlines(T) \o t
      BY <3>1, NewlinesFacts
    <3>3. QED BY <3>2 DEF Wanted
  <2>5. QED BY <1>3, <2>2, <2>3, <2>4 DEF Stands
<1>5. CASE ~nonws
  <2>1. c = <<>> /\ c \o D = D /\ c \o text = text
    BY <1>3, <1>5, ConcatEmptySeq DEF Texts
  <2>2. D = Wanted(saw, T)
    BY <2>1, <1>1
  <2>3. text = Wanted(saw, T \o t)
    <3>1. CASE ~saw
      <4>1. D = T
        BY <2>2, <3>1 DEF Wanted
      <4>2. QED BY <1>1, <4>1, <3>1, <1>5 DEF Wanted
    <3>2. CASE saw
      <4>1. D = StripNewlines(T)
        BY <2>2, <3>2 DEF Wanted
      <4>2. StripNewlines(StripNewlines(T) \o t) = StripNewlines(T \o t)
        BY NewlinesFacts
      <4>3. text = StripNewlines(D \o t)
        BY <1>1, <3>2, <1>5
      <4>4. QED BY <4>1, <4>2, <4>3, <3>2 DEF Wanted
    <3>3. QED BY <3>1, <3>2
  <2>4. ~Blanks(text) => ~Blanks(T \o t)
    <3> DEFINE y == T \o t
    <3> HIDE DEF y
    <3>1. y \in Texts
      BY <1>2 DEF y
    <3>2. Blanks(StripNewlines(y)) <=> Blanks(y)
      BY <3>1, VisibleFacts
    <3>3. text = StripNewlines(y) \/ text = y
      BY <2>3 DEF Wanted, y
    <3>4. QED BY <3>2, <3>3 DEF y
  <2>5. QED BY <1>3, <1>5, <2>1, <2>3, <2>4 DEF Stands
<1>6. QED BY <1>4, <1>5

\* The visible text reaches the client or waits behind calls.
LEMMA InnerGoesOn ==
  ASSUME NEW T \in Texts, NEW t \in Texts, NEW c \in Texts, NEW D \in Texts,
         NEW saw2 \in BOOLEAN, NEW nonws \in BOOLEAN,
         FromVisible(c \o D) = FromVisible(T), ~nonws => Blanks(c),
         NEW text, text = Leading(nonws, saw2, D \o t)
  PROVE  /\ text \in Texts
         /\ FromVisible(c \o (D \o t)) = FromVisible(T \o t)
         /\ FromVisible(c \o text) = FromVisible(T \o t)
         /\ ~nonws /\ Blanks(text) => /\ Blanks(c \o text)
                                      /\ FromVisible(c) = FromVisible(T \o t)
<1>0. text = IF ~nonws /\ saw2 THEN StripNewlines(D \o t) ELSE D \o t
  BY DEF Leading
<1> USE <1>0
<1> DEFINE u == c \o D
           x == D \o t
<1>1. /\ c \in Seq(Characters) /\ D \in Seq(Characters) /\ t \in Seq(Characters)
  BY DEF Texts
<1>2. u \in Texts /\ x \in Texts
  BY <1>1, ConcatProperties DEF Texts
<1>3. c \o x = u \o t
  BY <1>1, ConcatAssociative, SMTT(30)
<1>4. FromVisible(u) = FromVisible(T)
  OBVIOUS
<1>5. text = IF ~nonws /\ saw2 THEN StripNewlines(x) ELSE x
  OBVIOUS
<1> HIDE DEF u
<1>6. FromVisible(u \o t) = FromVisible(T \o t)
  <2>1. /\ FromVisible(u) # <<>> => FromVisible(u \o t) = FromVisible(u) \o t
        /\ FromVisible(u) = <<>> => FromVisible(u \o t) = FromVisible(t)
    BY <1>2, VisibleFacts
  <2>2. /\ FromVisible(T) # <<>> => FromVisible(T \o t) = FromVisible(T) \o t
        /\ FromVisible(T) = <<>> => FromVisible(T \o t) = FromVisible(t)
    BY VisibleFacts
  <2>3. QED BY <2>1, <2>2, <1>4
<1>7. FromVisible(c \o x) = FromVisible(T \o t)
  BY <1>3, <1>6
<1> HIDE DEF x
<1>8. StripNewlines(x) \in Texts /\ FromVisible(StripNewlines(x)) = FromVisible(x)
  BY <1>2, VisibleFacts, NewlinesFacts
<1>9. text \in Texts
  BY <1>2, <1>5, <1>8
<1>10. CASE nonws
  BY <1>5, <1>7, <1>9, <1>10 DEF x
<1>11. CASE ~nonws
  <2>1. Blanks(c)
    BY <1>11
  <2>2. FromVisible(text) = FromVisible(x)
    BY <1>5, <1>8
  <2>3. FromVisible(c \o text) = FromVisible(text) /\ FromVisible(c \o x) = FromVisible(x)
    BY <2>1, <1>2, <1>9, BlankFront
  <2>4. FromVisible(c \o text) = FromVisible(T \o t)
    BY <2>2, <2>3, <1>7
  <2>5. ASSUME Blanks(text)
        PROVE  Blanks(c \o text) /\ FromVisible(c) = FromVisible(T \o t)
    <3>1. Blanks(c \o text) /\ FromVisible(c \o text) = <<>>
      BY <2>1, <2>5, <1>9, BlankFront
    <3>2. FromVisible(c) = <<>>
      BY <2>1, VisibleFacts
    <3>3. QED BY <3>1, <3>2, <2>4
  <2>6. QED BY <1>7, <1>9, <2>4, <2>5 DEF x
<1>12. QED BY <1>10, <1>11

---------------------------------------------------------------------------
(* The parser and the client.                                              *)

Reasoned == "REASONING_END" \in TypesOf(given)

\* The fields of the parser and of the client.
Fields ==
  /\ IsParser(parser)
  /\ parser.reasoning_ended \in BOOLEAN /\ (parser.reasoning_ended <=> Reasoned)
  /\ parser.saw_reasoning_end \in BOOLEAN /\ (parser.saw_reasoning_end <=> Reasoned)
  /\ parser.content_has_nonws \in BOOLEAN
  /\ parser.deferred_content \in Texts /\ parser.deferred_reasoning \in Seq(White)
  /\ client.content \in Texts /\ client.reasoning \in Texts

\* The reasoning that was sent, and the white space that waits.
ReasoningSent ==
  LET text == TextOf("REASONING_CHUNK")
  IN  /\ request.include_reasoning =>
           client.reasoning = IF StripReasoning THEN StripEnd(text) ELSE text
      /\ StripReasoning /\ ~Reasoned =>
           text = StripEnd(text) \o parser.deferred_reasoning

\* The content that was sent and that waits, as long as there are no calls.
ContentSent ==
  LET text == TextOf("TEXT_CHUNK")
  IN  parser.slots = <<>> =>
        /\ ~Suppress => TypesOf(given) \cap CallEvents = {}
        /\ client.content \o parser.deferred_content = Wanted(Reasoned, text)
        /\ ~parser.content_has_nonws /\ ~finished => client.content = <<>>
        /\ parser.content_has_nonws => ~Blanks(text)
        /\ finished => parser.deferred_content = <<>>

\* The visible content, with or without calls.
InnerSent ==
  ~Mixes =>
    /\ FromVisible(client.content \o parser.deferred_content) =
         FromVisible(TextOf("TEXT_CHUNK"))
    /\ ~parser.content_has_nonws => Blanks(client.content)

ParsedInv == Lexed /\ Fields /\ ReasoningSent /\ ContentSent /\ InnerSent

\* The text of a type is that of the events parsed.
LEMMA TextIsOf == \A type : TextOf(type) = Of(given, type)
  BY DEF TextOf, Of

\* Before the first delta.
LEMMA ParsedInit == ASSUME Init PROVE ParsedInv
<1>1. /\ parser = NewParser /\ given = <<>>
      /\ client = [reasoning |-> <<>>, content |-> <<>>, calls |-> <<>>] /\ finished = FALSE
  BY DEF Init
<1>2. /\ parser.reasoning_ended = FALSE /\ parser.saw_reasoning_end = FALSE
      /\ parser.content_has_nonws = FALSE /\ parser.deferred_content = <<>>
      /\ parser.deferred_reasoning = <<>> /\ parser.slots = <<>>
      /\ parser.history_tool_call_cnt = 0
      /\ client.content = <<>> /\ client.reasoning = <<>>
  BY <1>1 DEF NewParser
<1>3. TypesOf(given) = {} /\ ~Reasoned
  BY <1>1, NoTypes DEF Reasoned
<1>4. <<>> \in Texts /\ <<>> \in Seq(White) /\ <<>> \o <<>> = <<>> /\ Blanks(<<>>)
  BY EmptySeq, ConcatEmptySeq DEF Texts, Blanks
<1>5. TextOf("REASONING_CHUNK") = <<>> /\ TextOf("TEXT_CHUNK") = <<>>
  BY <1>1, TextIsOf, OfNothing
<1>6. IsParser(parser)
  <2>1. Slots(<<>>, 0)
    <3>1. DOMAIN <<>> = {} /\ 1 .. 0 = {}
      OBVIOUS
    <3>2. <<>> = [i \in DOMAIN <<>> |-> <<>>[i]]
      BY <3>1
    <3>3. QED BY <3>1, <3>2 DEF Slots
  <2>2. QED BY <1>1, <2>1 DEF IsParser, NewParser
<1>7. Fields
  BY <1>2, <1>3, <1>4, <1>6 DEF Fields
<1>8. StripEnd(<<>>) = <<>> /\ StripNewlines(<<>>) = <<>> /\ FromVisible(<<>>) = <<>>
  <2>1. Ended(<<>>, StripEnd(<<>>))
    BY <1>4, StripEndEnded
  <2>2. Ended(<<>>, <<>>)
    BY <1>4 DEF Ended
  <2>3. StripEnd(<<>>) = <<>>
    BY <2>1, <2>2, EndedOnce
  <2>4. Fronted({"nl"}, <<>>, StripNewlines(<<>>))
    BY <1>4, NewlinesFronted
  <2>5. StripNewlines(<<>>) = <<>>
    BY <2>4, FrontedEmpty, FrontedOnce, WhiteFacts
  <2>6. QED BY <2>3, <2>5, <1>4, VisibleFacts
<1>9. ReasoningSent
  BY <1>2, <1>4, <1>5, <1>8 DEF ReasoningSent
<1>10. ContentSent
  BY <1>1, <1>2, <1>3, <1>4, <1>5, <1>8 DEF ContentSent, Wanted
<1>11. InnerSent
  BY <1>2, <1>4, <1>5, <1>8 DEF InnerSent
<1>12. QED BY <1>7, <1>9, <1>10, <1>11, LexedInit DEF ParsedInv

\* Lexing does not touch them.
LEMMA ParsedLex == ASSUME ParsedInv, Lex PROVE ParsedInv'
<1>1. UNCHANGED <<request, parser, given, client, finished>>
  BY DEF Lex
<1>2. Lexed'
  BY LexedLex DEF ParsedInv
<1>3. /\ TypesOf(given)' = TypesOf(given) /\ Suppress' = Suppress
      /\ TextOf("REASONING_CHUNK")' = TextOf("REASONING_CHUNK")
      /\ TextOf("TEXT_CHUNK")' = TextOf("TEXT_CHUNK")
  BY <1>1 DEF TypesOf, Suppress, TextOf
<1>4. Reasoned' <=> Reasoned
  BY <1>3 DEF Reasoned
<1>5. Fields'
  BY <1>1, <1>4 DEF ParsedInv, Fields
<1>6. ReasoningSent'
  BY <1>1, <1>3, <1>4 DEF ParsedInv, ReasoningSent
<1>7. ContentSent'
  BY <1>1, <1>3, <1>4 DEF ParsedInv, ContentSent
<1>8. InnerSent'
  BY <1>1, <1>3 DEF ParsedInv, InnerSent
<1>9. QED BY <1>2, <1>5, <1>6, <1>7, <1>8 DEF ParsedInv

\* Nor does a step that changes nothing.
LEMMA ParsedStutter == ASSUME ParsedInv, UNCHANGED vars PROVE ParsedInv'
<1>1. UNCHANGED <<request, lexer, batch, parser, given, client, finished>>
  BY DEF vars
<1>2. Lexed'
  BY <1>1 DEF ParsedInv, Lexed, TypesOf, TextLast
<1>3. /\ TypesOf(given)' = TypesOf(given) /\ Suppress' = Suppress
      /\ TextOf("REASONING_CHUNK")' = TextOf("REASONING_CHUNK")
      /\ TextOf("TEXT_CHUNK")' = TextOf("TEXT_CHUNK")
  BY <1>1 DEF TypesOf, Suppress, TextOf
<1>4. Reasoned' <=> Reasoned
  BY <1>3 DEF Reasoned
<1>5. Fields'
  BY <1>1, <1>4 DEF ParsedInv, Fields
<1>6. ReasoningSent'
  BY <1>1, <1>3, <1>4 DEF ParsedInv, ReasoningSent
<1>7. ContentSent'
  BY <1>1, <1>3, <1>4 DEF ParsedInv, ContentSent
<1>8. InnerSent'
  BY <1>1, <1>3 DEF ParsedInv, InnerSent
<1>9. QED BY <1>2, <1>5, <1>6, <1>7, <1>8 DEF ParsedInv

---------------------------------------------------------------------------
(* A delta is parsed.                                                      *)

\* The parser and the delta after the events, with the parts put together,
\* and without the white space at the end of the reasoning.
After(last) == FoldLeft(TakeEvent, NewAcc(parser), Events(last))
Delta(last) == DeltaOf(After(last), last)
Sent(last) == StripTrailingReasoning(Delta(last))

\* What ParseDelta does, in these words.
LEMMA ParseFacts ==
  ASSUME ParsedInv, NEW last \in BOOLEAN, ParseDelta(last)
  PROVE  /\ Events(last) \in Seq(EventSet)
         /\ IsAcc(After(last))
         /\ AlongReasoning(parser, Events(last), Len(Events(last)), After(last))
         /\ AlongContent(parser, Events(last), Len(Events(last)), After(last))
         /\ IsOut(After(last), last, Delta(last))
         /\ parser' = Sent(last).p /\ given' = given \o Events(last)
         /\ client'.content = client.content \o Sent(last).content
         /\ client'.reasoning = IF request.include_reasoning
                                THEN client.reasoning \o Sent(last).reasoning ELSE <<>>
         /\ ~finished /\ finished' = last /\ request' = request
<1>1. Events(last) \in Seq(EventSet)
  BY EventsFacts DEF ParsedInv
<1>2. IsParser(parser) /\ parser.deferred_content \in Texts
  BY DEF ParsedInv, Fields
<1>3. /\ IsAcc(After(last))
      /\ AlongReasoning(parser, Events(last), Len(Events(last)), After(last))
      /\ AlongContent(parser, Events(last), Len(Events(last)), After(last))
  <2> DEFINE w == Events(last)
             b == FoldLeft(TakeEvent, NewAcc(parser), w)
  <2>1. w \in Seq(EventSet)
    BY <1>1
  <2> HIDE DEF w
  <2>2. IsAcc(b) /\ AlongReasoning(parser, w, Len(w), b) /\ AlongContent(parser, w, Len(w), b)
    BY <1>2, <2>1, BatchEffect
  <2>3. After(last) = b
    BY Zenon DEF After, w
  <2> HIDE DEF b
  <2>4. QED BY <2>2, <2>3 DEF w
<1>4. IsOut(After(last), last, Delta(last))
  <2> DEFINE b == After(last)
  <2> HIDE DEF b
  <2>1. IsOut(b, last, DeltaOf(b, last))
    BY <1>3, DeltaEffect DEF b
  <2>2. QED BY <2>1 DEF Delta, b
<1>5. /\ ~finished /\ finished' = last /\ request' = request
      /\ Deliver(StripTrailingReasoning(EventsToDelta(parser, Events(last), last)), Events(last))
  BY DEF ParseDelta
<1>6. StripTrailingReasoning(EventsToDelta(parser, Events(last), last)) = Sent(last)
  BY Zenon DEF Sent, Delta, After, EventsToDelta
<1>7. Deliver(Sent(last), Events(last))
  BY <1>5, <1>6
<1>8. /\ parser' = Sent(last).p /\ given' = given \o Events(last)
      /\ client'.content = client.content \o Sent(last).content
      /\ client'.reasoning = IF request.include_reasoning
                             THEN client.reasoning \o Sent(last).reasoning ELSE <<>>
  BY <1>7 DEF Deliver
<1>9. QED BY <1>1, <1>3, <1>4, <1>5, <1>8

\* The reasoning of the delta, and the parser's part of it.
LEMMA SentFacts ==
  ASSUME ParsedInv, NEW last \in BOOLEAN, ParseDelta(last)
  PROVE  LET b == After(last)
             r == Of(Events(last), "REASONING_CHUNK")
             d == parser.deferred_reasoning
         IN  /\ b.reasoning = r /\ r \in Texts
             /\ IsParser(parser') /\ parser'.slots = b.p.slots
             /\ b.p.saw_reasoning_end \in BOOLEAN
             /\ b.p.saw_reasoning_end <=> Reasoned'
             /\ b.p.content_has_nonws = parser.content_has_nonws
             /\ parser'.reasoning_ended \in BOOLEAN /\ (parser'.reasoning_ended <=> Reasoned')
             /\ parser'.saw_reasoning_end \in BOOLEAN /\ (parser'.saw_reasoning_end <=> Reasoned')
             /\ parser'.content_has_nonws = (parser.content_has_nonws \/ ~Blanks(Led(b)))
             /\ parser'.deferred_content = Delta(last).p.deferred_content
             /\ Sent(last).content = Delta(last).content
             /\ ~StripReasoning => /\ Sent(last).reasoning = r
                                   /\ parser'.deferred_reasoning = d
             /\ StripReasoning /\ r # <<>> =>
                  /\ Sent(last).reasoning = StripEnd(d \o r)
                  /\ parser'.deferred_reasoning = From(d \o r, Len(StripEnd(d \o r)) + 1)
             /\ StripReasoning /\ r = <<>> =>
                  /\ Sent(last).reasoning = <<>>
                  /\ parser'.deferred_reasoning = IF Reasoned' THEN <<>> ELSE d
<1> DEFINE w == Events(last)
           b == After(last)
           out == Delta(last)
           new == Sent(last)
           r == Of(w, "REASONING_CHUNK")
<1>1. /\ w \in Seq(EventSet) /\ IsOut(b, last, out) /\ parser' = new.p
      /\ AlongReasoning(parser, w, Len(w), b) /\ given' = given \o w
  BY ParseFacts
<1>2. new = StripTrailingReasoning(out)
  BY DEF Sent
<1>3. given \in Seq(EventSet) /\ Len(w) \in Nat
  BY <1>1, LenProperties DEF ParsedInv, Lexed
<1> HIDE DEF w, b, out, new
<1>4. SubSeq(w, 1, Len(w)) = w
  BY <1>1, SubSeqFull
<1>5. b.reasoning = r /\ r \in Texts
  <2>1. b.reasoning = r
    BY <1>1, <1>4 DEF AlongReasoning, Upto
  <2>2. r \in Texts
    BY <1>1, OfConcat DEF Texts, TextTypes
  <2>3. QED BY <2>1, <2>2
<1>6. EndIn(w, Len(w)) <=> "REASONING_END" \in TypesOf(w)
  BY DEF EndIn, TypesOf
<1>7. Reasoned' <=> Reasoned \/ "REASONING_END" \in TypesOf(w)
  <2>1. TypesOf(given \o w) = TypesOf(given) \union TypesOf(w)
    BY <1>1, <1>3, TypesConcat
  <2>2. Reasoned' <=> "REASONING_END" \in TypesOf(given \o w)
    BY <1>1 DEF Reasoned, TypesOf
  <2>3. QED BY <2>1, <2>2 DEF Reasoned
<1>8. /\ parser.reasoning_ended \in BOOLEAN /\ (parser.reasoning_ended <=> Reasoned)
      /\ parser.saw_reasoning_end \in BOOLEAN /\ (parser.saw_reasoning_end <=> Reasoned)
  BY DEF ParsedInv, Fields
<1>9. /\ b.p.reasoning_ended \in BOOLEAN /\ (b.p.reasoning_ended <=> Reasoned')
      /\ b.p.saw_reasoning_end \in BOOLEAN /\ (b.p.saw_reasoning_end <=> Reasoned')
      /\ b.p.content_has_nonws = parser.content_has_nonws
      /\ b.p.deferred_reasoning = parser.deferred_reasoning
  <2>1. /\ b.p.reasoning_ended = IF EndIn(w, Len(w)) THEN TRUE ELSE parser.reasoning_ended
        /\ b.p.saw_reasoning_end = IF EndIn(w, Len(w)) THEN TRUE ELSE parser.saw_reasoning_end
        /\ b.p.content_has_nonws = parser.content_has_nonws
        /\ b.p.deferred_reasoning = parser.deferred_reasoning
    BY <1>1 DEF AlongReasoning
  <2>2. CASE EndIn(w, Len(w))
    BY <2>1, <2>2, <1>6, <1>7
  <2>3. CASE ~EndIn(w, Len(w))
    BY <2>1, <2>3, <1>6, <1>7, <1>8
  <2>4. QED BY <2>2, <2>3
<1>10. /\ out.reasoning = b.reasoning
       /\ out.p.slots = b.p.slots
       /\ out.p.reasoning_ended = b.p.reasoning_ended
       /\ out.p.saw_reasoning_end = b.p.saw_reasoning_end
       /\ out.p.deferred_reasoning = b.p.deferred_reasoning
       /\ out.p.content_has_nonws = (b.p.content_has_nonws \/ ~Blanks(Led(b)))
  BY <1>1 DEF IsOut
<1> DEFINE e == out.p.deferred_reasoning
           c == e \o out.reasoning
<1>11. /\ IsParser(new.p)
       /\ new.p.slots = out.p.slots
       /\ new.p.reasoning_ended = out.p.reasoning_ended
       /\ new.p.saw_reasoning_end = out.p.saw_reasoning_end
       /\ new.p.content_has_nonws = out.p.content_has_nonws
       /\ new.p.deferred_content = out.p.deferred_content
       /\ new.content = out.content
       /\ ~StripReasoning => /\ new.reasoning = out.reasoning
                             /\ new.p.deferred_reasoning = out.p.deferred_reasoning
       /\ StripReasoning /\ out.reasoning # <<>> =>
            /\ new.reasoning = StripEnd(c)
            /\ new.p.deferred_reasoning = From(c, Len(StripEnd(c)) + 1)
       /\ StripReasoning /\ out.reasoning = <<>> =>
            /\ new.reasoning = <<>>
            /\ new.p.deferred_reasoning =
                 IF out.p.reasoning_ended THEN <<>> ELSE out.p.deferred_reasoning
  BY <1>1, <1>2, TrailingEffect
<1>12. e = parser.deferred_reasoning /\ out.reasoning = r /\ c = parser.deferred_reasoning \o r
  BY <1>5, <1>9, <1>10
<1> HIDE DEF e, c, r
<1>13. /\ ~StripReasoning => new.reasoning = r /\ parser'.deferred_reasoning = e
       /\ StripReasoning /\ r # <<>> =>
            /\ new.reasoning = StripEnd(c)
            /\ parser'.deferred_reasoning = From(c, Len(StripEnd(c)) + 1)
       /\ StripReasoning /\ r = <<>> =>
            /\ new.reasoning = <<>>
            /\ parser'.deferred_reasoning = IF Reasoned' THEN <<>> ELSE e
  <2>1. out.p.reasoning_ended <=> Reasoned'
    BY <1>9, <1>10
  <2>2. e = out.p.deferred_reasoning
    BY DEF e
  <2>3. QED BY <2>1, <2>2, <1>1, <1>11, <1>12
<1>14. /\ IsParser(parser') /\ parser'.slots = b.p.slots
       /\ parser'.reasoning_ended \in BOOLEAN /\ (parser'.reasoning_ended <=> Reasoned')
       /\ parser'.saw_reasoning_end \in BOOLEAN /\ (parser'.saw_reasoning_end <=> Reasoned')
       /\ parser'.content_has_nonws = (parser.content_has_nonws \/ ~Blanks(Led(b)))
       /\ parser'.deferred_content = out.p.deferred_content
       /\ new.content = out.content
  BY <1>1, <1>9, <1>10, <1>11
<1>15. QED BY <1>5, <1>9, <1>12, <1>13, <1>14 DEF w, b, out, new, e, c, r

---------------------------------------------------------------------------
(* What the client was sent after a delta.                                 *)

\* Events of other types have no text of this one.
LEMMA NoneOf ==
  ASSUME NEW w \in Seq(EventSet), NEW type \in TextTypes, type \notin TypesOf(w)
  PROVE  Of(w, type) = <<>>
<1>1. Len(w) \in Nat /\ DOMAIN w = 1 .. Len(w) /\ Len(w) \in 0 .. Len(w)
  BY LenProperties
<1>2. \A i \in 1 .. Len(w) : w[i].type # type
  BY <1>1 DEF TypesOf
<1>3. Upto(w, Len(w), type) = <<>>
  BY <1>1, <1>2, NoText
<1>4. SubSeq(w, 1, Len(w)) = w
  BY SubSeqFull
<1>5. QED BY <1>3, <1>4 DEF Upto

\* What the events of a delta hold, given what came before.
LEMMA BatchHolds ==
  ASSUME ParsedInv, NEW last \in BOOLEAN
  PROVE  LET w == Events(last)
         IN  /\ w \in Seq(EventSet)
             /\ Reasoned => Of(w, "REASONING_CHUNK") = <<>>
             /\ "REASONING_END" \in TypesOf(w) => TextOf("TEXT_CHUNK") = <<>>
             /\ ~Suppress /\ "TOOL_CALL_START" \notin TypesOf(given) \union TypesOf(w)
                  => TypesOf(w) \cap CallEvents = {}
             /\ \A i \in 1 .. Len(w) : w[i].type \in TypesOf(w)
             /\ ~Mixes => CallsFirst(w)
<1> DEFINE w == Events(last)
           W == TypesOf(w)
           B == TypesOf(batch)
           G == TypesOf(given)
<1>1. /\ w \in Seq(EventSet) /\ B \subseteq W /\ W \subseteq B \union {"TOOL_CALL_END"}
      /\ lexer.phase \notin {"name", "args"} => W = B
      /\ ~Mixes => TextLast(w)
  BY EventsFacts DEF ParsedInv
<1>2. /\ given \in Seq(EventSet)
      /\ lexer.phase \in {"name", "args"} => lexer.calls # 0
      /\ lexer.calls = 0 => (G \union B) \cap CallEvents = {}
      /\ lexer.calls # 0 => "TOOL_CALL_START" \in G \union B
      /\ "REASONING_END" \in G => "REASONING_CHUNK" \notin B
      /\ "REASONING_END" \in B => G \subseteq {"REASONING_CHUNK"}
  BY DEF ParsedInv, Lexed
<1> HIDE DEF w
<1>3. DOMAIN w = 1 .. Len(w)
  BY <1>1, LenProperties
<1>4. \A i \in 1 .. Len(w) : w[i].type \in W
  BY <1>3 DEF TypesOf
<1>5. ~Mixes => CallsFirst(w)
  BY <1>1, <1>3 DEF CallsFirst, TextLast, Effective
<1> HIDE DEF W, B, G
<1>6. Reasoned => Of(w, "REASONING_CHUNK") = <<>>
  <2>1. SUFFICES ASSUME Reasoned PROVE "REASONING_CHUNK" \notin W
    BY <1>1, NoneOf DEF TextTypes, W
  <2>2. QED BY <2>1, <1>1, <1>2 DEF Reasoned, G
<1>7. "REASONING_END" \in W => TextOf("TEXT_CHUNK") = <<>>
  <2>1. SUFFICES ASSUME "REASONING_END" \in W PROVE "TEXT_CHUNK" \notin G
    BY <1>2, NoneOf, TextIsOf DEF TextTypes, G
  <2>2. "REASONING_END" \in B
    BY <2>1, <1>1
  <2>3. QED BY <2>2, <1>2
<1>8. ASSUME "TOOL_CALL_START" \notin G \union W PROVE W \cap CallEvents = {}
  <2>1. "TOOL_CALL_START" \notin G \union B
    BY <1>8, <1>1
  <2>2. lexer.calls = 0
    BY <2>1, <1>2
  <2>3. lexer.phase \notin {"name", "args"} /\ (G \union B) \cap CallEvents = {}
    BY <2>2, <1>2
  <2>4. W = B
    BY <2>3, <1>1
  <2>5. QED BY <2>3, <2>4
<1>9. QED BY <1>1, <1>4, <1>5, <1>6, <1>7, <1>8 DEF w, W, G

\* The model's text after a delta.
LEMMA TextGoesOn ==
  ASSUME ParsedInv, NEW last \in BOOLEAN, ParseDelta(last), NEW type \in TextTypes
  PROVE  LET T == TextOf(type)
             t == Of(Events(last), type)
         IN  /\ T \in Texts /\ t \in Texts
             /\ TextOf(type)' = T \o t
<1> DEFINE w == Events(last)
<1>1. w \in Seq(EventSet) /\ given' = given \o w
  BY ParseFacts
<1>2. given \in Seq(EventSet)
  BY DEF ParsedInv, Lexed
<1> HIDE DEF w
<1>3. /\ Of(given, type) \in Seq(Characters) /\ Of(w, type) \in Seq(Characters)
      /\ Of(given \o w, type) = Of(given, type) \o Of(w, type)
  BY <1>1, <1>2, OfConcat
<1>4. TextOf(type) = Of(given, type)
  BY TextIsOf
<1>5. TextOf(type)' = Of(given', type)
  BY DEF TextOf, Of
<1>6. QED BY <1>1, <1>3, <1>4, <1>5 DEF Texts, w

\* The reasoning has ended before the delta or ends in it.
LEMMA ReasonedGoesOn ==
  ASSUME ParsedInv, NEW last \in BOOLEAN, ParseDelta(last)
  PROVE  /\ TypesOf(given)' = TypesOf(given) \union TypesOf(Events(last))
         /\ Reasoned' <=> Reasoned \/ "REASONING_END" \in TypesOf(Events(last))
<1> DEFINE w == Events(last)
<1>1. w \in Seq(EventSet) /\ given' = given \o w
  BY ParseFacts
<1>2. given \in Seq(EventSet)
  BY DEF ParsedInv, Lexed
<1> HIDE DEF w
<1>3. TypesOf(given \o w) = TypesOf(given) \union TypesOf(w)
  BY <1>1, <1>2, TypesConcat
<1>4. TypesOf(given)' = TypesOf(given \o w)
  BY <1>1 DEF TypesOf
<1>5. Reasoned' <=> "REASONING_END" \in TypesOf(given)'
  BY DEF Reasoned
<1>6. QED BY <1>3, <1>4, <1>5 DEF Reasoned, w

\* The reasoning after a delta.
LEMMA ReasoningKept ==
  ASSUME ParsedInv, NEW last \in BOOLEAN, ParseDelta(last)
  PROVE  /\ ReasoningSent'
         /\ parser'.deferred_reasoning \in Seq(White) /\ client'.reasoning \in Texts
<1> DEFINE T == TextOf("REASONING_CHUNK")
           t == Of(Events(last), "REASONING_CHUNK")
           c == client.reasoning
           d == parser.deferred_reasoning
           e == parser'.deferred_reasoning
           s == Sent(last).reasoning
<1>1. T \in Texts /\ t \in Texts /\ TextOf("REASONING_CHUNK")' = T \o t
  BY TextGoesOn DEF TextTypes
<1>2. /\ ~StripReasoning => s = t /\ e = d
      /\ StripReasoning /\ t # <<>> =>
           s = StripEnd(d \o t) /\ e = From(d \o t, Len(StripEnd(d \o t)) + 1)
      /\ StripReasoning /\ t = <<>> => s = <<>> /\ e = IF Reasoned' THEN <<>> ELSE d
  BY SentFacts
<1>3. /\ client'.reasoning = IF request.include_reasoning THEN c \o s ELSE <<>>
      /\ request' = request
  BY ParseFacts
<1>4. Reasoned => t = <<>>
  BY BatchHolds
<1>5. Reasoned => Reasoned'
  BY ReasonedGoesOn
<1>6. /\ c \in Texts /\ d \in Seq(White) /\ d \in Texts /\ <<>> \in Texts /\ <<>> \in Seq(White)
      /\ request.include_reasoning => c = IF StripReasoning THEN StripEnd(T) ELSE T
      /\ StripReasoning /\ ~Reasoned => T = StripEnd(T) \o d
  BY WhiteFacts, EmptySeq DEF ParsedInv, Fields, ReasoningSent, Texts
<1> HIDE DEF T, t, c, d, s, e
<1>7. \A x \in Texts : StripEnd(x) \in Texts
  BY StripEndEnded DEF Ended
<1>8. \A x, y \in Texts : x \o y \in Texts
  BY ConcatProperties DEF Texts
<1>9. \A x \in Texts : x \o <<>> = x
  BY ConcatEmptySeq DEF Texts
<1>10. /\ s \in Texts /\ e \in Seq(White)
       /\ request.include_reasoning => c \o s = IF StripReasoning THEN StripEnd(T \o t) ELSE T \o t
       /\ StripReasoning /\ ~Reasoned' => T \o t = StripEnd(T \o t) \o e
  <2>1. CASE ~StripReasoning
    BY <2>1, <1>1, <1>2, <1>6
  <2>2. CASE StripReasoning /\ t # <<>>
    <3>1. T = StripEnd(T) \o d
      BY <2>2, <1>4, <1>6
    <3>2. /\ StripEnd(T \o t) = StripEnd(T) \o StripEnd(d \o t)
          /\ From(d \o t, Len(StripEnd(d \o t)) + 1) \in Seq(White)
          /\ T \o t = StripEnd(T \o t) \o From(d \o t, Len(StripEnd(d \o t)) + 1)
      BY <3>1, <1>1, <1>6, ReasoningGoesOn
    <3>3. d \o t \in Texts
      BY <1>1, <1>6, <1>8
    <3>4. StripEnd(d \o t) \in Texts
      BY <3>3, <1>7
    <3>5. QED BY <3>2, <3>4, <2>2, <1>2, <1>6
  <2>3. CASE StripReasoning /\ t = <<>>
    <3>1. T \o t = T /\ c \o s = c /\ s = <<>>
      BY <2>3, <1>1, <1>2, <1>6, <1>9
    <3>2. e = <<>> \/ e = d
      BY <2>3, <1>2
    <3>3. ~Reasoned' => e = d /\ ~Reasoned
      BY <2>3, <1>2, <1>5
    <3>4. QED BY <3>1, <3>2, <3>3, <2>3, <1>6
  <2>4. QED BY <2>1, <2>2, <2>3
<1>11. client'.reasoning \in Texts
  BY <1>3, <1>6, <1>8, <1>10
<1>12. ReasoningSent'
  BY <1>1, <1>3, <1>10 DEF ReasoningSent, T, t, c, s, e
<1>13. QED BY <1>10, <1>11, <1>12 DEF e

\* The content of a delta is text, and so is what waits.
LEMMA ContentIsText ==
  ASSUME ParsedInv, NEW last \in BOOLEAN, ParseDelta(last)
  PROVE  LET b == After(last)
         IN  /\ Release(b) \in Texts /\ Led(b) \in Texts
             /\ Delta(last).content \in Texts /\ parser'.deferred_content \in Texts
             /\ client'.content = client.content \o Delta(last).content
             /\ client'.content \in Texts
<1> DEFINE b == After(last)
           x == Delta(last).content
           c == client.content
<1>1. /\ b.content \in Texts /\ b.p.deferred_content \in Texts /\ <<>> \in Texts
      /\ IsOut(b, last, Delta(last))
  BY ParseFacts, EmptySeq DEF AlongContent, Texts
<1>2. client'.content = c \o x /\ parser'.deferred_content = Delta(last).p.deferred_content
  BY ParseFacts, SentFacts
<1>3. c \in Texts
  BY DEF ParsedInv, Fields
<1> HIDE DEF b
<1>4. \A y, z \in Texts : y \o z \in Texts
  BY ConcatProperties DEF Texts
<1>5. \A y \in Texts : StripNewlines(y) \in Texts
  BY NewlinesFacts
<1>6. Release(b) \in Texts
  BY <1>1, <1>4 DEF Release
<1>7. Led(b) \in Texts
  BY <1>5, <1>6 DEF Led
<1>8. x \in Texts /\ Delta(last).p.deferred_content \in Texts
  BY <1>1, <1>7 DEF IsOut
<1> HIDE DEF x, c
<1>9. c \o x \in Texts
  BY <1>3, <1>4, <1>8
<1>10. QED BY <1>2, <1>6, <1>7, <1>8, <1>9 DEF b, x, c

\* The fields after a delta.
LEMMA FieldsKept ==
  ASSUME ParsedInv, NEW last \in BOOLEAN, ParseDelta(last) PROVE Fields'
<1>1. /\ IsParser(parser')
      /\ parser'.reasoning_ended \in BOOLEAN /\ (parser'.reasoning_ended <=> Reasoned')
      /\ parser'.saw_reasoning_end \in BOOLEAN /\ (parser'.saw_reasoning_end <=> Reasoned')
      /\ parser'.content_has_nonws = (parser.content_has_nonws \/ ~Blanks(Led(After(last))))
  BY SentFacts
<1>2. parser'.deferred_reasoning \in Seq(White) /\ client'.reasoning \in Texts
  BY ReasoningKept
<1>3. parser'.deferred_content \in Texts /\ client'.content \in Texts
  BY ContentIsText
<1>4. QED BY <1>1, <1>2, <1>3 DEF Fields

\* The text that a delta's content is made of.
Fresh(last) == parser.deferred_content \o Of(Events(last), "TEXT_CHUNK")
Stripped(last) ==
  Leading(parser.content_has_nonws, Reasoned', Fresh(last))

\* Without newlines there are none to strip.
LEMMA StripNothing == StripNewlines(<<>>) = <<>> /\ Blanks(<<>>) /\ <<>> \in Texts
<1>1. <<>> \in Texts /\ Blanks(<<>>)
  BY EmptySeq DEF Blanks, Texts
<1>2. Fronted({"nl"}, <<>>, StripNewlines(<<>>))
  BY <1>1, NewlinesFronted
<1>3. StripNewlines(<<>>) = <<>>
  BY <1>2, FrontedEmpty, FrontedOnce, WhiteFacts
<1>4. QED BY <1>1, <1>3

\* What a delta does with that text, whether or not it is about calls.
LEMMA ContentEffect ==
  ASSUME ParsedInv, NEW last \in BOOLEAN, ParseDelta(last)
  PROVE  LET b == After(last)
             t == Of(Events(last), "TEXT_CHUNK")
             D == parser.deferred_content
         IN  /\ ~b.seen => /\ ~AboutCalls(b) /\ Led(b) = Stripped(last)
                           /\ b.p.slots = parser.slots
             /\ b.seen => \E i \in 1 .. Len(Events(last)) : Effective(Events(last)[i])
             /\ CallsFirst(Events(last)) /\ ~AboutCalls(b) => Led(b) = Stripped(last)
             /\ CallsFirst(Events(last)) /\ AboutCalls(b) =>
                  Led(b) = <<>> /\ b.p.deferred_content = Fresh(last)
             /\ b.p.slots = <<>> =>
                  /\ parser.slots = <<>>
                  /\ \A i \in 1 .. Len(Events(last)) :
                       ~(Effective(Events(last)[i])
                           /\ Events(last)[i].type = "TOOL_CALL_START")
<1> DEFINE w == Events(last)
           b == After(last)
           t == Of(w, "TEXT_CHUNK")
           D == parser.deferred_content
<1>1. w \in Seq(EventSet) /\ AlongContent(parser, w, Len(w), b)
  BY ParseFacts
<1>2. /\ b.p.content_has_nonws = parser.content_has_nonws
      /\ b.p.saw_reasoning_end <=> Reasoned'
  BY SentFacts
<1>3. t \in Texts /\ D \in Texts
  BY TextGoesOn DEF TextTypes, ParsedInv, Fields
<1> HIDE DEF w, b, D
<1>4. Upto(w, Len(w), "TEXT_CHUNK") = t
  BY <1>1, SubSeqFull DEF Upto
<1>5. /\ b.seen \in BOOLEAN
      /\ b.seen => \E i \in 1 .. Len(w) : Effective(w[i])
      /\ ~b.seen => /\ b.content = t /\ b.p.deferred_content = D
                    /\ b.deltas = <<>> /\ b.p.slots = parser.slots
      /\ b.seen /\ CallsFirst(w) => b.content = <<>> /\ b.p.deferred_content = D \o t
      /\ b.p.slots = <<>> =>
           /\ parser.slots = <<>>
           /\ \A i \in 1 .. Len(w) : ~(Effective(w[i]) /\ w[i].type = "TOOL_CALL_START")
  BY <1>1, <1>4 DEF AlongContent, D
<1> HIDE DEF t
<1>6. D \o t \in Texts /\ (D \o t) \o <<>> = D \o t
  BY <1>3, ConcatProperties, ConcatEmptySeq DEF Texts
<1>7. Fresh(last) = D \o t
  BY DEF Fresh, D, t, w
<1>8. Release(b) = D \o t => Led(b) = Stripped(last)
  BY <1>2, <1>7 DEF Led, Stripped, Leading
<1>9. ~b.seen => ~AboutCalls(b) /\ Release(b) = D \o t
  BY <1>5 DEF AboutCalls, Release
<1>10. CallsFirst(w) /\ b.seen /\ ~AboutCalls(b) => Release(b) = D \o t
  BY <1>5, <1>6 DEF AboutCalls, Release
<1>11. CallsFirst(w) /\ AboutCalls(b) => Led(b) = <<>> /\ b.p.deferred_content = D \o t
  <2>1. SUFFICES ASSUME CallsFirst(w), AboutCalls(b)
                 PROVE  Led(b) = <<>> /\ b.p.deferred_content = D \o t
    OBVIOUS
  <2>2. b.seen /\ b.deltas # <<>>
    BY <2>1 DEF AboutCalls
  <2>3. Release(b) = <<>> /\ b.p.deferred_content = D \o t
    BY <2>1, <2>2, <1>5 DEF Release
  <2>4. QED BY <2>3, StripNothing DEF Led
<1>12. QED BY <1>5, <1>7, <1>8, <1>9, <1>10, <1>11 DEF w, b, t, D

\* The content after a delta, as long as there are no calls.
LEMMA ContentKept ==
  ASSUME ParsedInv, NEW last \in BOOLEAN, ParseDelta(last) PROVE ContentSent'
<1> DEFINE T == TextOf("TEXT_CHUNK")
           t == Of(Events(last), "TEXT_CHUNK")
           c == client.content
           D == parser.deferred_content
           x == Delta(last).content
           D2 == parser'.deferred_content
           b == After(last)
           w == Events(last)
           nonws == parser.content_has_nonws
           saw == Reasoned
           saw2 == Reasoned'
           text == Stripped(last)
<1>1. T \in Texts /\ t \in Texts /\ TextOf("TEXT_CHUNK")' = T \o t
  BY TextGoesOn DEF TextTypes
<1>2. /\ client'.content = c \o x /\ ~finished /\ finished' = last /\ request' = request
      /\ IsOut(b, last, Delta(last))
  BY ParseFacts, SentFacts
<1>3. /\ parser'.slots = b.p.slots /\ D2 = Delta(last).p.deferred_content
      /\ b.p.content_has_nonws = nonws
      /\ parser'.content_has_nonws = (nonws \/ ~Blanks(Led(b)))
  BY SentFacts
<1>4. /\ w \in Seq(EventSet)
      /\ "REASONING_END" \in TypesOf(w) => T = <<>>
      /\ ~Suppress /\ "TOOL_CALL_START" \notin TypesOf(given) \union TypesOf(w)
           => TypesOf(w) \cap CallEvents = {}
      /\ \A i \in 1 .. Len(w) : w[i].type \in TypesOf(w)
  BY BatchHolds
<1>5. /\ TypesOf(given)' = TypesOf(given) \union TypesOf(w)
      /\ saw2 <=> saw \/ "REASONING_END" \in TypesOf(w)
  BY ReasonedGoesOn
<1>6. /\ ~b.seen => /\ ~AboutCalls(b) /\ Led(b) = text
                    /\ b.p.slots = parser.slots
      /\ b.seen => \E i \in 1 .. Len(w) : Effective(w[i])
      /\ b.p.slots = <<>> =>
           /\ parser.slots = <<>>
           /\ \A i \in 1 .. Len(w) : ~(Effective(w[i]) /\ w[i].type = "TOOL_CALL_START")
  BY ContentEffect
<1>7. c \in Texts /\ D \in Texts /\ nonws \in BOOLEAN /\ saw \in BOOLEAN /\ saw2 \in BOOLEAN
  BY DEF ParsedInv, Fields, Reasoned
<1>8. text = Leading(nonws, saw2, D \o t)
  BY DEF Stripped, Fresh
<1>9. SUFFICES ASSUME parser'.slots = <<>>
      PROVE  /\ ~Suppress => TypesOf(given)' \cap CallEvents = {}
             /\ client'.content \o D2 = Wanted(saw2, T \o t)
             /\ ~parser'.content_has_nonws /\ ~last => client'.content = <<>>
             /\ parser'.content_has_nonws => ~Blanks(T \o t)
             /\ last => D2 = <<>>
  <2>1. Suppress' = Suppress
    BY <1>2 DEF Suppress
  <2>2. QED BY <2>1, <1>1, <1>2 DEF ContentSent
<1>10. /\ ~Suppress => TypesOf(given) \cap CallEvents = {}
       /\ c \o D = Wanted(saw, T)
       /\ ~nonws => c = <<>>
       /\ nonws => ~Blanks(T)
  <2>1. parser.slots = <<>>
    BY <1>3, <1>6, <1>9
  <2>2. QED BY <2>1, <1>2 DEF ParsedInv, ContentSent
<1> HIDE DEF T, t, c, D, x, D2, b, w, nonws, saw, saw2, text
<1>11. b.p.slots = <<>>
  BY <1>3, <1>9
<1>12. ~Suppress => (TypesOf(given) \union TypesOf(w)) \cap CallEvents = {}
  <2>1. SUFFICES ASSUME ~Suppress, "TOOL_CALL_START" \in TypesOf(w) PROVE FALSE
    BY <1>4, <1>10 DEF CallEvents
  <2>2. PICK i \in 1 .. Len(w) : w[i].type = "TOOL_CALL_START"
    BY <2>1 DEF TypesOf
  <2>3. Effective(w[i])
    BY <2>1, <2>2 DEF Effective, CallEvents
  <2>4. QED BY <2>2, <2>3, <1>6, <1>11
<1>13. ~b.seen
  <2>1. \A i \in 1 .. Len(w) : ~Effective(w[i])
    BY <1>4, <1>12 DEF Effective
  <2>2. QED BY <2>1, <1>6
<1>14. ~AboutCalls(b) /\ Led(b) = text
  BY <1>6, <1>13
<1>15. /\ text \in Texts
       /\ c \o text = Wanted(saw2, T \o t)
       /\ nonws \/ ~Blanks(text) => ~Blanks(T \o t)
  <2>1. c \o D = Wanted(saw2, T)
    <3>1. saw2 # saw => T = <<>>
      BY <1>4, <1>5, <1>7
    <3>2. QED BY <3>1, <1>7, <1>10, StripNothing DEF Wanted
  <2>2. ASSUME NEW q \in BOOLEAN, NEW n \in BOOLEAN, NEW y,
               q <=> saw2, n <=> nonws, y = text
        PROVE  /\ y \in Texts
               /\ c \o y = Wanted(q, T \o t)
               /\ n \/ ~Blanks(y) => ~Blanks(T \o t)
    <3>1. y = Leading(n, q, D \o t) /\ (~n => c = <<>>) /\ (n => ~Blanks(T))
      BY <2>2, <1>8, <1>10 DEF Leading
    <3>2. Stands(c, D, q, T)
      BY <2>1, <2>2 DEF Wanted, Stands
    <3>3. T \in Texts /\ t \in Texts /\ c \in Texts /\ D \in Texts
      BY <1>1, <1>7
    <3>4. /\ y \in Texts
          /\ Stands(c, y, q, T \o t)
          /\ n \/ ~Blanks(y) => ~Blanks(T \o t)
      BY <3>1, <3>2, <3>3, ContentGoesOn
    <3>5. QED BY <3>4 DEF Stands
  <2>3. QED BY <2>2, <1>7 DEF Wanted
<1>16. /\ D2 = IF Waits(b, last) THEN text ELSE <<>>
       /\ x = IF Waits(b, last) THEN <<>> ELSE text
       /\ Waits(b, last) <=> ~nonws /\ text # <<>> /\ Blanks(text) /\ ~last
  BY <1>2, <1>3, <1>11, <1>14 DEF IsOut, Waits, Drops, Early, x
<1>17. \A y \in Texts : y \o <<>> = y
  BY ConcatEmptySeq DEF Texts
<1>18. CASE Waits(b, last)
  <2>1. D2 = text /\ client'.content = c /\ ~last /\ c = <<>>
    BY <1>18, <1>2, <1>7, <1>10, <1>16, <1>17
  <2>2. QED BY <2>1, <1>3, <1>5, <1>10, <1>12, <1>14, <1>15
<1>19. CASE ~Waits(b, last)
  <2>1. D2 = <<>> /\ client'.content = c \o text /\ c \o text \in Texts
    <3>1. c \o text \in Texts
      BY <1>7, <1>15, ConcatProperties DEF Texts
    <3>2. QED BY <3>1, <1>19, <1>2, <1>16
  <2>2. client'.content \o D2 = c \o text
    BY <2>1, <1>17
  <2>3. ~parser'.content_has_nonws /\ ~last => client'.content = <<>>
    <3>1. SUFFICES ASSUME ~parser'.content_has_nonws, ~last PROVE c \o text = <<>>
      BY <2>1
    <3>2. ~nonws /\ Blanks(text)
      BY <3>1, <1>3, <1>7, <1>14
    <3>3. text = <<>> /\ c = <<>>
      BY <3>1, <3>2, <1>10, <1>16, <1>19
    <3>4. QED BY <3>3, <1>7, <1>17
  <2>4. QED BY <2>1, <2>2, <2>3, <1>3, <1>5, <1>12, <1>14, <1>15
<1>20. QED BY <1>18, <1>19

\* The visible content after a delta.
LEMMA InnerKept ==
  ASSUME ParsedInv, NEW last \in BOOLEAN, ParseDelta(last) PROVE InnerSent'
<1> DEFINE T == TextOf("TEXT_CHUNK")
           t == Of(Events(last), "TEXT_CHUNK")
           c == client.content
           D == parser.deferred_content
           x == Delta(last).content
           D2 == parser'.deferred_content
           b == After(last)
           nonws == parser.content_has_nonws
           saw2 == Reasoned'
           text == Stripped(last)
<1>1. T \in Texts /\ t \in Texts /\ TextOf("TEXT_CHUNK")' = T \o t
  BY TextGoesOn DEF TextTypes
<1>2. client'.content = c \o x /\ IsOut(b, last, Delta(last))
  BY ParseFacts, SentFacts
<1>3. /\ D2 = Delta(last).p.deferred_content
      /\ b.p.content_has_nonws = nonws
      /\ parser'.content_has_nonws = (nonws \/ ~Blanks(Led(b)))
  BY SentFacts
<1>4. ~Mixes => CallsFirst(Events(last))
  BY BatchHolds
<1>5. /\ CallsFirst(Events(last)) /\ ~AboutCalls(b) => Led(b) = text
      /\ CallsFirst(Events(last)) /\ AboutCalls(b) =>
           Led(b) = <<>> /\ b.p.deferred_content = Fresh(last)
  BY ContentEffect
<1>6. c \in Texts /\ D \in Texts /\ nonws \in BOOLEAN /\ saw2 \in BOOLEAN
  BY DEF ParsedInv, Fields, Reasoned
<1>7. /\ text = Leading(nonws, saw2, D \o t)
      /\ Fresh(last) = D \o t
  BY DEF Stripped, Fresh
<1>8. SUFFICES ASSUME ~Mixes
      PROVE  /\ FromVisible(client'.content \o D2) = FromVisible(T \o t)
             /\ ~parser'.content_has_nonws => Blanks(client'.content)
  BY <1>1 DEF InnerSent
<1>9. FromVisible(c \o D) = FromVisible(T) /\ (~nonws => Blanks(c))
  BY <1>8 DEF ParsedInv, InnerSent
<1> HIDE DEF T, t, c, D, x, D2, b, nonws, saw2, text
<1>10. /\ text \in Texts
       /\ FromVisible(c \o (D \o t)) = FromVisible(T \o t)
       /\ FromVisible(c \o text) = FromVisible(T \o t)
       /\ ~nonws /\ Blanks(text) => /\ Blanks(c \o text)
                                    /\ FromVisible(c) = FromVisible(T \o t)
  <2>1. ASSUME NEW q \in BOOLEAN, NEW n \in BOOLEAN, NEW y, q <=> saw2, n <=> nonws, y = text
        PROVE  /\ y \in Texts
               /\ FromVisible(c \o (D \o t)) = FromVisible(T \o t)
               /\ FromVisible(c \o y) = FromVisible(T \o t)
               /\ ~n /\ Blanks(y) => /\ Blanks(c \o y)
                                     /\ FromVisible(c) = FromVisible(T \o t)
    <3>1. y = Leading(n, q, D \o t)
      BY <2>1, <1>7 DEF Leading
    <3>2. ~n => Blanks(c)
      BY <2>1, <1>9
    <3>3. /\ T \in Texts /\ t \in Texts /\ c \in Texts /\ D \in Texts
          /\ FromVisible(c \o D) = FromVisible(T)
      BY <1>1, <1>6, <1>9
    <3>4. QED BY <3>1, <3>2, <3>3, InnerGoesOn, SMTT(30)
  <2>2. QED BY <2>1, <1>6
<1>11. \A y \in Texts : y \o <<>> = y
  BY ConcatEmptySeq DEF Texts
<1>12. c \o text \in Texts
  BY <1>6, <1>10, ConcatProperties DEF Texts
<1>13. CASE AboutCalls(b)
  <2>1. Led(b) = <<>> /\ b.p.deferred_content = D \o t
    BY <1>13, <1>4, <1>5, <1>7, <1>8
  <2>2. x = <<>> /\ D2 = D \o t
    BY <2>1, <1>13, <1>2, <1>3 DEF IsOut, Waits, Drops, Early, x
  <2>3. client'.content = c
    BY <2>2, <1>2, <1>6, <1>11
  <2>4. QED BY <2>2, <2>3, <1>3, <1>9, <1>10
<1>14. CASE ~AboutCalls(b)
  <2>1. Led(b) = text
    BY <1>14, <1>4, <1>5, <1>8
  <2>2. /\ D2 = IF Waits(b, last) THEN text ELSE <<>>
        /\ x = IF Waits(b, last) \/ Drops(b) THEN <<>> ELSE text
        /\ Waits(b, last) \/ Drops(b) => ~nonws /\ Blanks(text)
    BY <2>1, <1>14, <1>2, <1>3 DEF IsOut, Waits, Drops, Early, x
  <2>3. CASE Waits(b, last)
    <3>1. D2 = text /\ client'.content = c /\ ~nonws
      BY <2>2, <2>3, <1>2, <1>6, <1>11
    <3>2. QED BY <3>1, <1>9, <1>10
  <2>4. CASE ~Waits(b, last) /\ Drops(b)
    <3>1. D2 = <<>> /\ client'.content = c /\ ~nonws /\ Blanks(text)
      BY <2>2, <2>4, <1>2, <1>6, <1>11
    <3>2. client'.content \o D2 = c
      BY <3>1, <1>6, <1>11
    <3>3. QED BY <3>1, <3>2, <1>9, <1>10
  <2>5. CASE ~Waits(b, last) /\ ~Drops(b)
    <3>1. D2 = <<>> /\ client'.content = c \o text
      BY <2>2, <2>5, <1>2
    <3>2. client'.content \o D2 = c \o text
      BY <3>1, <1>11, <1>12
    <3>3. ~parser'.content_has_nonws => ~nonws /\ Blanks(text)
      BY <2>1, <1>3, <1>6
    <3>4. QED BY <3>1, <3>2, <3>3, <1>10
  <2>6. QED BY <2>3, <2>4, <2>5
<1>15. QED BY <1>13, <1>14

\* Parsing a delta keeps all of it.
LEMMA ParsedParse ==
  ASSUME ParsedInv, NEW last \in BOOLEAN, ParseDelta(last) PROVE ParsedInv'
<1>1. Lexed'
  BY LexedParse DEF ParsedInv
<1>2. Fields' /\ ReasoningSent' /\ ContentSent' /\ InnerSent'
  BY FieldsKept, ReasoningKept, ContentKept, InnerKept
<1>3. QED BY <1>1, <1>2 DEF ParsedInv

---------------------------------------------------------------------------
(* What the client has at any time.                                        *)

(* The inductive invariant holds of the parser, from delta to delta.       *)
THEOREM ParsedInvariant == Spec => []ParsedInv
<1>1. Init => ParsedInv
  BY ParsedInit
<1>2. ParsedInv /\ [Next]_vars => ParsedInv'
  BY ParsedLex, ParsedParse, ParsedStutter DEF Next
<1>3. QED BY <1>1, <1>2, PTL DEF Spec

(* The parser's fields and the client's texts have their types, and a call *)
(* whose name was sent, and no other, has an id of its own.                *)
THEOREM TypeCorrect == Spec => []TypeOK
<1>1. ParsedInv => TypeOK
  <2>1. SUFFICES ASSUME Fields PROVE TypeOK
    BY DEF ParsedInv
  <2> DEFINE slots == parser.slots
             cnt == parser.history_tool_call_cnt
  <2>2. cnt \in Nat /\ Slots(slots, cnt)
    BY <2>1 DEF Fields, IsParser
  <2> HIDE DEF slots, cnt
  <2>3. ASSUME NEW i \in DOMAIN slots
        PROVE  /\ slots[i].name \in Name /\ slots[i].args \in Seq(Keys \union Letters)
               /\ slots[i].name_sent <=> slots[i].id \in 1 .. cnt
               /\ \A j \in DOMAIN slots :
                    i # j /\ slots[i].name_sent => slots[j].id # slots[i].id
    <3>1. /\ IsSlot(slots[i]) /\ (slots[i].name_sent => slots[i].id \in 1 .. cnt)
          /\ \A j \in DOMAIN slots :
               i # j /\ slots[i].name_sent => slots[j].id # slots[i].id
      BY <2>2 DEF Slots
    <3>2. NoId \notin 1 .. cnt
      BY <2>2 DEF NoId
    <3>3. QED BY <3>1, <3>2 DEF IsSlot
  <2>4. /\ parser.deferred_content \in Seq(Characters)
        /\ parser.deferred_reasoning \in Seq({"nl", "sp"})
        /\ client.content \in Seq(Characters) /\ client.reasoning \in Seq(Characters)
    BY <2>1 DEF Fields, Texts, White
  <2>5. QED BY <2>3, <2>4 DEF TypeOK, slots, cnt
<1>2. QED BY <1>1, ParsedInvariant, PTL

(* The client's reasoning is the model's without the white space at its    *)
(* end, after every delta (_strip_trailing_reasoning).                     *)
THEOREM ReasoningStays == Spec => []ReasoningStands
<1>1. ParsedInv => ReasoningStands
  BY DEF ParsedInv, ReasoningSent, ReasoningStands
<1>2. QED BY <1>1, ParsedInvariant, PTL

\* The parser that parse() starts from.
LEMMA ParserIsNew ==
  /\ IsParser(NewParser) /\ NewParser.slots = <<>> /\ NewParser.deferred_content = <<>>
  /\ <<>> \in Texts
  /\ NewParser.content_has_nonws = FALSE /\ NewParser.saw_reasoning_end = FALSE
<1>1. Slots(<<>>, 0)
  <2>1. DOMAIN <<>> = {} /\ 1 .. 0 = {}
    OBVIOUS
  <2>2. <<>> = [i \in DOMAIN <<>> |-> <<>>[i]]
    BY <2>1
  <2>3. QED BY <2>1, <2>2 DEF Slots
<1>2. QED BY <1>1, StripNothing DEF IsParser, NewParser

\* parse() gives the wanted content of events that are about no call.
LEMMA ParseGives ==
  ASSUME NEW w \in Seq(EventSet), ~Suppress => TypesOf(w) \cap CallEvents = {}
  PROVE  Parse(w).content = Wanted("REASONING_END" \in TypesOf(w), Of(w, "TEXT_CHUNK"))
<1> DEFINE p == NewParser
           b == FoldLeft(TakeEvent, NewAcc(p), w)
           out == DeltaOf(b, TRUE)
           t == Of(w, "TEXT_CHUNK")
           end == "REASONING_END" \in TypesOf(w)
<1>1. /\ IsParser(p) /\ p.slots = <<>> /\ p.deferred_content = <<>> /\ <<>> \in Texts
      /\ p.content_has_nonws = FALSE /\ p.saw_reasoning_end = FALSE
  BY ParserIsNew
<1>2. Parse(w).content = out.content
  <2>1. Parse(w) = Parsed(out)
    BY Zenon DEF Parse, EventsToDelta
  <2> HIDE DEF out
  <2>2. QED BY <2>1 DEF Parsed
<1> HIDE DEF p
<1>3. IsAcc(b) /\ AlongReasoning(p, w, Len(w), b) /\ AlongContent(p, w, Len(w), b)
  BY <1>1, BatchEffect
<1> HIDE DEF b
<1>4. IsOut(b, TRUE, out)
  BY <1>3, DeltaEffect
<1> HIDE DEF out
<1>5. Len(w) \in Nat /\ SubSeq(w, 1, Len(w)) = w /\ t \in Texts
  <2>1. t \in Texts
    BY OfConcat DEF TextTypes, Texts
  <2>2. QED BY <2>1, SubSeqFull, LenProperties
<1>6. \A i \in 1 .. Len(w) : ~Effective(w[i])
  BY DEF Effective, TypesOf
<1>7. Upto(w, Len(w), "TEXT_CHUNK") = t
  BY <1>5 DEF Upto
<1>8. /\ b.seen \in BOOLEAN /\ ~b.seen
      /\ b.content = t /\ b.p.deferred_content = <<>> /\ b.p.slots = <<>>
  BY <1>1, <1>3, <1>6, <1>7 DEF AlongContent
<1>9. /\ b.p.content_has_nonws = FALSE
      /\ b.p.saw_reasoning_end = IF EndIn(w, Len(w)) THEN TRUE ELSE FALSE
  BY <1>1, <1>3 DEF AlongReasoning
<1>10. EndIn(w, Len(w)) <=> end
  BY DEF EndIn, TypesOf
<1> HIDE DEF t, end
<1>11. Release(b) = t
  BY <1>5, <1>8, ConcatEmptySeq DEF Release, Texts
<1>12. Led(b) = Wanted(end, t)
  BY <1>9, <1>10, <1>11 DEF Led, Wanted
<1>13. out.content = Led(b)
  BY <1>4, <1>8 DEF IsOut, Waits, Drops, Early
<1>14. QED BY <1>2, <1>12, <1>13 DEF t, end

(* Without calls, what was sent and what is deferred are the model's text, *)
(* and at the end it is what parse() gives for the whole answer            *)
(* (_events_to_delta).                                                     *)
THEOREM ContentStays == Spec => []ContentStands
<1>1. ParsedInv => ContentStands
  <2>1. SUFFICES ASSUME ParsedInv, parser.slots = <<>>
                 PROVE  LET text == TextOf("TEXT_CHUNK")
                        IN  /\ client.content \o parser.deferred_content =
                                 IF parser.saw_reasoning_end THEN StripNewlines(text) ELSE text
                            /\ finished => /\ parser.deferred_content = <<>>
                                           /\ client.content = Parse(given).content
    BY DEF ContentStands
  <2> DEFINE text == TextOf("TEXT_CHUNK")
             c == client.content
             d == parser.deferred_content
  <2>2. /\ ~Suppress => TypesOf(given) \cap CallEvents = {}
        /\ c \o d = Wanted(Reasoned, text)
        /\ finished => d = <<>>
        /\ parser.saw_reasoning_end <=> Reasoned
        /\ given \in Seq(EventSet) /\ c \in Texts
    BY <2>1 DEF ParsedInv, ContentSent, Fields, Lexed
  <2>3. text = Of(given, "TEXT_CHUNK")
    BY TextIsOf
  <2>4. Parse(given).content = Wanted(Reasoned, text)
    BY <2>2, <2>3, ParseGives DEF Reasoned
  <2> HIDE DEF text, c, d
  <2>5. finished => c = Wanted(Reasoned, text)
    BY <2>2, ConcatEmptySeq DEF Texts
  <2>6. c \o d = IF parser.saw_reasoning_end THEN StripNewlines(text) ELSE text
    BY <2>2 DEF Wanted
  <2>7. QED BY <2>2, <2>4, <2>5, <2>6 DEF text, c, d
<1>2. QED BY <1>1, ParsedInvariant, PTL

(* From the first visible character on, what was sent and what is deferred *)
(* are the model's text, with calls or without, as long as no delta holds  *)
(* text in front of a call (_events_to_delta).                             *)
THEOREM InnerTextStays == ASSUME ~Mixes PROVE Spec => []InnerTextUntouched
<1>1. ParsedInv => InnerTextUntouched
  BY DEF ParsedInv, InnerSent, InnerTextUntouched
<1>2. QED BY <1>1, ParsedInvariant, PTL

---------------------------------------------------------------------------
(* The parameters in raw arguments.                                        *)

\* One more element is one more step of the loop.
LEMMA LoopAppend ==
  ASSUME NEW loop, NEW acc, NEW A, NEW s \in Seq(A), NEW a \in A, NEW r, NEW q,
         HasLoop(loop, acc, s, Len(s), r), HasLoop(loop, acc, Append(s, a), Len(s) + 1, q)
  PROVE  q = Step(loop, r, a)
<1> DEFINE n == Len(s)
           t == Append(s, a)
<1>1. n \in Nat /\ n + 1 \in Nat /\ t[n + 1] = a /\ \A i \in 1 .. n : t[i] = s[i]
  BY AppendProperties, LenProperties
<1>2. PICK g : IsLoop(loop, g, acc, s, n, r)
  BY DEF HasLoop
<1>3. PICK f : IsLoop(loop, f, acc, t, n + 1, q)
  BY DEF HasLoop
<1> HIDE DEF n, t
<1>4. \A i \in 1 .. n : g[i] = Step(loop, g[i - 1], t[i])
  BY <1>1, <1>2 DEF IsLoop
<1>5. IsLoop(loop, g, acc, t, n, r)
  BY <1>2, <1>4 DEF IsLoop
<1>6. n \in 0 .. n + 1 /\ n + 1 \in 1 .. n + 1 /\ (n + 1) - 1 = n
  BY <1>1
<1>7. \A i \in 0 .. n : f[i] = g[i]
  <2> DEFINE m == n + 1
  <2>1. m \in Nat /\ n \in 0 .. m /\ IsLoop(loop, f, acc, t, m, q)
    BY <1>1, <1>3, <1>6
  <2> HIDE DEF m
  <2>2. QED BY <2>1, <1>5, LoopsAgree
<1>8. f[n] = r
  BY <1>1, <1>2, <1>7 DEF IsLoop
<1>9. f[n + 1] = Step(loop, f[n], t[n + 1]) /\ f[n + 1] = q
  BY <1>3, <1>6 DEF IsLoop
<1>10. QED BY <1>1, <1>8, <1>9

\* The characters of values.
Marks == Letters \ Keys

Param == [key : Keys, value : Seq(Marks)]

\* Raw arguments begin with a key.
Raw(raw) == raw \in Seq(Keys \union Letters) /\ (raw # <<>> => raw[1] \in Keys)

\* The last parameter is p, after ps.
Ending(params, ps, p) ==
  /\ ps \in Seq(Param) /\ p \in Param
  /\ params = Append(ps, p)

\* What a symbol does to the parameters.
LEMMA SymbolAdded ==
  ASSUME NEW params, NEW ps, NEW p, Ending(params, ps, p), NEW a \in Keys \union Letters
  PROVE  /\ a \in Keys => Ending(AddSymbol(params, a), params, [key |-> a, value |-> <<>>])
         /\ a \notin Keys => Ending(AddSymbol(params, a), ps,
                                    [key |-> p.key, value |-> Append(p.value, a)])
<1>1. /\ ps \in Seq(Param) /\ p \in Param /\ params = Append(ps, p)
      /\ params \in Seq(Param) /\ Len(params) = Len(ps) + 1 /\ Len(ps) \in Nat
      /\ params[Len(ps) + 1] = p /\ \A i \in 1 .. Len(ps) : params[i] = ps[i]
  <2>1. ps \in Seq(Param) /\ p \in Param /\ params = Append(ps, p)
    BY DEF Ending
  <2>2. QED BY <2>1, AppendProperties, LenProperties
<1>2. CASE a \in Keys
  <2>1. [key |-> a, value |-> <<>>] \in Param
    BY <1>2, EmptySeq DEF Param
  <2>2. AddSymbol(params, a) = Append(params, [key |-> a, value |-> <<>>])
    BY <1>2 DEF AddSymbol
  <2>3. QED BY <1>1, <1>2, <2>1, <2>2 DEF Ending
<1>3. CASE a \notin Keys
  <2> DEFINE q == [key |-> p.key, value |-> Append(p.value, a)]
             n == Len(ps) + 1
             r == AddSymbol(params, a)
  <2>1. q \in Param
    <3>1. p.key \in Keys /\ p.value \in Seq(Marks) /\ a \in Marks
      BY <1>1, <1>3 DEF Param, Marks
    <3>2. QED BY <3>1, AppendProperties DEF Param
  <2>2. n \in 1 .. Len(params) /\ DOMAIN params = 1 .. Len(params)
    BY <1>1, LenProperties
  <2>3. r = [params EXCEPT ![n].value = Append(@, a)]
    BY <1>1, <1>3 DEF AddSymbol
  <2>4. [p EXCEPT !.value = Append(@, a)] = q
    <3>1. p = [key |-> p.key, value |-> p.value]
      BY <1>1 DEF Param
    <3>2. QED BY <3>1
  <2>5. r = [params EXCEPT ![n] = q]
    BY <1>1, <2>2, <2>3, <2>4
  <2> HIDE DEF r, q, n
  <2>6. /\ r \in Seq(Param) /\ Len(r) = Len(params)
        /\ \A j \in 1 .. Len(params) : r[j] = IF j = n THEN q ELSE params[j]
    <3>2. params \in Seq(Param) /\ q \in Param /\ n \in 1 .. Len(params)
      BY <1>1, <2>1, <2>2
    <3>3. /\ [params EXCEPT ![n] = q] \in Seq(Param)
          /\ Len([params EXCEPT ![n] = q]) = Len(params)
          /\ \A j \in 1 .. Len(params) :
               [params EXCEPT ![n] = q][j] = IF j = n THEN q ELSE params[j]
      BY <3>2, ExceptSeq, SMTT(20)
    <3>4. QED BY <3>3, <2>5
  <2>7. /\ Append(ps, q) \in Seq(Param) /\ Len(Append(ps, q)) = n /\ Append(ps, q)[n] = q
        /\ \A i \in 1 .. Len(ps) : Append(ps, q)[i] = ps[i]
    BY <1>1, <2>1, AppendProperties DEF n
  <2>8. ASSUME NEW i \in 1 .. n PROVE r[i] = Append(ps, q)[i]
    <3>1. CASE i = n
      BY <3>1, <2>2, <2>6, <2>7
    <3>2. CASE i # n
      <4>1. i \in 1 .. Len(ps) /\ i \in 1 .. Len(params)
        BY <3>2, <1>1 DEF n
      <4>2. QED BY <4>1, <3>2, <2>6, <2>7, <1>1
    <3>3. QED BY <3>1, <3>2
  <2>9. Len(r) = n
    BY <1>1, <2>6 DEF n
  <2>10. r = Append(ps, q)
    BY <2>6, <2>7, <2>8, <2>9, SeqEqual
  <2>11. QED BY <1>1, <1>3, <2>1, <2>10 DEF Ending, r, q
<1>4. QED BY <1>2, <1>3

HasEnding(params) == \E ps, p : Ending(params, ps, p)

\* Raw arguments are at least one parameter, unless there are none.
LEMMA ParametersEnd ==
  ASSUME NEW raw, Raw(raw)
  PROVE  /\ raw = <<>> => Parameters(raw) = <<>>
         /\ raw # <<>> => HasEnding(Parameters(raw))
<1> DEFINE A == Keys \union Letters
           n == Len(raw)
<1>1. raw \in Seq(A) /\ n \in Nat /\ DOMAIN raw = 1 .. n /\ \A k \in 1 .. n : raw[k] \in A
  BY LenProperties, ElementOfSeq DEF Raw
<1> HIDE DEF A
<1>2. HasLoop("symbols", <<>>, raw, n, Parameters(raw))
  BY <1>1, SymbolSteps DEF Parameters
<1> HIDE DEF n
<1>3. PICK f : IsLoop("symbols", f, <<>>, raw, n, Parameters(raw))
  BY <1>2 DEF HasLoop
<1>4. f[0] = <<>> /\ f[n] = Parameters(raw) /\ \A k \in 1 .. n : f[k] = AddSymbol(f[k - 1], raw[k])
  BY <1>3, StepIs DEF IsLoop
<1>5. CASE raw = <<>>
  <2>1. n = 0
    BY <1>5, EmptySeq DEF n
  <2>2. QED BY <1>4, <1>5, <2>1
<1>6. CASE raw # <<>>
  <2> DEFINE Good == {k \in Nat : k + 1 \in 1 .. n => HasEnding(f[k + 1])}
  <2>1. n \in Nat \ {0}
    BY <1>1, <1>6, EmptySeq DEF n
  <2>2. 0 \in Good
    <3>1. 1 \in 1 .. n /\ raw[1] \in Keys
      BY <2>1, <1>6 DEF Raw
    <3>2. f[1] = AddSymbol(<<>>, raw[1])
      BY <3>1, <1>4
    <3>3. f[1] = Append(<<>>, [key |-> raw[1], value |-> <<>>])
      BY <3>1, <3>2 DEF AddSymbol
    <3>4. [key |-> raw[1], value |-> <<>>] \in Param /\ <<>> \in Seq(Param)
      BY <3>1, EmptySeq DEF Param
    <3>5. Ending(f[1], <<>>, [key |-> raw[1], value |-> <<>>])
      BY <3>3, <3>4 DEF Ending
    <3>6. QED BY <3>5 DEF HasEnding
  <2>3. ASSUME NEW k \in Nat, k \in Good PROVE k + 1 \in Good
    <3>1. SUFFICES ASSUME k + 2 \in 1 .. n PROVE HasEnding(f[k + 2])
      OBVIOUS
    <3>2. k + 1 \in 1 .. n /\ (k + 2) - 1 = k + 1
      BY <3>1, <1>1
    <3>3. PICK ps, p : Ending(f[k + 1], ps, p)
      BY <3>2, <2>3 DEF HasEnding
    <3>4. f[k + 2] = AddSymbol(f[k + 1], raw[k + 2]) /\ raw[k + 2] \in A
      BY <3>1, <3>2, <1>1, <1>4
    <3> DEFINE a == raw[k + 2]
    <3>5. a \in Keys \union Letters
      BY <3>4 DEF A
    <3> HIDE DEF a
    <3>6. \/ Ending(AddSymbol(f[k + 1], a), f[k + 1], [key |-> a, value |-> <<>>])
          \/ Ending(AddSymbol(f[k + 1], a), ps, [key |-> p.key, value |-> Append(p.value, a)])
      BY <3>3, <3>5, SymbolAdded
    <3>7. QED BY <3>4, <3>6, Zenon DEF a, HasEnding
  <2>4. n - 1 \in Good
    <3> HIDE DEF Good
    <3>1. n - 1 \in Nat
      BY <2>1
    <3>2. QED BY <2>2, <2>3, <3>1, NatInductionSet
  <2>5. QED BY <2>1, <2>4, <1>4, <1>6
<1>7. QED BY <1>5, <1>6

\* One more symbol.
LEMMA ParametersGrow ==
  ASSUME NEW raw, Raw(raw), NEW a \in Keys \union Letters
  PROVE  Parameters(Append(raw, a)) = AddSymbol(Parameters(raw), a)
<1> DEFINE A == Keys \union Letters
           n == Len(raw)
           t == Append(raw, a)
<1>1. raw \in Seq(A) /\ a \in A
  BY DEF Raw
<1> HIDE DEF A
<1>2. /\ n \in Nat /\ n + 1 \in Nat /\ DOMAIN raw = 1 .. n
      /\ t \in Seq(A) /\ DOMAIN t = 1 .. n + 1
  BY <1>1, LenProperties, AppendProperties
<1>3. HasLoop("symbols", <<>>, raw, Len(raw), Parameters(raw))
  BY <1>2, SymbolSteps DEF Parameters
<1>4. HasLoop("symbols", <<>>, Append(raw, a), Len(raw) + 1, Parameters(Append(raw, a)))
  BY <1>2, SymbolSteps DEF Parameters
<1>5. Parameters(Append(raw, a)) = Step("symbols", Parameters(raw), a)
  BY <1>1, <1>3, <1>4, LoopAppend
<1>6. QED BY <1>5, StepIs

---------------------------------------------------------------------------
(* The arguments as JSON.                                                  *)

\* The symbols of the JSON, and the JSON in parts.
Written == Keys \union Marks \union {"{", "}", ",", "quote"}

Jsons == Seq(Written)

OpenBrace == <<"{">>
CloseBrace == <<"}">>

\* x and then y.  The operator keeps a concatenation whole where it is cited.
Cat(x, y) == x \o y

\* Concatenation is associative.
LEMMA CatFacts ==
  /\ <<>> \in Jsons /\ \A a \in Written : <<a>> \in Jsons
  /\ \A x, y \in Jsons : Cat(x, y) \in Jsons
  /\ \A x, y, z \in Jsons : Cat(Cat(x, y), z) = Cat(x, Cat(y, z))
  /\ \A x \in Jsons : Cat(x, <<>>) = x /\ Cat(<<>>, x) = x
<1>1. <<>> \in Jsons /\ \A a \in Written : <<a>> \in Jsons
  BY EmptySeq DEF Jsons
<1>2. \A x, y \in Jsons : Cat(x, y) \in Jsons
  BY ConcatProperties DEF Jsons, Cat
<1>3. \A x, y, z \in Seq(Written) : (x \o y) \o z = x \o (y \o z)
  BY ConcatAssociative, SMTT(30)
<1>4. \A x \in Seq(Written) : x \o <<>> = x /\ <<>> \o x = x
  BY ConcatEmptySeq
<1>5. QED BY <1>1, <1>2, <1>3, <1>4, Zenon DEF Jsons, Cat

\* A value is more JSON, without keys or quotes.
LEMMA MarksFacts ==
  /\ Seq(Marks) \subseteq Jsons /\ "quote" \notin Marks /\ Marks \cap Keys = {}
  /\ "quote" \in Written /\ "quote" \notin Keys /\ "}" \in Written /\ "}" \notin Keys
  /\ "{" \in Written /\ "," \in Written /\ Keys \subseteq Written
<1>1. Marks \subseteq Written
  BY DEF Written
<1>2. Seq(Marks) \subseteq Jsons
  BY <1>1, SeqMonotonic DEF Jsons
<1>3. QED BY <1>2, SymbolsAssumption DEF Marks, Written

Quoted(w) == Cat(Cat(<<"quote">>, w), <<"quote">>)

\* A parameter that may stream is a string.
LEMMA StringKeysQuoted ==
  ASSUME NEW p \in Param, NEW name, p.key \in StringKeys(name)
  PROVE  CoerceValue(p, Properties(name)) = Quoted(p.value)
<1>1. ~(p.key \in DOMAIN Properties(name) /\ Properties(name)[p.key] = "integer")
  <2>1. CASE DOMAIN Properties(name) = {}
    BY <2>1
  <2>2. CASE DOMAIN Properties(name) # {}
    <3> DEFINE D == DOMAIN Properties(name)
               F(k) == Properties(name)[k]
    <3>1. StringKeys(name) = {k \in D : F(k) = "string"}
      BY <2>2 DEF StringKeys
    <3> HIDE DEF D, F
    <3>2. F(p.key) = "string"
      BY <3>1
    <3>3. "string" # "integer"
      OBVIOUS
    <3>4. QED BY <3>2, <3>3 DEF F
  <2>3. QED BY <2>1, <2>2
<1>2. QED BY <1>1, Zenon DEF CoerceValue, Quoted, Cat

\* A value in the JSON has no keys, and is not empty.
LEMMA CoerceFacts ==
  ASSUME NEW p \in Param, NEW name
  PROVE  LET c == CoerceValue(p, Properties(name))
         IN  /\ c \in Jsons /\ c # <<>> /\ \A i \in 1 .. Len(c) : c[i] \notin Keys
             /\ p.key \in StringKeys(name) => c = Quoted(p.value)
             /\ p.value \in Seq(Marks) /\ p.key \in Keys
<1> DEFINE c == CoerceValue(p, Properties(name))
           w == p.value
<1>1. w \in Seq(Marks) /\ p.key \in Keys
  BY DEF Param
<1>2. (c = w /\ w # <<>>) \/ c = Quoted(w)
  BY Zenon DEF CoerceValue, Quoted, Cat
<1>3. p.key \in StringKeys(name) => c = Quoted(w)
  BY StringKeysQuoted
<1> HIDE DEF c, w
<1>4. CASE c = w /\ w # <<>>
  <2>1. \A i \in 1 .. Len(w) : w[i] \in Marks
    BY <1>1, ElementOfSeq
  <2>2. QED BY <1>1, <1>3, <1>4, <2>1, MarksFacts DEF c, w
<1>5. CASE c = Quoted(w)
  <2> DEFINE q == <<"quote">>
             u == q \o w
             d == u \o q
             B == Marks \union {"quote"}
  <2>1. q \in Seq(B) /\ w \in Seq(B) /\ Len(q) = 1
    <3>1. Marks \subseteq B
      OBVIOUS
    <3>2. w \in Seq(B)
      BY <1>1, <3>1, SeqMonotonic
    <3>3. q \in Seq(B) /\ Len(q) = 1
      BY EmptySeq
    <3>4. QED BY <3>2, <3>3
  <2> HIDE DEF B, q
  <2>2. u \in Seq(B)
    BY <2>1, ConcatProperties
  <2> HIDE DEF u
  <2>3. d \in Seq(B) /\ Len(d) = Len(u) + 1 /\ Len(u) \in Nat
    BY <2>1, <2>2, ConcatProperties, LenProperties
  <2>4. d = c
    BY <1>5 DEF Quoted, Cat, u, q
  <2> HIDE DEF d
  <2>5. \A i \in 1 .. Len(d) : d[i] \in B
    BY <2>3, ElementOfSeq
  <2>6. B \subseteq Written /\ B \cap Keys = {}
    BY MarksFacts DEF B, Marks, Written
  <2>7. d \in Jsons
    BY <2>3, <2>6, SeqMonotonic DEF Jsons
  <2>8. d # <<>>
    BY <2>3, EmptySeq
  <2>9. QED BY <1>1, <1>3, <2>4, <2>5, <2>6, <2>7, <2>8 DEF c, w
<1>6. QED BY <1>2, <1>4, <1>5

\* The i-th parameter in the JSON, and the first ones.
Comma(i) == IF i = 1 THEN <<>> ELSE <<",">>

Member(p, i, name) == Cat(Comma(i), Cat(<<p.key>>, CoerceValue(p, Properties(name))))

Members(params, name) == FlattenSeq([i \in DOMAIN params |-> Member(params[i], i, name)])

\* A parameter is JSON.
LEMMA MemberFacts ==
  ASSUME NEW p \in Param, NEW i, NEW name
  PROVE  /\ Member(p, i, name) \in Jsons /\ Comma(i) \in Jsons /\ <<p.key>> \in Jsons
         /\ CoerceValue(p, Properties(name)) \in Jsons
<1>1. Comma(i) \in Jsons
  BY CatFacts, MarksFacts DEF Comma
<1>2. <<p.key>> \in Jsons
  BY CoerceFacts, CatFacts, MarksFacts
<1>3. CoerceValue(p, Properties(name)) \in Jsons
  BY CoerceFacts
<1>4. QED BY <1>1, <1>2, <1>3, CatFacts, Zenon DEF Member

\* The braces are JSON.
LEMMA BraceFacts == OpenBrace \in Jsons /\ CloseBrace \in Jsons
  BY CatFacts, MarksFacts, Zenon DEF OpenBrace, CloseBrace

\* One more parameter follows the others.
LEMMA MembersAppend ==
  ASSUME NEW ps \in Seq(Param), NEW p \in Param, NEW name
  PROVE  /\ Members(ps, name) \in Jsons
         /\ Members(Append(ps, p), name) = Cat(Members(ps, name), Member(p, Len(ps) + 1, name))
<1> DEFINE n == Len(ps)
           t == Append(ps, p)
           m(q, i) == Member(q, i, name)
           ss == [i \in DOMAIN ps |-> m(ps[i], i)]
           tt == [i \in DOMAIN t |-> m(t[i], i)]
           x == m(p, n + 1)
<1>1. /\ n \in Nat /\ DOMAIN ps = 1 .. n /\ DOMAIN t = 1 .. n + 1 /\ t[n + 1] = p
      /\ \A i \in 1 .. n : t[i] = ps[i] /\ ps[i] \in Param
  BY AppendProperties, LenProperties, ElementOfSeq
<1>2. \A q \in Param, i \in Nat : m(q, i) \in Jsons
  BY MemberFacts
<1> HIDE DEF m, n, t
<1>3. ss \in Seq(Jsons) /\ Len(ss) = n /\ x \in Jsons
  BY <1>1, <1>2
<1>4. tt = Append(ss, x)
  <2>1. /\ Append(ss, x) \in Seq(Jsons) /\ Len(Append(ss, x)) = n + 1
        /\ Append(ss, x)[n + 1] = x /\ \A i \in 1 .. n : Append(ss, x)[i] = ss[i]
    BY <1>3, AppendProperties
  <2>2. tt \in Seq(Jsons) /\ Len(tt) = n + 1
    <3>1. \A i \in 1 .. n + 1 : t[i] \in Param
      BY <1>1
    <3>2. QED BY <1>1, <1>2, <3>1
  <2>3. ASSUME NEW i \in 1 .. n + 1 PROVE tt[i] = Append(ss, x)[i]
    <3>1. CASE i = n + 1
      BY <3>1, <1>1, <2>1
    <3>2. CASE i # n + 1
      <4>1. i \in 1 .. n
        BY <3>2, <1>1
      <4>2. QED BY <4>1, <1>1, <2>1
    <3>3. QED BY <3>1, <3>2
  <2> HIDE DEF tt, ss
  <2>4. QED BY <2>1, <2>2, <2>3, SeqEqual
<1>5. FlattenSeq(ss) \in Jsons /\ FlattenSeq(Append(ss, x)) = FlattenSeq(ss) \o x
  <2> HIDE DEF ss, x
  <2>1. ss \in Seq(Seq(Written)) /\ x \in Seq(Written)
    BY <1>3 DEF Jsons
  <2>2. QED BY <2>1, FlattenAppend DEF Jsons
<1>6. Members(ps, name) = FlattenSeq(ss) /\ Members(t, name) = FlattenSeq(tt)
  BY DEF Members, m
<1> HIDE DEF ss, tt
<1>7. QED BY <1>4, <1>5, <1>6, Zenon DEF Cat, t, x, m, n

\* The JSON up to the last value.
Opening(ps, p, name) ==
  Cat(Cat(OpenBrace, Members(ps, name)), Cat(Comma(Len(ps) + 1), <<p.key>>))

\* Members, too, end in the last value.
LEMMA MembersEnd ==
  ASSUME NEW params, NEW ps, NEW p, Ending(params, ps, p), NEW name
  PROVE  /\ Cat(OpenBrace, Members(params, name)) =
              Cat(Opening(ps, p, name), CoerceValue(p, Properties(name)))
         /\ Opening(ps, p, name) \in Jsons /\ Members(params, name) \in Jsons
<1> DEFINE a == OpenBrace
           b == Members(ps, name)
           s == Comma(Len(ps) + 1)
           k == <<p.key>>
           c == CoerceValue(p, Properties(name))
<1>1. ps \in Seq(Param) /\ p \in Param /\ params = Append(ps, p)
  BY DEF Ending
<1>2. /\ a \in Jsons /\ b \in Jsons /\ s \in Jsons /\ k \in Jsons /\ c \in Jsons
  BY <1>1, BraceFacts, MembersAppend, MemberFacts
<1>3. Members(params, name) = Cat(b, Cat(s, Cat(k, c)))
  BY <1>1, MembersAppend DEF Member
<1>4. Opening(ps, p, name) = Cat(Cat(a, b), Cat(s, k))
  BY DEF Opening
<1> HIDE DEF a, b, s, k, c
<1>5. Cat(a, Cat(b, Cat(s, Cat(k, c)))) = Cat(Cat(Cat(a, b), Cat(s, k)), c)
  <2>1. Cat(s, k) \in Jsons /\ Cat(a, b) \in Jsons /\ Cat(s, Cat(k, c)) = Cat(Cat(s, k), c)
    BY <1>2, CatFacts
  <2>2. Cat(a, Cat(b, Cat(Cat(s, k), c))) = Cat(Cat(a, b), Cat(Cat(s, k), c))
    BY <1>2, <2>1, CatFacts
  <2>3. Cat(Cat(a, b), Cat(Cat(s, k), c)) = Cat(Cat(Cat(a, b), Cat(s, k)), c)
    BY <1>2, <2>1, CatFacts
  <2>4. QED BY <2>1, <2>2, <2>3
<1>6. Cat(s, Cat(k, c)) \in Jsons /\ Cat(s, k) \in Jsons /\ Cat(a, b) \in Jsons
  BY <1>2, CatFacts
<1>7. Cat(Cat(a, b), Cat(s, k)) \in Jsons /\ Cat(b, Cat(s, Cat(k, c))) \in Jsons
  BY <1>2, <1>6, CatFacts
<1>8. QED BY <1>3, <1>4, <1>5, <1>7 DEF a, c

\* The JSON of raw arguments.
LEMMA JsonIs ==
  ASSUME NEW raw, NEW name
  PROVE  Json(raw, name) = Cat(Cat(OpenBrace, Members(Parameters(raw), name)), CloseBrace)
  BY Zenon DEF Json, Members, Member, Comma, Cat, OpenBrace, CloseBrace

\* The last value is closed.
LEMMA JsonEnds ==
  ASSUME NEW raw, NEW ps, NEW p, Ending(Parameters(raw), ps, p), NEW name
  PROVE  /\ Json(raw, name) =
              Cat(Opening(ps, p, name), Cat(CoerceValue(p, Properties(name)), CloseBrace))
         /\ Opening(ps, p, name) \in Jsons
         /\ Cat(CoerceValue(p, Properties(name)), CloseBrace) \in Jsons
<1> DEFINE f == Opening(ps, p, name)
           c == CoerceValue(p, Properties(name))
           z == CloseBrace
<1>1. Cat(OpenBrace, Members(Parameters(raw), name)) = Cat(f, c) /\ f \in Jsons
  BY MembersEnd
<1>2. c \in Jsons
  BY CoerceFacts DEF Ending
<1>3. z \in Jsons
  BY BraceFacts
<1>4. Json(raw, name) = Cat(Cat(f, c), z)
  BY <1>1, JsonIs
<1> HIDE DEF f, c, z
<1>5. QED BY <1>1, <1>2, <1>3, <1>4, CatFacts DEF f, c, z

ColonOf(json) == SelectLastInSeq(json, LAMBDA t : t \in Keys)

CloseOf(json, i) == SelectInSubSeq(json, i, Len(json), LAMBDA t : t = "quote")

\* The safe prefix, in parts.
LEMMA SafeIs ==
  ASSUME NEW json, NEW sk
  PROVE  SafeArgPrefix(json, sk) =
           IF ColonOf(json) = 0 THEN <<>>
           ELSE IF json[ColonOf(json) + 1] = "quote" /\ json[ColonOf(json)] \in sk
                THEN SubSeq(json, 1, CloseOf(json, ColonOf(json) + 2) - 1)
                ELSE SubSeq(json, 1, ColonOf(json))
  BY Zenon DEF SafeArgPrefix, ColonOf, CloseOf

\* The last key is found where it is.
LEMMA ColonFound ==
  ASSUME NEW h \in Jsons, NEW c \in Jsons, h # <<>>, h[Len(h)] \in Keys,
         \A i \in 1 .. Len(c) : c[i] \notin Keys
  PROVE  ColonOf(Cat(h, c)) = Len(h)
<1> DEFINE j == h \o c
           n == Len(h)
           I == {i \in 1 .. Len(j) : j[i] \in Keys}
<1>1. /\ n \in Nat \ {0} /\ Len(c) \in Nat /\ Len(j) = n + Len(c)
      /\ \A i \in 1 .. n : j[i] = h[i]
      /\ \A i \in 1 .. Len(c) : j[n + i] = c[i]
  <2>1. n # 0
    BY EmptySeq DEF Jsons
  <2>2. QED BY <2>1, JoinedAt DEF Jsons
<1>2. ColonOf(Cat(h, c)) = IF I # {} THEN Max(I) ELSE 0
  BY DEF ColonOf, Cat, SelectLastInSeq
<1> HIDE DEF j, n
<1>3. n \in I
  BY <1>1 DEF n
<1>4. \A i \in I : i <= n
  <2>1. ASSUME NEW i \in I, ~(i <= n) PROVE FALSE
    <3>1. i - n \in 1 .. Len(c) /\ n + (i - n) = i
      BY <1>1, <2>1
    <3>2. j[i] = c[i - n]
      BY <1>1, <3>1
    <3>3. QED BY <3>1, <3>2
  <2>2. QED BY <2>1
<1>5. I \in SUBSET (1 .. Len(j)) /\ Len(j) \in Nat /\ I # {}
  <2>1. I \in SUBSET (1 .. Len(j))
    BY Zenon
  <2>2. QED BY <2>1, <1>1, <1>3
<1> HIDE DEF I
<1>6. Max(I) \in I /\ \A i \in I : i <= Max(I)
  BY <1>5, Ends
<1>7. Max(I) = n
  <2>1. Max(I) <= n /\ n <= Max(I)
    BY <1>3, <1>4, <1>6
  <2>2. Max(I) \in Nat /\ n \in Nat
    <3>1. \A i \in I : i \in Nat
      BY <1>5
    <3>2. QED BY <1>1, <1>6, <3>1
  <2> DEFINE m == Max(I)
  <2> HIDE DEF m
  <2>3. m <= n /\ n <= m /\ m \in Nat /\ n \in Nat
    BY <2>1, <2>2 DEF m
  <2>4. m = n
    BY <2>3
  <2>5. QED BY <2>4 DEF m
<1>8. QED BY <1>2, <1>5, <1>7 DEF n

\* What is up to the end of the front is the front.
LEMMA FrontCut ==
  ASSUME NEW h \in Jsons, NEW c \in Jsons
  PROVE  SubSeq(Cat(h, c), 1, Len(h)) = h
<1>1. Len(h) \in Nat /\ Len(h) \in 0 .. Len(h) + Len(c) /\ Len(h) <= Len(h)
  BY LenProperties DEF Jsons
<1>2. SubSeq(h \o c, 1, Len(h)) = SubSeq(h, 1, Len(h))
  BY <1>1, PrefixOfConcat DEF Jsons
<1>3. SubSeq(h, 1, Len(h)) = h
  BY SubSeqFull DEF Jsons
<1>4. QED BY <1>2, <1>3 DEF Cat

\* Without a string that may stream, the safe prefix ends at the last key.
LEMMA SafeAtColon ==
  ASSUME NEW h \in Jsons, NEW c \in Jsons, h # <<>>, h[Len(h)] \in Keys,
         \A i \in 1 .. Len(c) : c[i] \notin Keys,
         NEW sk, h[Len(h)] \notin sk
  PROVE  SafeArgPrefix(Cat(h, c), sk) = h
<1> DEFINE j == Cat(h, c)
           n == Len(h)
<1>1. ColonOf(j) = n
  BY ColonFound
<1>2. n \in Nat \ {0} /\ j[n] = h[n]
  <2>1. n # 0
    BY EmptySeq DEF Jsons
  <2>2. n \in Nat /\ \A i \in 1 .. n : (h \o c)[i] = h[i]
    BY JoinedAt DEF Jsons
  <2>3. QED BY <2>1, <2>2 DEF Cat
<1>3. SubSeq(j, 1, n) = h
  BY FrontCut
<1> HIDE DEF j
<1>4. SafeArgPrefix(j, sk) = SubSeq(j, 1, n)
  BY <1>1, <1>2, SafeIs
<1>5. QED BY <1>3, <1>4 DEF j

\* Within a string that may stream, the safe prefix ends where the string does.
LEMMA SafeInString ==
  ASSUME NEW h \in Jsons, h # <<>>, h[Len(h)] \in Keys,
         NEW w \in Seq(Marks), NEW c \in Jsons, NEW z \in Jsons,
         c = Cat(Cat(<<"quote">>, w), Cat(<<"quote">>, z)),
         \A i \in 1 .. Len(c) : c[i] \notin Keys,
         NEW sk, h[Len(h)] \in sk
  PROVE  SafeArgPrefix(Cat(h, c), sk) = Cat(h, Cat(<<"quote">>, w))
<1> DEFINE q == <<"quote">>
           u == Cat(q, w)
           v == Cat(q, z)
           j == Cat(h, c)
           n == Len(h)
           m == Len(w)
           I == {i \in n + 2 .. Len(j) : j[i] = "quote"}
<1>1. q \in Jsons /\ w \in Jsons /\ u \in Jsons /\ v \in Jsons
  BY CatFacts, MarksFacts
<1>2. j = Cat(Cat(h, u), v)
  BY <1>1, CatFacts
<1>3. ColonOf(j) = n
  BY ColonFound
<1>4. /\ n \in Nat \ {0} /\ m \in Nat /\ Len(u) = m + 1 /\ Len(v) \in Nat \ {0}
      /\ u[1] = "quote" /\ v[1] = "quote" /\ \A i \in 1 .. m : u[i + 1] = w[i]
  <2>1. n # 0
    BY EmptySeq DEF Jsons
  <2>2. Len(q) = 1 /\ q[1] = "quote"
    OBVIOUS
  <2>3. /\ Len(q \o w) = Len(q) + m /\ m \in Nat /\ n \in Nat
        /\ \A i \in 1 .. Len(q) : (q \o w)[i] = q[i]
        /\ \A i \in 1 .. m : (q \o w)[Len(q) + i] = w[i]
    BY <1>1, JoinedAt DEF Jsons
  <2>4. /\ Len(q \o z) = Len(q) + Len(z) /\ Len(z) \in Nat
        /\ \A i \in 1 .. Len(q) : (q \o z)[i] = q[i]
    BY <1>1, JoinedAt DEF Jsons
  <2> HIDE DEF q, n, m
  <2>5. u = q \o w /\ v = q \o z
    BY DEF Cat
  <2> HIDE DEF u, v
  <2>6. 1 \in 1 .. Len(q) /\ \A i \in 1 .. m : Len(q) + i = i + 1
    BY <2>2, <2>3
  <2>7. Len(u) = m + 1 /\ u[1] = "quote" /\ \A i \in 1 .. m : u[i + 1] = w[i]
    BY <2>2, <2>3, <2>5, <2>6
  <2>8. Len(v) \in Nat \ {0} /\ v[1] = "quote"
    BY <2>2, <2>4, <2>5, <2>6
  <2>9. QED BY <2>1, <2>3, <2>7, <2>8 DEF n
<1> HIDE DEF q, u, v
<1>5. /\ Len(Cat(h, u)) = n + m + 1
      /\ \A i \in 1 .. n : Cat(h, u)[i] = h[i]
      /\ \A i \in 1 .. m + 1 : Cat(h, u)[n + i] = u[i]
  <2>1. /\ Len(h \o u) = n + Len(u)
        /\ \A i \in 1 .. n : (h \o u)[i] = h[i]
        /\ \A i \in 1 .. Len(u) : (h \o u)[n + i] = u[i]
    BY <1>1, JoinedAt DEF Jsons
  <2>2. QED BY <2>1, <1>4 DEF Cat
<1>6. Cat(h, u) \in Jsons
  BY <1>1, CatFacts
<1>7. /\ Len(j) = n + m + 1 + Len(v)
      /\ \A i \in 1 .. n + m + 1 : j[i] = Cat(h, u)[i]
      /\ \A i \in 1 .. Len(v) : j[n + m + 1 + i] = v[i]
  <2> DEFINE k == Cat(h, u)
  <2>1. /\ Len(k \o v) = Len(k) + Len(v)
        /\ \A i \in 1 .. Len(k) : (k \o v)[i] = k[i]
        /\ \A i \in 1 .. Len(v) : (k \o v)[Len(k) + i] = v[i]
    BY <1>1, <1>6, JoinedAt DEF Jsons
  <2>2. j = k \o v
    BY <1>2 DEF Cat
  <2> HIDE DEF k, j
  <2>3. Len(k) = n + m + 1
    BY <1>5 DEF k
  <2>4. QED BY <2>1, <2>2, <2>3 DEF k
<1> HIDE DEF j, n, m
<1>8. j[n] = h[n] /\ j[n + 1] = "quote" /\ j[n + m + 2] = "quote"
  <2>1. n \in 1 .. n /\ n \in 1 .. n + m + 1 /\ 1 \in 1 .. m + 1 /\ n + 1 \in 1 .. n + m + 1
    BY <1>4
  <2>2. j[n] = h[n] /\ j[n + 1] = u[1]
    BY <2>1, <1>5, <1>7
  <2>3. 1 \in 1 .. Len(v) /\ n + m + 1 + 1 = n + m + 2
    BY <1>4
  <2>4. j[n + m + 2] = v[1]
    BY <2>3, <1>7
  <2>5. QED BY <2>2, <2>4, <1>4
<1>9. ASSUME NEW i \in n + 2 .. n + m + 1 PROVE j[i] # "quote"
  <2> DEFINE k == i - n - 1
  <2>1. k \in 1 .. m /\ k + 1 \in 1 .. m + 1 /\ n + (k + 1) = i /\ i \in 1 .. n + m + 1
    BY <1>4
  <2> HIDE DEF k
  <2>2. j[i] = u[k + 1]
    BY <2>1, <1>5, <1>7
  <2>3. u[k + 1] = w[k]
    BY <2>1, <1>4
  <2>4. w[k] \in Marks
    BY <2>1, ElementOfSeq DEF m
  <2>5. QED BY <2>2, <2>3, <2>4, MarksFacts
<1>10. I \in SUBSET (1 .. Len(j)) /\ Len(j) \in Nat /\ n + m + 2 \in I
  BY <1>4, <1>7, <1>8
<1>11. \A i \in I : n + m + 2 <= i
  <2>1. ASSUME NEW i \in I, ~(n + m + 2 <= i) PROVE FALSE
    <3>1. i \in n + 2 .. n + m + 1
      BY <2>1, <1>4, <1>7
    <3>2. QED BY <3>1, <2>1, <1>9
  <2>2. QED BY <2>1
<1>12. CloseOf(j, n + 2) = IF I # {} THEN Min(I) ELSE 0
  BY DEF CloseOf, SelectInSubSeq
<1> HIDE DEF I
<1>13. Min(I) \in I /\ \A i \in I : Min(I) <= i
  BY <1>10, Ends
<1>14. CloseOf(j, n + 2) = n + m + 2
  <2> DEFINE x == Min(I)
             y == n + m + 2
  <2>1. y \in Nat /\ x \in Nat
    <3>1. \A i \in I : i \in Nat
      BY <1>10
    <3>2. x \in Nat
      BY <1>13, <3>1
    <3>3. QED BY <1>4, <3>2
  <2>2. x <= y /\ y <= x
    BY <1>10, <1>11, <1>13
  <2>3. CloseOf(j, n + 2) = x
    BY <1>10, <1>12
  <2> HIDE DEF x, y
  <2>4. x = y
    BY <2>1, <2>2
  <2>5. QED BY <2>3, <2>4 DEF y
<1>15. SafeArgPrefix(j, sk) = SubSeq(j, 1, n + m + 1)
  <2>1. (n + m + 2) - 1 = n + m + 1 /\ n # 0
    BY <1>4
  <2>2. h[n] \in sk
    BY DEF n
  <2>3. QED BY <1>3, <1>8, <1>14, <2>1, <2>2, SafeIs
<1>16. SubSeq(j, 1, n + m + 1) = Cat(h, u)
  BY <1>1, <1>2, <1>5, <1>6, FrontCut
<1>17. QED BY <1>15, <1>16 DEF j, u, q

\* t goes on where s ends.
Begins(s, t) == s \in Jsons /\ \E x \in Jsons : t = Cat(s, x)

\* Going on, twice.
LEMMA BeginsFacts ==
  /\ \A s \in Jsons : Begins(s, s) /\ Begins(<<>>, s)
  /\ \A s, x \in Jsons : Begins(s, Cat(s, x))
  /\ \A s, t, u : Begins(s, t) /\ Begins(t, u) => Begins(s, u)
  /\ \A s, t : Begins(s, t) => s \in Jsons /\ t \in Jsons
<1>1. \A s, x \in Jsons : Begins(s, Cat(s, x))
  BY DEF Begins
<1>2. \A s \in Jsons : Begins(s, s) /\ Begins(<<>>, s)
  <2>1. ASSUME NEW s \in Jsons PROVE s = Cat(s, <<>>) /\ s = Cat(<<>>, s) /\ <<>> \in Jsons
    BY CatFacts
  <2>2. QED BY <2>1 DEF Begins
<1>3. ASSUME NEW s, NEW t, NEW u, Begins(s, t), Begins(t, u) PROVE Begins(s, u)
  <2>1. PICK x \in Jsons : t = Cat(s, x)
    BY <1>3 DEF Begins
  <2>2. PICK y \in Jsons : u = Cat(t, y)
    BY <1>3 DEF Begins
  <2>3. s \in Jsons /\ Cat(x, y) \in Jsons
    BY <1>3, CatFacts DEF Begins
  <2>4. u = Cat(s, Cat(x, y))
    BY <2>1, <2>2, <2>3, CatFacts
  <2>5. QED BY <2>3, <2>4 DEF Begins
<1>4. \A s, t : Begins(s, t) => s \in Jsons /\ t \in Jsons
  BY CatFacts DEF Begins
<1>5. QED BY <1>1, <1>2, <1>3, <1>4

\* What _extension adds is what is left.
LEMMA ExtensionFacts ==
  ASSUME NEW s, NEW t, Begins(s, t)
  PROVE  Extension(s, t) \in Jsons /\ Cat(s, Extension(s, t)) = t
<1>1. PICK x \in Jsons : t = Cat(s, x)
  BY DEF Begins
<1>2. s \in Jsons /\ t \in Jsons
  BY BeginsFacts
<1>3. Len(s) <= Len(t) /\ Len(s) \in 0 .. Len(t) /\ SubSeq(t, 1, Len(s)) = s
  <2>1. Len(s \o x) = Len(s) + Len(x) /\ Len(s) \in Nat /\ Len(x) \in Nat
    BY <1>2, JoinedAt DEF Jsons
  <2>2. t = s \o x
    BY <1>1 DEF Cat
  <2>3. SubSeq(t, 1, Len(s)) = s
    BY <1>1, <1>2, FrontCut
  <2>4. QED BY <2>1, <2>2, <2>3
<1>4. SubSeq(s, 1, Len(s)) = s
  BY <1>2, SubSeqFull DEF Jsons
<1>5. IsPrefix(s, t)
  BY <1>3, <1>4, Zenon DEF IsPrefix
<1>6. Extension(s, t) = SubSeq(t, Len(s) + 1, Len(t))
  <2>1. Len(s) + 1 # 0
    BY <1>3
  <2>2. QED BY <1>5, <2>1 DEF Extension, From
<1> DEFINE k == Len(s)
           a == SubSeq(t, 1, k)
           b == SubSeq(t, k + 1, Len(t))
<1>7. b \in Seq(Written) /\ t = a \o b
  BY <1>2, <1>3, CutInTwo DEF Jsons
<1>8. b \in Jsons /\ t = Cat(a, b) /\ a = s
  BY <1>3, <1>7 DEF Jsons, Cat
<1> HIDE DEF a, b
<1>9. QED BY <1>6, <1>8 DEF b

\* The JSON ends in no key.
LEMMA BraceEnds == Len(CloseBrace) = 1 /\ CloseBrace[1] \notin Keys
<1>1. \A x : Len(<<x>>) = 1 /\ <<x>>[1] = x
  OBVIOUS
<1>2. QED BY <1>1, MarksFacts, Zenon DEF CloseBrace

\* The safe prefix of the arguments so far.
Safe(raw, name) == SafeArgPrefix(Json(raw, name), StringKeys(name))

\* What is safe of the last value.
Shown(p, name) == IF p.key \in StringKeys(name) THEN Cat(<<"quote">>, p.value) ELSE <<>>

\* The safe prefix ends in the last parameter.
LEMMA SafeForm ==
  ASSUME NEW raw, NEW ps, NEW p, Ending(Parameters(raw), ps, p), NEW name
  PROVE  /\ Safe(raw, name) = Cat(Opening(ps, p, name), Shown(p, name))
         /\ Shown(p, name) \in Jsons /\ Opening(ps, p, name) \in Jsons
<1> DEFINE h == Opening(ps, p, name)
           v == CoerceValue(p, Properties(name))
           c == Cat(v, CloseBrace)
           a == Cat(OpenBrace, Members(ps, name))
           b == Comma(Len(ps) + 1)
           k == <<p.key>>
           sk == StringKeys(name)
           q == <<"quote">>
           w == p.value
<1>1. ps \in Seq(Param) /\ p \in Param
  BY DEF Ending
<1>2. /\ v \in Jsons /\ v # <<>> /\ \A i \in 1 .. Len(v) : v[i] \notin Keys
      /\ p.key \in sk => v = Quoted(w)
      /\ w \in Seq(Marks) /\ p.key \in Keys
  BY <1>1, CoerceFacts
<1>3. q \in Jsons /\ w \in Jsons /\ CloseBrace \in Jsons
  BY <1>2, CatFacts, MarksFacts, BraceFacts
<1>4. Json(raw, name) = Cat(h, c) /\ h \in Jsons /\ c \in Jsons
  BY JsonEnds
<1>5. h # <<>> /\ h[Len(h)] = p.key
  <2>1. a \in Jsons /\ b \in Jsons /\ k \in Jsons
    BY <1>1, BraceFacts, MembersAppend, MemberFacts, CatFacts
  <2>2. h = Cat(Cat(a, b), k) /\ Cat(a, b) \in Jsons
    BY <2>1, CatFacts DEF Opening
  <2> DEFINE u == Cat(a, b)
  <2> HIDE DEF h, u
  <2>3. /\ Len(u \o k) = Len(u) + Len(k) /\ Len(u) \in Nat
        /\ \A i \in 1 .. Len(k) : (u \o k)[Len(u) + i] = k[i]
    BY <2>1, <2>2, JoinedAt DEF Jsons, u
  <2>4. Len(k) = 1 /\ k[1] = p.key
    OBVIOUS
  <2>5. h = u \o k
    BY <2>2 DEF Cat, u
  <2> HIDE DEF k
  <2>6. Len(h) = Len(u) + 1 /\ h[Len(u) + 1] = p.key /\ Len(u) \in Nat
    BY <2>3, <2>4, <2>5
  <2>7. h # <<>>
    BY <2>6, EmptySeq
  <2>8. QED BY <2>6, <2>7
<1>6. \A i \in 1 .. Len(c) : c[i] \notin Keys
  <2>1. /\ Len(v \o CloseBrace) = Len(v) + Len(CloseBrace) /\ Len(v) \in Nat
        /\ \A i \in 1 .. Len(v) : (v \o CloseBrace)[i] = v[i]
        /\ \A i \in 1 .. Len(CloseBrace) : (v \o CloseBrace)[Len(v) + i] = CloseBrace[i]
    BY <1>2, <1>3, JoinedAt DEF Jsons
  <2>2. Len(CloseBrace) = 1 /\ CloseBrace[1] \notin Keys
    BY BraceEnds
  <2> HIDE DEF v
  <2>3. ASSUME NEW i \in 1 .. Len(v) + 1 PROVE (v \o CloseBrace)[i] \notin Keys
    <3>1. CASE i \in 1 .. Len(v)
      BY <3>1, <1>2, <2>1
    <3>2. CASE i \notin 1 .. Len(v)
      <4>1. i = Len(v) + 1
        BY <3>2, <2>1
      <4>2. QED BY <4>1, <2>1, <2>2
    <3>3. QED BY <3>1, <3>2
  <2>4. Len(v \o CloseBrace) = Len(v) + 1
    BY <2>1, <2>2
  <2>5. QED BY <2>3, <2>4 DEF Cat
<1>7. Shown(p, name) \in Jsons
  BY <1>3, CatFacts DEF Shown
<1>8. CASE p.key \notin sk
  <2>1. SafeArgPrefix(Cat(h, c), sk) = h
    <3> HIDE DEF h, c, sk
    <3>1. QED BY <1>4, <1>5, <1>6, <1>2, <1>8, SafeAtColon
  <2>2. Shown(p, name) = <<>> /\ Cat(h, <<>>) = h
    BY <1>4, <1>8, CatFacts DEF Shown
  <2>3. QED BY <1>4, <1>7, <2>1, <2>2 DEF Safe
<1>9. CASE p.key \in sk
  <2>1. c = Cat(Cat(q, w), Cat(q, CloseBrace))
    <3>1. c = Cat(Cat(Cat(q, w), q), CloseBrace) /\ Cat(q, w) \in Jsons
      BY <1>2, <1>3, <1>9, CatFacts DEF Quoted
    <3>2. QED BY <1>3, <3>1, CatFacts
  <2>2. SafeArgPrefix(Cat(h, c), sk) = Cat(h, Cat(q, w))
    <3> HIDE DEF h, c, sk, w
    <3>1. QED BY <1>2, <1>3, <1>4, <1>5, <1>6, <1>9, <2>1, SafeInString
  <2>3. Shown(p, name) = Cat(q, w)
    BY <1>9 DEF Shown
  <2>4. QED BY <1>4, <1>7, <2>2, <2>3 DEF Safe
<1>10. QED BY <1>8, <1>9

\* The last value goes on where its safe part ends.
LEMMA ShownBegins ==
  ASSUME NEW p \in Param, NEW name
  PROVE  Begins(Shown(p, name), CoerceValue(p, Properties(name)))
<1> DEFINE v == CoerceValue(p, Properties(name))
           w == p.value
           q == <<"quote">>
<1>1. v \in Jsons /\ (p.key \in StringKeys(name) => v = Quoted(w)) /\ w \in Seq(Marks)
  BY CoerceFacts
<1>2. q \in Jsons /\ w \in Jsons
  BY <1>1, CatFacts, MarksFacts
<1>3. CASE p.key \in StringKeys(name)
  <2>1. v = Cat(Cat(q, w), q)
    BY <1>1, <1>3 DEF Quoted
  <2>2. Shown(p, name) = Cat(q, w) /\ Cat(q, w) \in Jsons
    BY <1>2, <1>3, CatFacts DEF Shown
  <2>3. Begins(Cat(q, w), Cat(Cat(q, w), q))
    BY <1>2, <2>2, BeginsFacts
  <2>4. QED BY <2>1, <2>2, <2>3
<1>4. CASE p.key \notin StringKeys(name)
  <2>1. Shown(p, name) = <<>>
    BY <1>4 DEF Shown
  <2>2. Begins(<<>>, v)
    BY <1>1, BeginsFacts
  <2>3. QED BY <2>1, <2>2
<1>5. QED BY <1>3, <1>4

\* What goes on does so behind a common beginning.
LEMMA BeginsBehind ==
  ASSUME NEW h \in Jsons, NEW s, NEW t, Begins(s, t)
  PROVE  Begins(Cat(h, s), Cat(h, t))
<1>1. PICK x \in Jsons : t = Cat(s, x)
  BY DEF Begins
<1>2. s \in Jsons
  BY DEF Begins
<1>3. Cat(Cat(h, s), x) = Cat(h, Cat(s, x)) /\ Cat(h, s) \in Jsons
  BY <1>1, <1>2, CatFacts
<1>4. Begins(Cat(h, s), Cat(Cat(h, s), x))
  BY <1>1, <1>3, BeginsFacts
<1>5. QED BY <1>1, <1>3, <1>4

\* The JSON of raw arguments goes on where their safe prefix ends.
LEMMA SafeBegins ==
  ASSUME NEW raw, Raw(raw), NEW name
  PROVE  /\ Json(raw, name) \in Jsons
         /\ raw # <<>> => Begins(Safe(raw, name), Json(raw, name))
<1>1. CASE raw = <<>>
  <2>1. Json(raw, name) = Cat(Cat(OpenBrace, Members(<<>>, name)), CloseBrace)
    BY <1>1, ParametersEnd, JsonIs
  <2>2. Members(<<>>, name) \in Jsons
    <3>1. <<>> \in Seq(Param)
      OBVIOUS
    <3>2. CASE Param # {}
      BY <3>1, <3>2, MembersAppend
    <3>3. CASE Param = {}
      <4>1. Members(<<>>, name) = FlattenSeq(<<>>)
        <5>1. [i \in DOMAIN <<>> |-> Member(<<>>[i], i, name)] = <<>>
          OBVIOUS
        <5>2. QED BY <5>1 DEF Members
      <4>2. FlattenSeq(<<>>) \in Seq(Characters)
        <5>1. <<>> \in Seq(Seq(Characters)) /\ <<>> \in Seq(Characters)
          OBVIOUS
        <5>2. QED BY <5>1, FlattenAppend
      <4>3. FlattenSeq(<<>>) \in Jsons
        <5>1. <<>> \in Seq(Jsons) /\ <<>> \in Jsons
          BY CatFacts
        <5>2. QED BY <5>1, FlattenAppend DEF Jsons
      <4>4. QED BY <4>1, <4>3
    <3>4. QED BY <3>2, <3>3
  <2>3. QED BY <1>1, <2>1, <2>2, BraceFacts, CatFacts
<1>2. CASE raw # <<>>
  <2>1. PICK ps, p : Ending(Parameters(raw), ps, p)
    BY <1>2, ParametersEnd DEF HasEnding
  <2> DEFINE h == Opening(ps, p, name)
             v == CoerceValue(p, Properties(name))
  <2>2. p \in Param
    BY <2>1 DEF Ending
  <2>3. /\ Json(raw, name) = Cat(h, Cat(v, CloseBrace))
        /\ h \in Jsons /\ Cat(v, CloseBrace) \in Jsons
    BY <2>1, JsonEnds
  <2>4. Safe(raw, name) = Cat(h, Shown(p, name))
    BY <2>1, SafeForm
  <2>5. Begins(Shown(p, name), v) /\ v \in Jsons
    BY <2>2, ShownBegins, CoerceFacts
  <2> HIDE DEF h, v
  <2>6. Begins(v, Cat(v, CloseBrace))
    BY <2>5, BraceFacts, BeginsFacts
  <2>7. Begins(Shown(p, name), Cat(v, CloseBrace))
    BY <2>5, <2>6, BeginsFacts
  <2>8. Begins(Cat(h, Shown(p, name)), Cat(h, Cat(v, CloseBrace)))
    BY <2>3, <2>7, BeginsBehind
  <2>9. Json(raw, name) \in Jsons
    BY <2>3, CatFacts
  <2>10. QED BY <1>2, <2>3, <2>4, <2>8, <2>9
<1>3. QED BY <1>1, <1>2

\* One more symbol does not change what was safe.
LEMMA SafeNext ==
  ASSUME NEW raw, Raw(raw), raw # <<>>, NEW a \in Keys \union Letters, NEW name
  PROVE  Begins(Safe(raw, name), Safe(Append(raw, a), name))
<1>1. PICK ps, p : Ending(Parameters(raw), ps, p)
  BY ParametersEnd DEF HasEnding
<1> DEFINE params == Parameters(raw)
           next == Parameters(Append(raw, a))
           h == Opening(ps, p, name)
           v == CoerceValue(p, Properties(name))
<1>2. p \in Param /\ ps \in Seq(Param) /\ params \in Seq(Param)
  <2>1. p \in Param /\ ps \in Seq(Param) /\ params = Append(ps, p)
    BY <1>1 DEF Ending
  <2>2. Append(ps, p) \in Seq(Param)
    BY <2>1
  <2>3. QED BY <2>1, <2>2
<1>3. next = AddSymbol(params, a)
  BY ParametersGrow
<1>4. Safe(raw, name) = Cat(h, Shown(p, name)) /\ h \in Jsons /\ Shown(p, name) \in Jsons
  BY <1>1, SafeForm
<1>5. CASE a \in Keys
  <2> DEFINE p2 == [key |-> a, value |-> <<>>]
             h2 == Opening(params, p2, name)
             k == Cat(Comma(Len(params) + 1), <<a>>)
  <2>1. Ending(next, params, p2)
    BY <1>1, <1>3, <1>5, SymbolAdded
  <2>2. Safe(Append(raw, a), name) = Cat(h2, Shown(p2, name)) /\ h2 \in Jsons /\ Shown(p2, name) \in Jsons
    BY <2>1, SafeForm
  <2>3. Cat(OpenBrace, Members(params, name)) = Cat(h, v)
    BY <1>1, MembersEnd
  <2>4. h2 = Cat(Cat(h, v), k)
    BY <2>3 DEF Opening
  <2>5. Begins(Shown(p, name), v) /\ v \in Jsons
    BY <1>2, ShownBegins, CoerceFacts
  <2>6. k \in Jsons
    <3>1. p2 \in Param
      BY <2>1 DEF Ending
    <3>2. Comma(Len(params) + 1) \in Jsons /\ <<p2.key>> \in Jsons
      BY <3>1, MemberFacts
    <3>3. p2.key = a
      OBVIOUS
    <3>4. QED BY <3>2, <3>3, CatFacts
  <2> HIDE DEF h, v, h2, k, p2
  <2>7. Begins(Cat(h, Shown(p, name)), Cat(h, v))
    BY <1>4, <2>5, BeginsBehind
  <2>8. Begins(Cat(h, v), h2)
    <3>1. Cat(h, v) \in Jsons
      BY <1>4, <2>5, CatFacts
    <3>2. QED BY <2>4, <2>6, <3>1, BeginsFacts
  <2>9. Begins(h2, Cat(h2, Shown(p2, name)))
    BY <2>2, BeginsFacts
  <2>10. Begins(Cat(h, Shown(p, name)), Cat(h2, Shown(p2, name)))
    BY <2>7, <2>8, <2>9, BeginsFacts
  <2>11. QED BY <1>4, <2>2, <2>10
<1>6. CASE a \notin Keys
  <2> DEFINE p2 == [key |-> p.key, value |-> Append(p.value, a)]
             w == p.value
             q == <<"quote">>
  <2>1. Ending(next, ps, p2)
    BY <1>1, <1>3, <1>6, SymbolAdded
  <2>2. Opening(ps, p2, name) = h
    BY DEF Opening
  <2>3. Safe(Append(raw, a), name) = Cat(h, Shown(p2, name))
    BY <2>1, <2>2, SafeForm
  <2>4. Begins(Shown(p, name), Shown(p2, name))
    <3>1. CASE p.key \in StringKeys(name)
      <4>1. Shown(p, name) = Cat(q, w) /\ Shown(p2, name) = Cat(q, Append(w, a))
        BY <3>1 DEF Shown
      <4>2. w \in Seq(Marks) /\ a \in Marks
        BY <1>2, <1>6 DEF Param, Marks
      <4>3. Append(w, a) = Cat(w, <<a>>)
        <5>1. Append(w, a) = w \o <<a>>
          BY <4>2
        <5>2. QED BY <5>1 DEF Cat
      <4>4. w \in Jsons /\ q \in Jsons /\ <<a>> \in Jsons
        BY <4>2, MarksFacts, CatFacts DEF Written
      <4> HIDE DEF q, w
      <4>5. Cat(Cat(q, w), <<a>>) = Cat(q, Cat(w, <<a>>)) /\ Cat(q, w) \in Jsons
        BY <4>4, CatFacts
      <4>6. Begins(Cat(q, w), Cat(Cat(q, w), <<a>>))
        BY <4>4, <4>5, BeginsFacts
      <4>7. QED BY <4>1, <4>3, <4>5, <4>6
    <3>2. CASE p.key \notin StringKeys(name)
      <4>1. Shown(p, name) = <<>> /\ Shown(p2, name) = <<>>
        BY <3>2 DEF Shown
      <4>2. Begins(<<>>, <<>>)
        BY CatFacts, BeginsFacts
      <4>3. QED BY <4>1, <4>2
    <3>3. QED BY <3>1, <3>2
  <2>5. Begins(Cat(h, Shown(p, name)), Cat(h, Shown(p2, name)))
    <3> HIDE DEF h, p2
    <3>1. QED BY <1>4, <2>4, BeginsBehind
  <2>6. QED BY <1>4, <2>3, <2>5
<1>7. QED BY <1>5, <1>6

\* What holds of u and is kept by every element of v holds of u \o v.
LEMMA ByPrefixes ==
  ASSUME NEW A, NEW u \in Seq(A), NEW v \in Seq(A), NEW S, u \in S,
         \A x \in Seq(A), i \in 1 .. Len(v) :
           x = u \o SubSeq(v, 1, i - 1) /\ x \in S => Append(x, v[i]) \in S
  PROVE  u \o v \in S
<1> DEFINE n == Len(v)
           p(k) == u \o SubSeq(v, 1, k)
           Good == {k \in Nat : k <= n => p(k) \in S}
<1>1. n \in Nat
  BY LenProperties
<1>2. 0 \in Good
  <2>1. p(0) = u
    <3>1. SubSeq(v, 1, 0) = <<>>
      BY SubSeqEmpty
    <3>2. QED BY <3>1, ConcatEmptySeq
  <2>2. QED BY <2>1
<1>3. ASSUME NEW k \in Nat, k \in Good PROVE k + 1 \in Good
  <2>1. SUFFICES ASSUME k + 1 <= n PROVE p(k + 1) \in S
    OBVIOUS
  <2> DEFINE j == k + 1
  <2>2. j \in 1 .. Len(v) /\ k = j - 1
    BY <2>1, <1>1
  <2>3. p(j) = Append(p(j - 1), v[j]) /\ p(j - 1) \in Seq(A)
    <3> HIDE DEF j
    <3>1. QED BY <2>2, PrefixGrows
  <2>4. p(j - 1) \in S
    <3>1. k <= n
      BY <2>1, <1>1
    <3> HIDE DEF p
    <3>2. QED BY <1>3, <2>2, <3>1
  <2> DEFINE x == p(j - 1)
  <2>5. Append(x, v[j]) \in S
    <3>1. x = u \o SubSeq(v, 1, j - 1)
      OBVIOUS
    <3> HIDE DEF j, x
    <3>2. QED BY <2>2, <2>3, <2>4, <3>1 DEF x
  <2>6. p(j) \in S
    <3> HIDE DEF p, j
    <3>1. QED BY <2>3, <2>5
  <2>7. QED BY <2>6 DEF j
<1>4. n \in Good
  <2> HIDE DEF Good
  <2>1. QED BY <1>1, <1>2, <1>3, NatInductionSet
<1>5. p(n) = u \o v
  BY SubSeqFull
<1>6. p(n) \in S
  <2> HIDE DEF p
  <2>1. QED BY <1>1, <1>4
<1>7. QED
  <2> HIDE DEF p, n
  <2>1. QED BY <1>5, <1>6

\* A chunk goes on with raw arguments, and with what is safe of them.
LEMMA SafeGrows ==
  ASSUME NEW raw, Raw(raw), NEW v \in Seq(Keys \union Letters), v # <<>>,
         raw = <<>> => v[1] \in Keys, NEW name
  PROVE  /\ Raw(raw \o v) /\ raw \o v # <<>>
         /\ raw # <<>> => Begins(Safe(raw, name), Safe(raw \o v, name))
<1> DEFINE A == Keys \union Letters
           S == {x \in Seq(A) : Raw(x) /\ Begins(Safe(raw, name), Safe(x, name))}
<1>1. raw \in Seq(A) /\ v \in Seq(A)
  BY DEF Raw
<1>2. Raw(raw \o v) /\ raw \o v # <<>>
  <2>1. /\ raw \o v \in Seq(A) /\ Len(raw \o v) = Len(raw) + Len(v)
        /\ Len(raw) \in Nat /\ Len(v) \in Nat
        /\ \A i \in 1 .. Len(raw) : (raw \o v)[i] = raw[i]
        /\ \A i \in 1 .. Len(v) : (raw \o v)[Len(raw) + i] = v[i]
    BY <1>1, JoinedAt
  <2>2. Len(v) # 0 /\ 1 \in 1 .. Len(v)
    BY <1>1, <2>1, EmptySeq
  <2>3. raw \o v # <<>>
    BY <2>1, <2>2, EmptySeq
  <2>4. (raw \o v)[1] \in Keys
    <3>1. CASE raw = <<>>
      <4>1. Len(raw) = 0
        BY <3>1
      <4>2. (raw \o v)[0 + 1] = v[1]
        BY <2>1, <2>2, <4>1
      <4>3. QED BY <4>2, <3>1
    <3>2. CASE raw # <<>>
      <4>1. Len(raw) # 0
        BY <1>1, <3>2, EmptySeq
      <4>2. 1 \in 1 .. Len(raw)
        BY <2>1, <4>1
      <4>3. QED BY <2>1, <3>2, <4>2 DEF Raw
    <3>3. QED BY <3>1, <3>2
  <2>5. QED BY <2>1, <2>3, <2>4 DEF Raw
<1>3. ASSUME raw # <<>> PROVE Begins(Safe(raw, name), Safe(raw \o v, name))
  <2>1. raw \in S
    <3>1. Begins(Safe(raw, name), Json(raw, name))
      BY <1>3, SafeBegins
    <3>2. Begins(Safe(raw, name), Safe(raw, name))
      BY <3>1, BeginsFacts
    <3>3. QED BY <1>1, <3>2
  <2>2. ASSUME NEW x \in Seq(A), NEW i \in 1 .. Len(v), x = raw \o SubSeq(v, 1, i - 1), x \in S
        PROVE  Append(x, v[i]) \in S
    <3> DEFINE a == v[i]
    <3>1. a \in A
      BY <1>1, ElementOfSeq
    <3>2. x # <<>>
      <4>1. Len(x) = Len(raw) + (i - 1) /\ Len(raw) \in Nat /\ Len(v) \in Nat
        BY <1>1, <2>2, PrefixGrows, LenProperties
      <4>2. Len(raw) # 0
        BY <1>1, <1>3, EmptySeq
      <4>3. Len(x) # 0
        BY <4>1, <4>2
      <4>4. QED BY <4>3, <2>2, EmptySeq
    <3>3. Raw(x) /\ Begins(Safe(raw, name), Safe(x, name))
      BY <2>2
    <3> HIDE DEF a
    <3>4. Begins(Safe(x, name), Safe(Append(x, a), name))
      BY <3>1, <3>2, <3>3, SafeNext
    <3>5. Begins(Safe(raw, name), Safe(Append(x, a), name))
      BY <3>3, <3>4, BeginsFacts
    <3>6. Append(x, a) \in Seq(A)
      BY <3>1, <2>2
    <3>7. Raw(Append(x, a))
      <4>1. Append(x, a)[1] = x[1] /\ x[1] \in Keys
        <5>1. Len(x) \in Nat /\ Len(x) # 0
          BY <3>2, <2>2, EmptySeq, LenProperties
        <5>2. 1 \in 1 .. Len(x)
          BY <5>1
        <5>3. Append(x, a)[1] = x[1]
          BY <5>2, <3>1, <2>2, AppendProperties
        <5>4. QED BY <5>3, <3>2, <3>3 DEF Raw
      <4>2. QED BY <4>1, <3>6 DEF Raw
    <3>8. QED BY <3>5, <3>6, <3>7 DEF a
  <2>3. raw \o v \in S
    <3> HIDE DEF S, A
    <3>1. QED BY <1>1, <2>1, <2>2, ByPrefixes
  <2>4. QED BY <2>3
<1>4. QED BY <1>2, <1>3

---------------------------------------------------------------------------
(* Which events of calls can follow each other.                            *)

\* How far the calls are: the last one is in its name or its arguments, or it
\* has ended; how many there are.
NoCalls == [phase |-> "ended", calls |-> 0]

\* Where an event leaves them.
Moved(at, e) ==
  CASE e.type = "TOOL_CALL_START" -> [phase |-> "name", calls |-> at.calls + 1]
    [] e.type = "ARG_VALUE_CHUNK" -> [phase |-> "args", calls |-> at.calls]
    [] e.type = "TOOL_CALL_END" -> [phase |-> "ended", calls |-> at.calls]
    [] OTHER -> at

\* An event that can come there.
Proper(at, e) ==
  /\ e.type = "TOOL_CALL_START" => at.phase = "ended" /\ e.index = at.calls + 1
  /\ e.type = "TOOL_NAME" => at.phase = "name" /\ e.index = at.calls
  /\ e.type = "ARG_VALUE_CHUNK" => /\ at.phase \in {"name", "args"} /\ e.index = at.calls
                                   /\ e.value # <<>>
                                   /\ at.phase = "name" => e.value[1] \in Keys
  /\ e.type = "TOOL_CALL_END" => at.phase \in {"name", "args"} /\ e.index = at.calls

\* c is where the calls are after each of n events of w.
Traces(c, w, n) ==
  /\ c[0] = NoCalls
  /\ \A k \in 1 .. n : Proper(c[k - 1], w[k]) /\ c[k] = Moved(c[k - 1], w[k])

Position == [phase : {"name", "args", "ended"}, calls : Nat]

\* An event moves on.
LEMMA MovedFacts ==
  ASSUME NEW at \in Position, NEW e
  PROVE  /\ Moved(at, e) \in Position
         /\ e.type = "TOOL_CALL_START" => Moved(at, e) = [phase |-> "name", calls |-> at.calls + 1]
         /\ e.type = "ARG_VALUE_CHUNK" => Moved(at, e) = [phase |-> "args", calls |-> at.calls]
         /\ e.type = "TOOL_CALL_END" => Moved(at, e) = [phase |-> "ended", calls |-> at.calls]
         /\ e.type \notin {"TOOL_CALL_START", "ARG_VALUE_CHUNK", "TOOL_CALL_END"} => Moved(at, e) = at
  BY DEF Moved, Position

\* Where the calls are is a position.
LEMMA TracePositions ==
  ASSUME NEW c, NEW w, NEW n \in Nat, Traces(c, w, n)
  PROVE  \A k \in 0 .. n : c[k] \in Position
<1> DEFINE Good == {k \in Nat : k <= n => c[k] \in Position}
<1>1. 0 \in Good
  BY DEF Traces, NoCalls, Position
<1>2. ASSUME NEW k \in Nat, k \in Good PROVE k + 1 \in Good
  <2>1. SUFFICES ASSUME k + 1 <= n PROVE c[k + 1] \in Position
    OBVIOUS
  <2> DEFINE j == k + 1
  <2>2. j \in 1 .. n /\ j - 1 = k /\ c[k] \in Position
    BY <2>1, <1>2
  <2> HIDE DEF j
  <2>3. c[j] = Moved(c[j - 1], w[j])
    BY <2>2 DEF Traces
  <2>4. c[j] \in Position
    BY <2>2, <2>3, MovedFacts
  <2>5. QED BY <2>4 DEF j
<1>3. \A k \in Nat : k \in Good
  <2> HIDE DEF Good
  <2>1. QED BY <1>1, <1>2, NatInductionSet
<1>4. QED BY <1>3

\* One event more.
LEMMA TraceGrows ==
  ASSUME NEW c, NEW w, NEW n \in Nat, Traces(c, w, n), NEW v, NEW e,
         \A k \in 1 .. n : v[k] = w[k], v[n + 1] = e, Proper(c[n], e)
  PROVE  \E d : /\ Traces(d, v, n + 1) /\ d[n + 1] = Moved(c[n], e)
                /\ \A k \in 0 .. n : d[k] = c[k]
<1> DEFINE d == [k \in 0 .. n + 1 |-> IF k = n + 1 THEN Moved(c[n], e) ELSE c[k]]
<1>1. d[n + 1] = Moved(c[n], e) /\ \A k \in 0 .. n : d[k] = c[k]
  <2>1. d[n + 1] = Moved(c[n], e)
    OBVIOUS
  <2>2. ASSUME NEW k \in 0 .. n PROVE d[k] = c[k]
    <3>1. k \in 0 .. n + 1 /\ k # n + 1
      OBVIOUS
    <3>2. QED BY <3>1
  <2>3. QED BY <2>1, <2>2
<1> HIDE DEF d
<1>2. d[0] = NoCalls
  BY <1>1 DEF Traces
<1>3. ASSUME NEW k \in 1 .. n + 1
      PROVE  Proper(d[k - 1], v[k]) /\ d[k] = Moved(d[k - 1], v[k])
  <2>1. CASE k = n + 1
    <3>1. d[k - 1] = c[n] /\ v[k] = e
      BY <2>1, <1>1
    <3>2. QED BY <2>1, <3>1, <1>1
  <2>2. CASE k # n + 1
    <3>1. k \in 1 .. n /\ k - 1 \in 0 .. n /\ k \in 0 .. n
      BY <2>2
    <3>2. d[k - 1] = c[k - 1] /\ d[k] = c[k] /\ v[k] = w[k]
      BY <3>1, <1>1
    <3>3. Proper(c[k - 1], w[k]) /\ c[k] = Moved(c[k - 1], w[k])
      BY <3>1 DEF Traces
    <3>4. QED BY <3>2, <3>3
  <2>3. QED BY <2>1, <2>2
<1>4. Traces(d, v, n + 1)
  BY <1>2, <1>3 DEF Traces
<1>5. QED BY <1>1, <1>4

\* A longer chunk of arguments in the last place.
LEMMA TraceStretches ==
  ASSUME NEW c, NEW w, NEW n \in Nat, n # 0, Traces(c, w, n), NEW v, NEW x,
         \A k \in 1 .. n - 1 : v[k] = w[k],
         w[n].type = "ARG_VALUE_CHUNK", v[n].type = "ARG_VALUE_CHUNK",
         v[n].index = w[n].index, v[n].value # <<>>,
         v[n].value[1] = w[n].value[1]
  PROVE  Traces(c, v, n)
<1>1. ASSUME NEW k \in 1 .. n PROVE Proper(c[k - 1], v[k]) /\ c[k] = Moved(c[k - 1], v[k])
  <2>1. Proper(c[k - 1], w[k]) /\ c[k] = Moved(c[k - 1], w[k])
    BY DEF Traces
  <2>2. CASE k = n
    <3>1. Proper(c[k - 1], v[k])
      BY <2>1, <2>2 DEF Proper
    <3>2. Moved(c[k - 1], v[k]) = Moved(c[k - 1], w[k])
      BY <2>2 DEF Moved
    <3>3. QED BY <2>1, <3>1, <3>2
  <2>3. CASE k # n
    <3>1. k \in 1 .. n - 1
      BY <2>3
    <3>2. QED BY <2>1, <3>1
  <2>4. QED BY <2>2, <2>3
<1>2. QED BY <1>1 DEF Traces

\* Where the lexer is among the calls.
LexerAt ==
  [phase |-> IF lexer.phase \in {"name", "args"} THEN lexer.phase ELSE "ended",
   calls |-> lexer.calls]

\* The lexer's next event can come where it is, and it moves on with it.
LEMMA NextProper ==
  ASSUME Lexed, lexer.phase = "name" => lexer.keys = {}, NEW next \in NextEvents
  PROVE  /\ Proper(LexerAt, next.event)
         /\ Moved(LexerAt, next.event) =
              [phase |-> IF next.phase \in {"name", "args"} THEN next.phase ELSE "ended",
               calls |-> IF next.event.index > 0 THEN next.event.index ELSE lexer.calls]
<1> DEFINE call == lexer.calls
           e == next.event
<1>1. call \in Nat /\ lexer.phase \in Phases
  BY DEF Lexed
<1> HIDE DEF call
<1>2. CASE lexer.phase = "reasoning"
  <2>1. NextEvents =
          {[event |-> Event("REASONING_CHUNK", <<c>>, 0), phase |-> "reasoning"] :
             c \in {"x", "nl"}}
          \union {[event |-> Event("REASONING_END", <<>>, 0), phase |-> "content"]}
    BY <1>2 DEF NextEvents
  <2>2. /\ e.type \in {"REASONING_CHUNK", "REASONING_END"} /\ e.index = 0
        /\ next.phase \in {"reasoning", "content"}
    BY <2>1 DEF Event
  <2> HIDE DEF e
  <2>3. LexerAt = [phase |-> "ended", calls |-> call]
    BY <1>2 DEF LexerAt, call
  <2>4. Proper(LexerAt, e) /\ Moved(LexerAt, e) = LexerAt
    BY <2>2 DEF Proper, Moved
  <2>5. QED BY <2>2, <2>3, <2>4 DEF e, call
<1>3. CASE lexer.phase = "content"
  <2>1. NextEvents =
          {[event |-> Event("TEXT_CHUNK", <<c>>, 0), phase |-> "content"] :
             c \in {"x", "nl", "sp"}}
          \union {[event |-> Event("TOOL_CALL_START", <<>>, call + 1), phase |-> "name"] :
             i \in IF Mixes \/ \A j \in DOMAIN batch : batch[j].type # "TEXT_CHUNK"
                   THEN {1} ELSE {}}
    BY <1>3 DEF NextEvents, call
  <2>2. \/ e.type = "TEXT_CHUNK" /\ e.index = 0 /\ next.phase = "content"
        \/ e.type = "TOOL_CALL_START" /\ e.index = call + 1 /\ next.phase = "name"
    BY <2>1 DEF Event
  <2> HIDE DEF e
  <2>3. LexerAt = [phase |-> "ended", calls |-> call] /\ LexerAt.phase = "ended" /\ LexerAt.calls = call
    BY <1>3 DEF LexerAt, call
  <2>4. CASE e.type = "TEXT_CHUNK" /\ e.index = 0 /\ next.phase = "content"
    <3>1. Proper(LexerAt, e) /\ Moved(LexerAt, e) = LexerAt
      BY <2>4 DEF Proper, Moved
    <3>2. QED BY <2>3, <2>4, <3>1 DEF e, call
  <2>5. CASE e.type = "TOOL_CALL_START" /\ e.index = call + 1 /\ next.phase = "name"
    <3>1. Proper(LexerAt, e)
      BY <2>3, <2>5 DEF Proper
    <3>2. Moved(LexerAt, e) = [phase |-> "name", calls |-> call + 1]
      BY <2>3, <2>5 DEF Moved
    <3>3. e.index > 0
      BY <2>5, <1>1
    <3>4. QED BY <2>5, <3>1, <3>2, <3>3 DEF e
  <2>6. QED BY <2>2, <2>4, <2>5
<1>4. CASE lexer.phase \in {"name", "args"}
  <2> DEFINE S == (Keys \ lexer.keys) \union (IF lexer.keys = {} THEN {} ELSE Letters)
             ends == [event |-> Event("TOOL_CALL_END", <<>>, call), phase |-> "content"]
             args == {[event |-> Event("ARG_VALUE_CHUNK", <<a>>, call), phase |-> "args"] : a \in S}
  <2>1. /\ lexer.phase = "name" =>
             NextEvents = {[event |-> Event("TOOL_NAME", <<part>>, call), phase |-> "name"] :
                             part \in Parts} \union args \union {ends}
        /\ lexer.phase = "args" => NextEvents = args \union {ends}
    <3>1. ASSUME lexer.phase = "name"
          PROVE  NextEvents = {[event |-> Event("TOOL_NAME", <<part>>, call), phase |-> "name"] :
                             part \in Parts} \union args \union {ends}
      BY <3>1 DEF NextEvents, call
    <3>2. ASSUME lexer.phase = "args" PROVE NextEvents = args \union {ends}
      BY <3>2 DEF NextEvents, call
    <3>3. QED BY <3>1, <3>2
  <2>2. call # 0 /\ call > 0
    BY <1>1, <1>4 DEF Lexed, call
  <2>3. \/ e.type = "TOOL_NAME" /\ e.index = call /\ next.phase = "name" /\ lexer.phase = "name"
        \/ \E a \in S : e = Event("ARG_VALUE_CHUNK", <<a>>, call) /\ next.phase = "args"
        \/ e.type = "TOOL_CALL_END" /\ e.index = call /\ next.phase = "content"
    <3> HIDE DEF S
    <3>1. CASE \E part \in Parts : next = [event |-> Event("TOOL_NAME", <<part>>, call), phase |-> "name"]
               /\ lexer.phase = "name"
      BY <3>1 DEF Event
    <3>2. CASE \E a \in S : next = [event |-> Event("ARG_VALUE_CHUNK", <<a>>, call), phase |-> "args"]
      <4>1. PICK a \in S : next = [event |-> Event("ARG_VALUE_CHUNK", <<a>>, call), phase |-> "args"]
        BY <3>2
      <4>2. e = Event("ARG_VALUE_CHUNK", <<a>>, call) /\ next.phase = "args"
        BY <4>1
      <4>3. QED BY <4>2
    <3>3. CASE next = ends
      BY <3>3 DEF Event
    <3>4. QED BY <1>4, <2>1, <3>1, <3>2, <3>3
  <2> HIDE DEF e
  <2>4. LexerAt.phase = lexer.phase /\ LexerAt.calls = call
        /\ LexerAt = [phase |-> lexer.phase, calls |-> call]
    BY <1>4 DEF LexerAt, call
  <2>5. CASE e.type = "TOOL_NAME" /\ e.index = call /\ next.phase = "name" /\ lexer.phase = "name"
    <3>1. Proper(LexerAt, e) /\ Moved(LexerAt, e) = LexerAt
      BY <2>4, <2>5 DEF Proper, Moved
    <3>2. QED BY <2>2, <2>4, <2>5, <3>1 DEF e
  <2>6. CASE \E a \in S : e = Event("ARG_VALUE_CHUNK", <<a>>, call) /\ next.phase = "args"
    <3>1. PICK a \in S : e = Event("ARG_VALUE_CHUNK", <<a>>, call) /\ next.phase = "args"
      BY <2>6
    <3> DEFINE v == <<a>>
    <3>2. v # <<>> /\ v[1] = a
      OBVIOUS
    <3>3. lexer.phase = "name" => a \in Keys
      OBVIOUS
    <3> HIDE DEF S, v
    <3>4. e.type = "ARG_VALUE_CHUNK" /\ e.index = call /\ e.value = v
      BY <3>1 DEF Event, v
    <3>5. Proper(LexerAt, e)
      BY <1>4, <2>4, <3>2, <3>3, <3>4 DEF Proper
    <3>6. Moved(LexerAt, e) = [phase |-> "args", calls |-> call]
      BY <2>4, <3>4 DEF Moved
    <3>7. QED BY <2>2, <3>1, <3>4, <3>5, <3>6 DEF e
  <2>7. CASE e.type = "TOOL_CALL_END" /\ e.index = call /\ next.phase = "content"
    <3>1. Proper(LexerAt, e)
      BY <1>4, <2>4, <2>7 DEF Proper
    <3>2. Moved(LexerAt, e) = [phase |-> "ended", calls |-> call]
      BY <2>4, <2>7 DEF Moved
    <3>3. QED BY <2>2, <2>7, <3>1, <3>2 DEF e
  <2>8. QED BY <2>3, <2>5, <2>6, <2>7
<1>5. QED BY <1>1, <1>2, <1>3, <1>4 DEF Phases

\* An element behind two sequences.
LEMMA AppendBehind ==
  ASSUME NEW A, NEW u \in Seq(A), NEW w \in Seq(A), NEW e \in A
  PROVE  /\ u \o Append(w, e) = Append(u \o w, e)
         /\ u \o Append(w, e) \in Seq(A)
         /\ Len(u \o Append(w, e)) = Len(u) + Len(w) + 1
         /\ \A k \in 1 .. Len(u) + Len(w) : (u \o Append(w, e))[k] = (u \o w)[k]
         /\ (u \o Append(w, e))[Len(u) + Len(w) + 1] = e
         /\ Len(u) \in Nat /\ Len(w) \in Nat
<1>1. <<e>> \in Seq(A) /\ Append(w, e) = w \o <<e>>
  BY AppendIsConcat
<1>2. u \o (w \o <<e>>) = (u \o w) \o <<e>>
  BY <1>1, ConcatAssociative, SMTT(30)
<1>3. u \o w \in Seq(A) /\ Len(u \o w) = Len(u) + Len(w) /\ Len(u) \in Nat /\ Len(w) \in Nat
  BY JoinedAt
<1> DEFINE x == u \o w
<1>4. x \in Seq(A) /\ Len(x) = Len(u) + Len(w)
  BY <1>3
<1>5. u \o Append(w, e) = x \o <<e>>
  <2>1. u \o Append(w, e) = u \o (w \o <<e>>)
    BY <1>1, Zenon
  <2>2. QED BY <1>2, <2>1, Zenon
<1> HIDE DEF x
<1>6. Append(x, e) = x \o <<e>>
  BY <1>4, AppendIsConcat
<1>7. /\ Append(x, e) \in Seq(A) /\ Len(Append(x, e)) = Len(x) + 1
      /\ \A k \in 1 .. Len(x) : Append(x, e)[k] = x[k]
      /\ Append(x, e)[Len(x) + 1] = e
  <2>1. x \in Seq(A) /\ e \in A
    BY <1>4
  <2>2. /\ Append(x, e) \in Seq(A) /\ Append(x, e) # <<>> /\ Len(Append(x, e)) = Len(x) + 1
        /\ \A i \in 1 .. Len(x) : Append(x, e)[i] = x[i]
        /\ Append(x, e)[Len(x) + 1] = e
    BY <2>1, AppendProperties
  <2>3. QED BY <2>2
<1>8. u \o Append(w, e) = Append(x, e)
  BY <1>5, <1>6, Zenon
<1>9. QED
  <2> DEFINE y == u \o Append(w, e)
             z == Append(x, e)
  <2>1. y = z
    BY <1>8
  <2>2. x = u \o w
    BY DEF x
  <2> HIDE DEF y
  <2>3. y = Append(u \o w, e)
    BY <2>1, <2>2
  <2> HIDE DEF z
  <2>4. /\ y \in Seq(A) /\ Len(y) = Len(x) + 1
        /\ \A k \in 1 .. Len(x) : y[k] = x[k]
        /\ y[Len(x) + 1] = e
    BY <1>7, <2>1 DEF z
  <2>5. \A k \in 1 .. Len(u) + Len(w) : y[k] = (u \o w)[k]
    BY <2>4, <1>4, <2>2
  <2>6. Len(y) = Len(u) + Len(w) + 1 /\ y[Len(u) + Len(w) + 1] = e
    BY <2>4, <1>4
  <2>7. QED BY <1>3, <2>3, <2>4, <2>5, <2>6 DEF y

\* Where the calls are after each event, up to where the lexer is.
Tracked(c) ==
  /\ lexer.phase = "name" => lexer.keys = {}
  /\ Traces(c, given \o batch, Len(given) + Len(batch))
  /\ ~finished => c[Len(given) + Len(batch)] = LexerAt
  /\ finished => batch = <<>> /\ c[Len(given)].phase = "ended"

\* d goes on where c was for the events parsed.
Continues(d, c) == \A k \in 0 .. Len(given) : d[k] = c[k]

\* Before the first event.
LEMMA TrackedInit == ASSUME Init PROVE \E c : Tracked(c) /\ c[0] = NoCalls
<1> DEFINE c == [k \in {0} |-> NoCalls]
<1>1. c[0] = NoCalls
  OBVIOUS
<1> HIDE DEF c
<1>2. lexer.phase \in {"reasoning", "content"} /\ lexer.calls = 0 /\ given = <<>> /\ batch = <<>>
      /\ finished = FALSE
  BY DEF Init
<1>3. LexerAt = NoCalls
  BY <1>2 DEF LexerAt, NoCalls
<1>4. Len(given) = 0 /\ Len(batch) = 0
  BY <1>2
<1>5. Traces(c, given \o batch, Len(given) + Len(batch))
  <2>1. \A k \in 1 .. 0 : FALSE
    OBVIOUS
  <2>2. Len(given) + Len(batch) = 0
    BY <1>4
  <2>3. Traces(c, given \o batch, 0)
    BY <1>1, <2>1 DEF Traces
  <2>4. QED BY <2>2, <2>3
<1>6. c[Len(given) + Len(batch)] = LexerAt
  BY <1>1, <1>3, <1>4
<1>7. lexer.phase # "name"
  BY <1>2
<1>8. Tracked(c)
  BY <1>2, <1>5, <1>6, <1>7 DEF Tracked
<1>9. QED BY <1>1, <1>8

\* The lexer moves on.
LEMMA TrackedLex ==
  ASSUME Lexed, NEW c, Tracked(c), Lex
  PROVE  \E d : Tracked(d)' /\ Continues(d, c)
<1>1. PICK next \in NextEvents :
        LET e == next.event
        IN  /\ lexer' = [phase |-> next.phase,
                         calls |-> IF e.index > 0 THEN e.index ELSE lexer.calls,
                         keys |-> IF next.phase = "args"
                                  THEN lexer.keys \union (ToSet(e.value) \cap Keys) ELSE {},
                         written |-> lexer.written + 1]
            /\ \/ Len(batch) < MaxBatch /\ batch' = Append(batch, e)
               \/ /\ batch # <<>> /\ Last(batch).type = "ARG_VALUE_CHUNK"
                  /\ e.type = "ARG_VALUE_CHUNK"
                  /\ batch' = [batch EXCEPT ![Len(batch)].value = @ \o e.value]
  BY DEF Lex
<1> DEFINE e == next.event
           n == Len(given) + Len(batch)
           w == given \o batch
           v == given \o batch'
<1>2. given' = given /\ ~finished /\ finished' = finished
  BY DEF Lex
<1>3. /\ e \in EventSet
      /\ Proper(LexerAt, e)
      /\ Moved(LexerAt, e) =
           [phase |-> IF next.phase \in {"name", "args"} THEN next.phase ELSE "ended",
            calls |-> IF e.index > 0 THEN e.index ELSE lexer.calls]
  BY NextYields, NextProper DEF Tracked
<1>4. LexerAt' = Moved(LexerAt, e)
  <2>1. lexer'.phase = next.phase
        /\ lexer'.calls = IF e.index > 0 THEN e.index ELSE lexer.calls
    BY <1>1
  <2>2. LexerAt' = [phase |-> IF lexer'.phase \in {"name", "args"} THEN lexer'.phase ELSE "ended",
                    calls |-> lexer'.calls]
    BY DEF LexerAt
  <2> HIDE DEF e
  <2>3. QED BY <1>3, <2>1, <2>2
<1>5. lexer'.phase = "name" => lexer'.keys = {}
  BY <1>1
<1>6. given \in Seq(EventSet) /\ batch \in Seq(EventSet) /\ n \in Nat
      /\ Len(given) \in Nat /\ Len(batch) \in Nat
  BY LenProperties DEF Lexed
<1>7. Traces(c, w, n) /\ c[n] = LexerAt
  BY <1>2 DEF Tracked
<1>8. CASE batch' = Append(batch, e)
  <2> DEFINE m == n + 1
  <2>1. /\ Len(v) = m
        /\ \A k \in 1 .. n : v[k] = w[k]
        /\ v[n + 1] = e
    <3> HIDE DEF e
    <3>1. QED BY <1>3, <1>6, <1>8, AppendBehind
  <2>2. Len(given) + Len(batch') = m
    BY <1>6, <1>8
  <2> HIDE DEF e, w, v, n
  <2>3. PICK d : /\ Traces(d, v, m) /\ d[m] = Moved(LexerAt, e)
                 /\ \A k \in 0 .. n : d[k] = c[k]
    <3>1. n \in Nat /\ Proper(c[n], e)
      BY <1>3, <1>6, <1>7
    <3>2. \E d : /\ Traces(d, v, n + 1) /\ d[n + 1] = Moved(c[n], e)
                 /\ \A k \in 0 .. n : d[k] = c[k]
      BY <3>1, <1>7, <2>1, TraceGrows
    <3>3. QED BY <3>2, <1>7 DEF m
  <2> HIDE DEF m
  <2>4. Continues(d, c)
    <3>1. \A k \in 0 .. Len(given) : k \in 0 .. n
      BY <1>6 DEF n
    <3>2. QED BY <2>3, <3>1 DEF Continues
  <2>5. Tracked(d)'
    <3>1. Tracked(d)' <=>
            /\ lexer'.phase = "name" => lexer'.keys = {}
            /\ Traces(d, given' \o batch', Len(given') + Len(batch'))
            /\ ~finished' => d[Len(given') + Len(batch')] = LexerAt'
            /\ finished' => batch' = <<>> /\ d[Len(given')].phase = "ended"
      BY DEF Tracked
    <3>2. given' \o batch' = v /\ Len(given') + Len(batch') = m
      BY <1>2, <2>2 DEF v
    <3>3. QED BY <1>2, <1>4, <1>5, <2>3, <3>1, <3>2
  <2>6. QED BY <2>4, <2>5
<1>9. CASE /\ batch # <<>> /\ Last(batch).type = "ARG_VALUE_CHUNK"
           /\ e.type = "ARG_VALUE_CHUNK"
           /\ batch' = [batch EXCEPT ![Len(batch)].value = @ \o e.value]
  <2> DEFINE l == Len(batch)
             x == batch[l]
             y == [x EXCEPT !.value = x.value \o e.value]
  <2>1. l \in 1 .. l /\ x \in EventSet /\ x.type = "ARG_VALUE_CHUNK" /\ l # 0
    <3>1. l \in 1 .. l /\ l # 0
      BY <1>6, <1>9, EmptySeq
    <3>2. x \in EventSet
      BY <3>1, <1>6, ElementOfSeq
    <3>3. Last(batch) = x
      BY DEF Last
    <3>4. QED BY <1>9, <3>1, <3>2, <3>3
  <2>2. batch' \in Seq(EventSet) /\ Len(batch') = l
        /\ (\A k \in 1 .. l - 1 : batch'[k] = batch[k]) /\ batch'[l] = y
    <3>1. batch' = [batch EXCEPT ![l] = y]
      BY <1>9
    <3>2. batch' \in Seq(EventSet)
      <4>1. \/ batch' = Append(batch, e)
            \/ /\ batch # <<>> /\ Last(batch).type = "ARG_VALUE_CHUNK"
               /\ e.type = "ARG_VALUE_CHUNK"
               /\ batch' = [batch EXCEPT ![Len(batch)].value = @ \o e.value]
        BY <1>9
      <4> HIDE DEF e
      <4>2. QED BY <4>1, <1>3, BatchGrows
    <3>3. DOMAIN batch = 1 .. l
      BY <1>6, LenProperties
    <3> HIDE DEF y, l
    <3>4. DOMAIN batch' = 1 .. l /\ batch'[l] = y /\ \A k \in 1 .. l - 1 : batch'[k] = batch[k]
      BY <2>1, <3>1, <3>3
    <3>5. Len(batch') = l
      <4>1. DOMAIN batch' = 1 .. Len(batch') /\ Len(batch') \in Nat
        BY <3>2, LenProperties
      <4>2. l \in Nat
        BY <1>6 DEF l
      <4>3. QED BY <3>4, <4>1, <4>2
    <3>6. QED BY <3>2, <3>4, <3>5
  <2>3. /\ \A k \in 1 .. Len(given) : w[k] = given[k] /\ v[k] = given[k]
        /\ \A k \in 1 .. l : w[Len(given) + k] = batch[k] /\ v[Len(given) + k] = batch'[k]
    <3>1. \A k \in 1 .. Len(batch') : v[Len(given) + k] = batch'[k]
      BY <1>6, <2>2, JoinedAt
    <3>2. \A k \in 1 .. Len(given) : w[k] = given[k] /\ v[k] = given[k]
      BY <1>6, <2>2, JoinedAt
    <3>3. \A k \in 1 .. l : w[Len(given) + k] = batch[k]
      BY <1>6, JoinedAt
    <3>4. QED BY <2>2, <3>1, <3>2, <3>3
  <2>4. y.type = x.type /\ y.index = x.index /\ y.value = x.value \o e.value
    <3>1. x = [type |-> x.type, value |-> x.value, index |-> x.index]
      BY <2>1 DEF EventSet
    <3> HIDE DEF x
    <3>2. QED BY <3>1
  <2>5. w[n] = x /\ v[n] = y /\ n # 0
    <3>1. n = Len(given) + l
      OBVIOUS
    <3> HIDE DEF n, w, v, x, y
    <3>2. w[Len(given) + l] = batch[l] /\ v[Len(given) + l] = y
      BY <2>1, <2>2, <2>3
    <3> HIDE DEF l
    <3>3. n # 0
      BY <2>1, <3>1, <1>6
    <3>4. QED BY <3>1, <3>2, <3>3 DEF x, l
  <2>6. \A k \in 1 .. n - 1 : v[k] = w[k]
    <3>1. SUFFICES ASSUME NEW k \in 1 .. n - 1 PROVE v[k] = w[k]
      OBVIOUS
    <3>2. CASE k \in 1 .. Len(given)
      BY <2>3, <3>2
    <3>3. CASE k \notin 1 .. Len(given)
      <4> DEFINE j == k - Len(given)
      <4>1. j \in 1 .. l - 1 /\ j \in 1 .. l /\ k = Len(given) + j
        BY <1>6, <3>3
      <4> HIDE DEF j, w, v, l
      <4>2. w[Len(given) + j] = batch[j] /\ v[Len(given) + j] = batch'[j]
        BY <4>1, <2>3
      <4>3. batch'[j] = batch[j]
        BY <4>1, <2>2
      <4>4. QED BY <4>1, <4>2, <4>3
    <3>4. QED BY <3>2, <3>3
  <2>7. Proper(c[n - 1], w[n]) /\ c[n] = Moved(c[n - 1], w[n])
    <3>1. n \in 1 .. n
      BY <1>6, <2>5
    <3> HIDE DEF n, w
    <3>2. QED BY <1>7, <3>1 DEF Traces
  <2>8. x.value # <<>> /\ y.value # <<>> /\ y.value[1] = x.value[1]
    <3>1. x.value # <<>>
      BY <2>1, <2>5, <2>7 DEF Proper
    <3>2. x.value \in Seq(Keys \union Letters) /\ e.value \in Seq(Keys \union Letters)
      BY <1>3, <1>9, <2>1 DEF EventSet
    <3> DEFINE a == x.value
               b == e.value
    <3> HIDE DEF a, b
    <3>3. /\ Len(a \o b) = Len(a) + Len(b) /\ Len(a) \in Nat /\ Len(b) \in Nat
          /\ a \o b \in Seq(Keys \union Letters)
          /\ \A k \in 1 .. Len(a) : (a \o b)[k] = a[k]
      <4>1. a \in Seq(Keys \union Letters) /\ b \in Seq(Keys \union Letters)
        BY <3>2 DEF a, b
      <4>2. QED BY <4>1, JoinedAt
    <3>4. Len(a) # 0 /\ 1 \in 1 .. Len(a)
      BY <3>1, <3>2, <3>3, EmptySeq DEF a
    <3>5. a \o b # <<>> /\ (a \o b)[1] = a[1]
      BY <3>3, <3>4, EmptySeq
    <3> HIDE DEF x, y
    <3>6. y.value = a \o b
      BY <2>4 DEF a, b
    <3>7. QED BY <3>1, <3>5, <3>6 DEF a
  <2>9. Traces(c, v, n)
    <3> HIDE DEF n, w, v, x, y
    <3>1. n \in Nat
      BY <1>6 DEF n
    <3>2. /\ w[n].type = "ARG_VALUE_CHUNK" /\ v[n].type = "ARG_VALUE_CHUNK"
          /\ v[n].index = w[n].index /\ v[n].value # <<>> /\ v[n].value[1] = w[n].value[1]
      BY <2>1, <2>4, <2>5, <2>8
    <3>3. QED BY <1>7, <2>5, <2>6, <3>1, <3>2, TraceStretches
  <2>10. c[n] = LexerAt'
    <3>1. c[n] = [phase |-> "args", calls |-> c[n - 1].calls]
      BY <2>1, <2>5, <2>7 DEF Moved
    <3> HIDE DEF n
    <3>2. c[n].phase = "args" /\ c[n] = [phase |-> "args", calls |-> c[n].calls]
      BY <3>1
    <3>3. Moved(LexerAt, e) = [phase |-> "args", calls |-> LexerAt.calls]
      BY <1>9 DEF Moved
    <3>4. QED BY <3>2, <3>3, <1>4, <1>7
  <2>11. Tracked(c)'
    <3>1. Tracked(c)' <=>
            /\ lexer'.phase = "name" => lexer'.keys = {}
            /\ Traces(c, given' \o batch', Len(given') + Len(batch'))
            /\ ~finished' => c[Len(given') + Len(batch')] = LexerAt'
            /\ finished' => batch' = <<>> /\ c[Len(given')].phase = "ended"
      BY DEF Tracked
    <3>2. given' \o batch' = v /\ Len(given') + Len(batch') = n
      BY <1>2, <2>2
    <3> HIDE DEF v, n
    <3>3. QED BY <1>2, <1>5, <2>9, <2>10, <3>1, <3>2
  <2>12. Continues(c, c)
    BY DEF Continues
  <2>13. QED BY <2>11, <2>12
<1>10. QED BY <1>1, <1>8, <1>9

\* The events of a delta are parsed.
LEMMA TrackedParse ==
  ASSUME Lexed, NEW c, Tracked(c), NEW last \in BOOLEAN, ParseDelta(last)
  PROVE  \E d : /\ Tracked(d)' /\ Continues(d, c)
                /\ Traces(d, given \o Events(last), Len(given) + Len(Events(last)))
<1> DEFINE n == Len(given) + Len(batch)
           w == given \o batch
           e == Event("TOOL_CALL_END", <<>>, lexer.calls)
           v == given \o Events(last)
           m == Len(given) + Len(Events(last))
<1>1. /\ given' = v /\ batch' = <<>> /\ finished' = last /\ lexer' = lexer /\ ~finished
  BY DEF ParseDelta, Deliver
<1>2. given \in Seq(EventSet) /\ batch \in Seq(EventSet) /\ n \in Nat
      /\ Len(given) \in Nat /\ Len(batch) \in Nat
  BY LenProperties DEF Lexed
<1>3. Traces(c, w, n) /\ c[n] = LexerAt /\ (lexer.phase = "name" => lexer.keys = {})
  BY <1>1 DEF Tracked
<1>4. Events(last) \in Seq(EventSet)
  BY EventsFacts
<1>5. v \in Seq(EventSet) /\ Len(v) = m
  <2> DEFINE b == Events(last)
  <2> HIDE DEF b
  <2>1. QED BY <1>2, <1>4, JoinedAt DEF b
<1>6. \E d : /\ Traces(d, v, m) /\ Continues(d, c)
             /\ last => d[m].phase = "ended"
             /\ ~last => d[m] = LexerAt
  <2>1. CASE last /\ lexer.phase \in {"name", "args"}
    <3>1. Events(last) = Append(batch, e)
      BY <2>1 DEF Events
    <3>2. e \in EventSet /\ e.type = "TOOL_CALL_END" /\ e.index = lexer.calls
      <4>1. lexer.calls \in Nat /\ lexer.calls # 0
        BY <2>1 DEF Lexed
      <4>2. <<>> \in Seq(Symbols)
        OBVIOUS
      <4>3. e = [type |-> "TOOL_CALL_END", value |-> <<>>, index |-> lexer.calls]
        BY DEF Event
      <4>4. "TOOL_CALL_END" \in EventTypes
        BY DEF EventTypes, CallEvents
      <4> HIDE DEF e
      <4>5. QED BY <4>1, <4>2, <4>3, <4>4 DEF EventSet
    <3> DEFINE m1 == n + 1
    <3>3. /\ m = m1 /\ \A k \in 1 .. n : v[k] = w[k]
          /\ v[n + 1] = e
      <4> HIDE DEF e
      <4>1. /\ Len(given \o Append(batch, e)) = n + 1
            /\ \A k \in 1 .. n : (given \o Append(batch, e))[k] = w[k]
            /\ (given \o Append(batch, e))[n + 1] = e
        BY <1>2, <3>2, AppendBehind
      <4>2. v = given \o Append(batch, e)
        BY <3>1
      <4> HIDE DEF v, m
      <4>3. QED BY <1>5, <4>1, <4>2
    <3>4. Proper(LexerAt, e)
      <4>1. LexerAt.phase = lexer.phase /\ LexerAt.calls = lexer.calls
        BY <2>1 DEF LexerAt
      <4> HIDE DEF e
      <4>2. QED BY <2>1, <3>2, <4>1 DEF Proper
    <3>5. Moved(LexerAt, e).phase = "ended"
      <4> HIDE DEF e
      <4>1. Moved(LexerAt, e) = [phase |-> "ended", calls |-> LexerAt.calls]
        BY <3>2 DEF Moved
      <4>2. QED BY <4>1
    <3> HIDE DEF e, w, v, n, m
    <3>6. PICK d : /\ Traces(d, v, m1) /\ d[m1] = Moved(LexerAt, e)
                   /\ \A k \in 0 .. n : d[k] = c[k]
      <4>1. n \in Nat /\ Proper(c[n], e)
        BY <1>2, <1>3, <3>4
      <4>2. \E d : /\ Traces(d, v, n + 1) /\ d[n + 1] = Moved(c[n], e)
                   /\ \A k \in 0 .. n : d[k] = c[k]
        BY <4>1, <1>3, <3>3, TraceGrows
      <4>3. QED BY <4>2, <1>3 DEF m1
    <3> HIDE DEF m1
    <3>7. Continues(d, c)
      <4>1. \A k \in 0 .. Len(given) : k \in 0 .. n
        BY <1>2 DEF n
      <4>2. QED BY <3>6, <4>1 DEF Continues
    <3>8. QED BY <2>1, <3>3, <3>5, <3>6, <3>7
  <2>2. CASE ~(last /\ lexer.phase \in {"name", "args"})
    <3>1. Events(last) = batch
      BY <2>2 DEF Events
    <3>2. v = w /\ m = n
      BY <3>1
    <3>3. last => LexerAt.phase = "ended"
      BY <2>2 DEF LexerAt
    <3> HIDE DEF v, w, m, n
    <3>4. Continues(c, c)
      BY DEF Continues
    <3>5. QED BY <1>3, <3>2, <3>3, <3>4
  <2>3. QED BY <2>1, <2>2
<1>7. PICK d : /\ Traces(d, v, m) /\ Continues(d, c)
               /\ last => d[m].phase = "ended"
               /\ ~last => d[m] = LexerAt
  BY <1>6
<1>8. given' \o batch' = v /\ Len(given') = m /\ Len(given') + Len(batch') = m
  <2>1. v \o <<>> = v
    <3> HIDE DEF v
    <3>1. QED BY <1>5, ConcatEmptySeq
  <2>2. Len(batch') = 0 /\ Len(v) \in Nat
    <3> HIDE DEF v
    <3>1. QED BY <1>1, <1>5, LenProperties
  <2> HIDE DEF v, m
  <2>3. QED BY <1>1, <1>5, <2>1, <2>2
<1>9. LexerAt' = LexerAt
  BY <1>1 DEF LexerAt
<1> HIDE DEF v, m
<1>10. Tracked(d)'
  <2>1. Tracked(d)' <=>
          /\ lexer'.phase = "name" => lexer'.keys = {}
          /\ Traces(d, given' \o batch', Len(given') + Len(batch'))
          /\ ~finished' => d[Len(given') + Len(batch')] = LexerAt'
          /\ finished' => batch' = <<>> /\ d[Len(given')].phase = "ended"
    BY DEF Tracked
  <2>2. QED BY <1>1, <1>3, <1>7, <1>8, <1>9, <2>1
<1>11. QED BY <1>7, <1>10 DEF v, m

---------------------------------------------------------------------------
(* Deltas of calls put together.                                           *)

Deltas == [index : Nat, id : Nat, name : Name, arguments : Jsons]

\* The first element is about the call idx; no element is.
FirstAt(s, idx, i) ==
  /\ i \in 1 .. Len(s) /\ s[i].index = idx
  /\ \A j \in 1 .. i - 1 : s[j].index # idx

Lacks(s, idx) == \A i \in 1 .. Len(s) : s[i].index # idx

\* A call is in some deltas, or not.
LEMMA LacksOrFirst ==
  ASSUME NEW s \in Seq(Deltas), NEW idx
  PROVE  Lacks(s, idx) \/ \E i : FirstAt(s, idx, i)
<1> DEFINE I == {i \in 1 .. Len(s) : s[i].index = idx}
<1>1. Len(s) \in Nat
  BY LenProperties
<1>2. CASE I = {}
  BY <1>2 DEF Lacks
<1>3. CASE I # {}
  <2>1. I \in SUBSET Nat
    BY <1>1
  <2> HIDE DEF I
  <2>2. PICK i \in I : \A k \in I : i <= k
    BY <1>3, <2>1, LeastNat
  <2>3. ASSUME NEW j \in 1 .. i - 1 PROVE s[j].index # idx
    <3>1. i \in 1 .. Len(s)
      BY <2>2 DEF I
    <3>2. j \in 1 .. Len(s) /\ ~(i <= j)
      BY <1>1, <3>1
    <3>3. j \notin I
      BY <3>2, <2>2
    <3>4. QED BY <3>2, <3>3 DEF I
  <2>4. FirstAt(s, idx, i)
    BY <2>2, <2>3 DEF FirstAt, I
  <2>5. QED BY <2>4
<1>4. QED BY <1>2, <1>3

\* A delta takes in another one.
Joined(m, d) ==
  [index |-> m.index, id |-> IF m.id = NoId THEN d.id ELSE m.id,
   name |-> IF m.name = NoName THEN d.name ELSE m.name, arguments |-> Cat(m.arguments, d.arguments)]

IndexOf(s, d) == SelectInSeq(s, LAMBDA m : m.index = d.index)

\* MergeDelta, in parts.
LEMMA MergeIs ==
  ASSUME NEW s, NEW d
  PROVE  MergeDelta(s, d) =
           IF IndexOf(s, d) = 0 THEN Append(s, d)
           ELSE [s EXCEPT ![IndexOf(s, d)].id = IF @ = NoId THEN d.id ELSE @,
                          ![IndexOf(s, d)].name = IF @ = NoName THEN d.name ELSE @,
                          ![IndexOf(s, d)].arguments = @ \o d.arguments]
  BY Zenon DEF MergeDelta, IndexOf

\* Where a delta's call is.
LEMMA IndexFound ==
  ASSUME NEW s \in Seq(Deltas), NEW d
  PROVE  /\ Lacks(s, d.index) => IndexOf(s, d) = 0
         /\ \A i : FirstAt(s, d.index, i) => IndexOf(s, d) = i
<1> DEFINE I == {i \in 1 .. Len(s) : s[i].index = d.index}
<1>1. IndexOf(s, d) = IF I # {} THEN Min(I) ELSE 0
  BY DEF IndexOf, SelectInSeq
<1>2. Lacks(s, d.index) => I = {}
  BY DEF Lacks
<1>3. ASSUME NEW i, FirstAt(s, d.index, i) PROVE IndexOf(s, d) = i
  <2>1. Len(s) \in Nat /\ i \in 1 .. Len(s) /\ i \in I
    BY <1>3, LenProperties DEF FirstAt
  <2>2. I \in SUBSET (1 .. Len(s)) /\ I # {}
    BY <2>1
  <2>3. \A k \in I : i <= k
    <3>1. SUFFICES ASSUME NEW k \in I, ~(i <= k) PROVE FALSE
      OBVIOUS
    <3>2. k \in 1 .. i - 1 /\ s[k].index = d.index
      BY <2>1, <3>1
    <3>3. QED BY <3>2, <1>3 DEF FirstAt
  <2> HIDE DEF I
  <2>4. Min(I) \in I /\ \A x \in I : Min(I) <= x
    BY <2>1, <2>2, Ends
  <2> DEFINE m == Min(I)
  <2>5. m \in I /\ \A x \in I : m <= x
    BY <2>4
  <2> HIDE DEF m
  <2>6. m \in Nat /\ i \in Nat /\ m <= i /\ i <= m
    BY <2>1, <2>2, <2>3, <2>5
  <2>7. m = i
    BY <2>6
  <2>8. QED BY <1>1, <2>2, <2>7 DEF m
<1>4. QED BY <1>1, <1>2, <1>3

\* A delta that takes in another is one.
LEMMA JoinedFacts ==
  ASSUME NEW m \in Deltas, NEW d \in Deltas
  PROVE  /\ Joined(m, d) \in Deltas /\ Joined(m, d).index = m.index
         /\ [index |-> m.index, id |-> m.id, name |-> m.name, arguments |-> m.arguments] = m
         /\ m.arguments \in Jsons /\ d.arguments \in Jsons
<1>1. m.arguments \in Jsons /\ d.arguments \in Jsons
  BY DEF Deltas
<1>2. Cat(m.arguments, d.arguments) \in Jsons
  BY <1>1, CatFacts
<1>3. Joined(m, d) \in Deltas
  BY <1>2 DEF Deltas, Joined
<1>4. QED BY <1>1, <1>3 DEF Deltas, Joined

\* What is there of a call takes in what comes.
LEMMA MergeFirst ==
  ASSUME NEW s \in Seq(Deltas), NEW d \in Deltas, NEW i, FirstAt(s, d.index, i)
  PROVE  MergeDelta(s, d) = [s EXCEPT ![i] = Joined(s[i], d)]
<1>1. IndexOf(s, d) = i
  BY IndexFound
<1>2. i \in 1 .. Len(s) /\ i # 0 /\ s[i] \in Deltas /\ DOMAIN s = 1 .. Len(s)
  BY LenProperties, ElementOfSeq DEF FirstAt
<1> DEFINE m == s[i]
<1>3. m = [index |-> m.index, id |-> m.id, name |-> m.name, arguments |-> m.arguments]
  BY <1>2, JoinedFacts
<1> DEFINE t == [s EXCEPT ![i].id = IF @ = NoId THEN d.id ELSE @,
                          ![i].name = IF @ = NoName THEN d.name ELSE @,
                          ![i].arguments = @ \o d.arguments]
           x == [m EXCEPT !.id = IF @ = NoId THEN d.id ELSE @,
                          !.name = IF @ = NoName THEN d.name ELSE @,
                          !.arguments = @ \o d.arguments]
<1>4. MergeDelta(s, d) = t
  BY <1>1, <1>2, MergeIs
<1>5. t = [s EXCEPT ![i] = x]
  BY <1>2
<1>6. x = Joined(m, d)
  <2> HIDE DEF m
  <2>1. x = [index |-> m.index, id |-> IF m.id = NoId THEN d.id ELSE m.id,
             name |-> IF m.name = NoName THEN d.name ELSE m.name,
             arguments |-> m.arguments \o d.arguments]
    <3> DEFINE v == m.arguments \o d.arguments
    <3>1. DOMAIN m = {"index", "id", "name", "arguments"}
      BY <1>3
    <3>2. x = [m EXCEPT !.id = IF m.id = NoId THEN d.id ELSE m.id,
                        !.name = IF m.name = NoName THEN d.name ELSE m.name,
                        !.arguments = v]
      BY <3>1
    <3> HIDE DEF v, x
    <3>3. x = [index |-> m.index, id |-> IF m.id = NoId THEN d.id ELSE m.id,
               name |-> IF m.name = NoName THEN d.name ELSE m.name, arguments |-> v]
      BY <3>1, <3>2
    <3>4. QED BY <3>3 DEF v
  <2>2. QED BY <2>1, Zenon DEF Joined, Cat
<1> HIDE DEF t, x
<1>7. QED BY <1>4, <1>5, <1>6

\* A delta of a new call comes behind the others.
LEMMA MergeNew ==
  ASSUME NEW s \in Seq(Deltas), NEW d \in Deltas, Lacks(s, d.index)
  PROVE  MergeDelta(s, d) = Append(s, d)
<1>1. IndexOf(s, d) = 0
  BY IndexFound
<1>2. QED BY <1>1, MergeIs

\* An element replaced.
LEMMA Replaced ==
  ASSUME NEW s \in Seq(Deltas), NEW i \in 1 .. Len(s), NEW x \in Deltas
  PROVE  LET t == [s EXCEPT ![i] = x]
         IN  /\ t \in Seq(Deltas) /\ Len(t) = Len(s) /\ t[i] = x
             /\ \A j \in 1 .. Len(s) : j # i => t[j] = s[j]
<1> DEFINE t == [s EXCEPT ![i] = x]
<1>1. /\ [s EXCEPT ![i] = x] \in Seq(Deltas) /\ Len([s EXCEPT ![i] = x]) = Len(s)
      /\ \A j \in 1 .. Len(s) : [s EXCEPT ![i] = x][j] = IF j = i THEN x ELSE s[j]
  BY ExceptSeq, SMTT(20)
<1>2. t \in Seq(Deltas) /\ Len(t) = Len(s)
      /\ \A j \in 1 .. Len(s) : t[j] = IF j = i THEN x ELSE s[j]
  BY <1>1
<1> HIDE DEF t
<1>3. QED BY <1>2 DEF t

\* Deltas that take in another one are deltas.
LEMMA MergeType ==
  ASSUME NEW s \in Seq(Deltas), NEW d \in Deltas
  PROVE  MergeDelta(s, d) \in Seq(Deltas)
<1>1. CASE Lacks(s, d.index)
  BY <1>1, MergeNew, AppendProperties
<1>2. ASSUME NEW i, FirstAt(s, d.index, i) PROVE MergeDelta(s, d) \in Seq(Deltas)
  <2>1. i \in 1 .. Len(s) /\ s[i] \in Deltas
    BY <1>2, ElementOfSeq DEF FirstAt
  <2>2. Joined(s[i], d) \in Deltas
    BY <2>1, JoinedFacts
  <2> DEFINE x == Joined(s[i], d)
  <2>3. MergeDelta(s, d) = [s EXCEPT ![i] = x]
    BY <1>2, MergeFirst
  <2> HIDE DEF x
  <2>4. [s EXCEPT ![i] = x] \in Seq(Deltas)
    BY <2>1, <2>2, Replaced DEF x
  <2>5. QED BY <2>3, <2>4
<1>3. QED BY <1>1, <1>2, LacksOrFirst

\* Two deltas of a call may be joined before.
LEMMA MergeTwice ==
  ASSUME NEW s \in Seq(Deltas), NEW m \in Deltas, NEW d \in Deltas, m.index = d.index
  PROVE  MergeDelta(s, Joined(m, d)) = MergeDelta(MergeDelta(s, m), d)
<1> DEFINE x == Joined(m, d)
<1>1. x \in Deltas /\ x.index = m.index
  BY JoinedFacts
<1> HIDE DEF x
<1>2. CASE Lacks(s, m.index)
  <2> DEFINE t == Append(s, m)
             n == Len(s) + 1
  <2>1. MergeDelta(s, x) = Append(s, x) /\ MergeDelta(s, m) = t
    BY <1>1, <1>2, MergeNew
  <2>2. /\ t \in Seq(Deltas) /\ Len(t) = n /\ t[n] = m /\ Len(s) \in Nat
        /\ \A j \in 1 .. Len(s) : t[j] = s[j]
    BY LenProperties, AppendProperties
  <2> HIDE DEF t
  <2>3. FirstAt(t, d.index, n)
    <3>1. n \in 1 .. Len(t)
      BY <2>2
    <3>2. ASSUME NEW j \in 1 .. n - 1 PROVE t[j].index # d.index
      <4>1. j \in 1 .. Len(s)
        BY <2>2
      <4>2. t[j] = s[j] /\ s[j].index # m.index
        BY <1>2, <2>2, <4>1 DEF Lacks
      <4>3. QED BY <4>2
    <3>3. t[n].index = d.index
      BY <2>2
    <3> HIDE DEF n
    <3>4. QED BY <3>1, <3>2, <3>3 DEF FirstAt
  <2>4. MergeDelta(t, d) = [t EXCEPT ![n] = Joined(t[n], d)]
    <3> HIDE DEF n
    <3>1. QED BY <2>2, <2>3, MergeFirst
  <2>5. [t EXCEPT ![n] = x] = Append(s, x)
    <3> DEFINE a == [t EXCEPT ![n] = x]
               b == Append(s, x)
    <3>1. n \in 1 .. Len(t)
      BY <2>2
    <3>2. /\ a \in Seq(Deltas) /\ Len(a) = n /\ a[n] = x
          /\ \A j \in 1 .. n : j # n => a[j] = t[j]
      <4> HIDE DEF n
      <4>1. QED BY <1>1, <2>2, <3>1, Replaced
    <3>3. /\ b \in Seq(Deltas) /\ Len(b) = n /\ b[n] = x
          /\ \A j \in 1 .. Len(s) : b[j] = s[j]
      BY <1>1, AppendProperties
    <3> HIDE DEF a, b
    <3>4. \A j \in 1 .. n : a[j] = b[j]
      <4>1. SUFFICES ASSUME NEW j \in 1 .. n PROVE a[j] = b[j]
        OBVIOUS
      <4>2. CASE j = n
        BY <4>2, <3>2, <3>3
      <4>3. CASE j # n
        <5>1. j \in 1 .. Len(s)
          BY <2>2, <4>3
        <5>2. QED BY <5>1, <4>3, <2>2, <3>2, <3>3
      <4>4. QED BY <4>2, <4>3
    <3>5. a = b
      BY <3>2, <3>3, <3>4, SeqEqual
    <3>6. QED BY <3>5 DEF a, b
  <2>6. Joined(t[n], d) = x
    BY <2>2 DEF x
  <2>7. QED BY <2>1, <2>4, <2>5, <2>6 DEF x
<1>3. ASSUME NEW i, FirstAt(s, m.index, i)
      PROVE  MergeDelta(s, Joined(m, d)) = MergeDelta(MergeDelta(s, m), d)
  <2> DEFINE y == Joined(s[i], m)
             t == [s EXCEPT ![i] = y]
             z == Joined(s[i], x)
  <2>1. i \in 1 .. Len(s) /\ s[i] \in Deltas
    BY <1>3, ElementOfSeq DEF FirstAt
  <2>2. MergeDelta(s, m) = t
    BY <1>3, MergeFirst
  <2>3. MergeDelta(s, x) = [s EXCEPT ![i] = z]
    BY <1>1, <1>3, MergeFirst
  <2>4. y \in Deltas /\ y.index = m.index
    <3>1. y \in Deltas /\ y.index = s[i].index
      BY <2>1, JoinedFacts
    <3> HIDE DEF y
    <3>2. QED BY <3>1, <1>3 DEF FirstAt
  <2> HIDE DEF y
  <2>5. t \in Seq(Deltas) /\ Len(t) = Len(s) /\ t[i] = y /\ \A j \in 1 .. Len(s) : j # i => t[j] = s[j]
    BY <2>1, <2>4, Replaced
  <2>6. [t EXCEPT ![i] = z] = [s EXCEPT ![i] = z]
    <3> HIDE DEF z
    <3>1. QED BY DEF t
  <2> HIDE DEF t
  <2>7. FirstAt(t, d.index, i)
    <3>1. ASSUME NEW j \in 1 .. i - 1 PROVE t[j].index # d.index
      <4>1. j \in 1 .. Len(s) /\ j # i /\ j \in 1 .. i - 1
        BY <2>1
      <4>2. s[j].index # m.index
        BY <4>1, <1>3 DEF FirstAt
      <4>3. QED BY <4>1, <4>2, <2>5
    <3>2. QED BY <2>1, <2>4, <2>5, <3>1 DEF FirstAt
  <2>8. MergeDelta(t, d) = [t EXCEPT ![i] = Joined(y, d)]
    BY <2>5, <2>7, MergeFirst
  <2>9. Joined(y, d) = z
    <3> DEFINE a == s[i].arguments
               b == m.arguments
               c == d.arguments
    <3>1. a \in Jsons /\ b \in Jsons /\ c \in Jsons
      BY <2>1, JoinedFacts
    <3> HIDE DEF a, b, c
    <3>2. Cat(Cat(a, b), c) = Cat(a, Cat(b, c))
      BY <3>1, CatFacts
    <3>3. Joined(y, d) =
            [index |-> s[i].index,
             id |-> IF s[i].id = NoId THEN IF m.id = NoId THEN d.id ELSE m.id ELSE s[i].id,
             name |-> IF s[i].name = NoName THEN IF m.name = NoName THEN d.name ELSE m.name ELSE s[i].name,
             arguments |-> Cat(Cat(a, b), c)]
      <4> DEFINE k == s[i]
      <4> HIDE DEF k
      <4>1. Joined(Joined(k, m), d) =
            [index |-> k.index,
             id |-> IF k.id = NoId THEN IF m.id = NoId THEN d.id ELSE m.id ELSE k.id,
             name |-> IF k.name = NoName THEN IF m.name = NoName THEN d.name ELSE m.name ELSE k.name,
             arguments |-> Cat(Cat(k.arguments, m.arguments), d.arguments)]
        BY DEF Joined
      <4>2. QED BY <4>1 DEF y, a, b, c, k
    <3>4. z =
            [index |-> s[i].index,
             id |-> IF s[i].id = NoId THEN IF m.id = NoId THEN d.id ELSE m.id ELSE s[i].id,
             name |-> IF s[i].name = NoName THEN IF m.name = NoName THEN d.name ELSE m.name ELSE s[i].name,
             arguments |-> Cat(a, Cat(b, c))]
      <4> DEFINE k == s[i]
      <4> HIDE DEF k
      <4>1. Joined(k, Joined(m, d)) =
            [index |-> k.index,
             id |-> IF k.id = NoId THEN IF m.id = NoId THEN d.id ELSE m.id ELSE k.id,
             name |-> IF k.name = NoName THEN IF m.name = NoName THEN d.name ELSE m.name ELSE k.name,
             arguments |-> Cat(k.arguments, Cat(m.arguments, d.arguments))]
        BY DEF Joined
      <4>2. QED BY <4>1 DEF x, a, b, c, k
    <3> HIDE DEF z
    <3>5. QED BY <3>2, <3>3, <3>4
  <2>10. MergeDelta(s, Joined(m, d)) = MergeDelta(s, x)
    BY DEF x
  <2> HIDE DEF z
  <2>11. QED BY <2>2, <2>3, <2>6, <2>8, <2>9, <2>10
<1>4. QED BY <1>2, <1>3, LacksOrFirst

\* One more delta.
LEMMA CoalesceAppend ==
  ASSUME NEW s \in Seq(Deltas), NEW d \in Deltas
  PROVE  Coalesce(Append(s, d)) = MergeDelta(Coalesce(s), d)
<1> DEFINE n == Len(s)
           t == Append(s, d)
<1>1. /\ n \in Nat /\ n + 1 \in Nat /\ DOMAIN s = 1 .. n
      /\ t \in Seq(Deltas) /\ DOMAIN t = 1 .. n + 1
  BY LenProperties, AppendProperties
<1>2. HasLoop("deltas", <<>>, s, Len(s), Coalesce(s))
  BY <1>1, DeltaSteps DEF Coalesce
<1>3. HasLoop("deltas", <<>>, Append(s, d), Len(s) + 1, Coalesce(Append(s, d)))
  BY <1>1, DeltaSteps DEF Coalesce
<1>4. Coalesce(Append(s, d)) = Step("deltas", Coalesce(s), d)
  BY <1>2, <1>3, LoopAppend
<1>5. QED BY <1>4, StepIs

\* No deltas.
LEMMA CoalesceNothing == Coalesce(<<>>) = <<>>
<1>1. DOMAIN <<>> = 1 .. 0 /\ 0 \in Nat
  OBVIOUS
<1>2. HasLoop("deltas", <<>>, <<>>, 0, Coalesce(<<>>))
  BY <1>1, DeltaSteps DEF Coalesce
<1>3. QED BY <1>2 DEF HasLoop, IsLoop

\* Deltas put together are deltas.
LEMMA CoalesceType == ASSUME NEW s \in Seq(Deltas) PROVE Coalesce(s) \in Seq(Deltas)
<1> DEFINE S == {x \in Seq(Deltas) : Coalesce(x) \in Seq(Deltas)}
<1>1. <<>> \in Seq(Deltas) /\ <<>> \in S
  <2>1. <<>> \in Seq(Deltas)
    OBVIOUS
  <2>2. Coalesce(<<>>) \in Seq(Deltas)
    BY <2>1, CoalesceNothing, Zenon
  <2>3. QED BY <2>1, <2>2
<1>2. ASSUME NEW x \in Seq(Deltas), NEW i \in 1 .. Len(s), x \in S
      PROVE  Append(x, s[i]) \in S
  <2> DEFINE d == s[i]
  <2>1. d \in Deltas
    BY ElementOfSeq
  <2> HIDE DEF d
  <2>2. Append(x, d) \in Seq(Deltas)
    BY <2>1, AppendProperties
  <2>3. Coalesce(Append(x, d)) \in Seq(Deltas)
    BY <1>2, <2>1, CoalesceAppend, MergeType
  <2>4. QED BY <2>2, <2>3 DEF d
<1>3. <<>> \o s \in S
  <2> HIDE DEF S
  <2>1. QED BY <1>1, <1>2, ByPrefixes
<1>4. <<>> \o s = s
  BY ConcatEmptySeq
<1>5. QED BY <1>3, <1>4

\* The calls come in order; none is after n.
Ascending(s) == \A i, j \in 1 .. Len(s) : i < j => s[i].index < s[j].index
Within(s, n) == \A i \in 1 .. Len(s) : s[i].index <= n

\* Deltas of different calls, in order, stay as they are.
LEMMA CoalesceSame ==
  ASSUME NEW s \in Seq(Deltas), Ascending(s) PROVE Coalesce(s) = s
<1> DEFINE S == {x \in Seq(Deltas) : Coalesce(x) = x}
<1>1. <<>> \in Seq(Deltas) /\ <<>> \in S
  BY CoalesceNothing
<1>2. ASSUME NEW x \in Seq(Deltas), NEW i \in 1 .. Len(s), x = <<>> \o SubSeq(s, 1, i - 1), x \in S
      PROVE  Append(x, s[i]) \in S
  <2> DEFINE d == s[i]
  <2>1. d \in Deltas /\ Len(s) \in Nat /\ i - 1 \in 0 .. Len(s)
    BY ElementOfSeq, LenProperties
  <2>2. x = SubSeq(s, 1, i - 1) /\ Len(x) = i - 1 /\ \A k \in 1 .. i - 1 : x[k] = s[k]
    <3> DEFINE k == i - 1
    <3>1. k \in 0 .. Len(s)
      BY <2>1
    <3> HIDE DEF k
    <3>2. /\ SubSeq(s, 1, k) \in Seq(Deltas) /\ Len(SubSeq(s, 1, k)) = k
          /\ \A j \in 1 .. k : SubSeq(s, 1, k)[j] = s[j]
      BY <3>1, CutInTwo
    <3>3. <<>> \o SubSeq(s, 1, k) = SubSeq(s, 1, k)
      BY <3>2, ConcatEmptySeq
    <3>4. x = <<>> \o SubSeq(s, 1, k)
      BY <1>2 DEF k
    <3>5. x = SubSeq(s, 1, k)
      BY <3>3, <3>4, Zenon
    <3>6. QED BY <3>2, <3>5 DEF k
  <2>3. Lacks(x, d.index)
    <3>1. SUFFICES ASSUME NEW k \in 1 .. Len(x) PROVE x[k].index # d.index
      BY DEF Lacks
    <3>2. k \in 1 .. i - 1 /\ k \in 1 .. Len(s) /\ k < i
      BY <2>1, <2>2
    <3>3. x[k] = s[k] /\ s[k].index < s[i].index
      BY <2>2, <3>2 DEF Ascending
    <3>4. s[k] \in Deltas
      BY <3>2, ElementOfSeq
    <3>5. s[k].index \in Nat /\ d.index \in Nat
      BY <2>1, <3>4 DEF Deltas
    <3>6. QED BY <3>3, <3>5
  <2> HIDE DEF d
  <2>4. Append(x, d) \in Seq(Deltas)
    BY <2>1, AppendProperties
  <2>5. Coalesce(Append(x, d)) = MergeDelta(x, d) /\ MergeDelta(x, d) = Append(x, d)
    BY <1>2, <2>1, <2>3, CoalesceAppend, MergeNew
  <2>6. QED BY <2>4, <2>5 DEF d
<1>3. <<>> \o s \in S
  <2> HIDE DEF S
  <2>1. QED BY <1>1, <1>2, ByPrefixes
<1>4. <<>> \o s = s
  BY ConcatEmptySeq
<1>5. QED BY <1>3, <1>4

\* In deltas in order, only the last one is of the last call.
LEMMA LastOnly ==
  ASSUME NEW s \in Seq(Deltas), Ascending(s), NEW n \in Nat, Within(s, n), NEW i, FirstAt(s, n, i)
  PROVE  i = Len(s) /\ i \in 1 .. Len(s)
<1>1. Len(s) \in Nat /\ i \in 1 .. Len(s) /\ s[i].index = n
  BY LenProperties DEF FirstAt
<1>2. SUFFICES ASSUME i # Len(s) PROVE FALSE
  BY <1>1
<1>3. Len(s) \in 1 .. Len(s) /\ i < Len(s)
  BY <1>1, <1>2
<1>4. s[i].index < s[Len(s)].index /\ s[Len(s)].index <= n
  BY <1>1, <1>3 DEF Ascending, Within
<1>5. s[Len(s)] \in Deltas
  BY <1>3, ElementOfSeq
<1>6. s[Len(s)].index \in Nat
  BY <1>5 DEF Deltas
<1>7. QED BY <1>1, <1>4, <1>6

\* The order is kept by a delta of the last call.
LEMMA MergeAscending ==
  ASSUME NEW s \in Seq(Deltas), Ascending(s), NEW d \in Deltas, Within(s, d.index)
  PROVE  Ascending(MergeDelta(s, d)) /\ Within(MergeDelta(s, d), d.index)
<1>1. /\ Len(s) \in Nat /\ d.index \in Nat
      /\ \A k \in 1 .. Len(s) : s[k].index \in Nat
  <2>1. \A k \in 1 .. Len(s) : s[k] \in Deltas
    BY ElementOfSeq
  <2>2. QED BY <2>1, LenProperties DEF Deltas
<1>2. CASE Lacks(s, d.index)
  <2> DEFINE t == Append(s, d)
             n == Len(s) + 1
  <2>1. MergeDelta(s, d) = t
    BY <1>2, MergeNew
  <2>2. Len(t) = n /\ t[n] = d /\ \A k \in 1 .. Len(s) : t[k] = s[k]
    BY AppendProperties
  <2> HIDE DEF t
  <2>3. \A k \in 1 .. Len(s) : s[k].index < d.index
    BY <1>1, <1>2 DEF Lacks, Within
  <2>4. ASSUME NEW i \in 1 .. n, NEW j \in 1 .. n, i < j PROVE t[i].index < t[j].index
    <3>1. i \in 1 .. Len(s)
      BY <1>1, <2>4
    <3>2. CASE j = n
      BY <3>1, <3>2, <2>2, <2>3
    <3>3. CASE j # n
      <4>1. j \in 1 .. Len(s)
        BY <1>1, <3>3
      <4>2. QED BY <3>1, <4>1, <2>2, <2>4 DEF Ascending
    <3>4. QED BY <3>2, <3>3
  <2>5. ASSUME NEW i \in 1 .. n PROVE t[i].index <= d.index
    <3>1. CASE i = n
      BY <3>1, <2>2, <1>1
    <3>2. CASE i # n
      <4>1. i \in 1 .. Len(s)
        BY <1>1, <3>2
      <4>2. QED BY <4>1, <2>2 DEF Within
    <3>3. QED BY <3>1, <3>2
  <2>6. Ascending(t) /\ Within(t, d.index)
    BY <2>2, <2>4, <2>5 DEF Ascending, Within
  <2>7. QED BY <2>1, <2>6
<1>3. ASSUME NEW i, FirstAt(s, d.index, i)
      PROVE  Ascending(MergeDelta(s, d)) /\ Within(MergeDelta(s, d), d.index)
  <2> DEFINE x == Joined(s[i], d)
             t == [s EXCEPT ![i] = x]
  <2>1. i \in 1 .. Len(s) /\ s[i] \in Deltas
    BY <1>3, ElementOfSeq DEF FirstAt
  <2>2. x \in Deltas /\ x.index = s[i].index
    BY <2>1, JoinedFacts
  <2>3. MergeDelta(s, d) = t
    BY <1>3, MergeFirst
  <2> HIDE DEF x
  <2>4. Len(t) = Len(s) /\ t[i] = x /\ \A j \in 1 .. Len(s) : j # i => t[j] = s[j]
    BY <2>1, <2>2, Replaced
  <2> HIDE DEF t
  <2>5. \A j \in 1 .. Len(s) : t[j].index = s[j].index
    BY <2>2, <2>4
  <2>6. Ascending(t) /\ Within(t, d.index)
    BY <2>4, <2>5 DEF Ascending, Within
  <2>7. QED BY <2>3, <2>6
<1>4. QED BY <1>2, <1>3, LacksOrFirst

\* A sequence is its elements but the last, and the last.
LEMMA LastCut ==
  ASSUME NEW s \in Seq(Deltas), s # <<>>
  PROVE  LET a == SubSeq(s, 1, Len(s) - 1)
         IN  /\ a \in Seq(Deltas) /\ Len(a) = Len(s) - 1 /\ s = Append(a, s[Len(s)])
             /\ s[Len(s)] \in Deltas /\ Len(s) \in 1 .. Len(s)
<1> DEFINE n == Len(s)
           a == SubSeq(s, 1, n - 1)
<1>1. n \in Nat /\ n # 0
  BY LenProperties, EmptySeq
<1>2. n \in 1 .. n /\ n - 1 \in 0 .. n /\ 1 \in 1 .. n
  BY <1>1
<1>3. s[n] \in Deltas
  BY <1>2, ElementOfSeq
<1>4. a \in Seq(Deltas) /\ Len(a) = n - 1
  BY <1>2, CutInTwo
<1>5. SubSeq(s, 1, n) = a \o <<s[n]>>
  BY <1>2, SubSeqRecursiveSecond
<1>6. SubSeq(s, 1, n) = s
  BY SubSeqFull
<1> DEFINE x == s[n]
<1> HIDE DEF a, x
<1>7. Append(a, x) = a \o <<x>>
  BY <1>3, <1>4, AppendIsConcat DEF x
<1>8. s = Append(a, x)
  BY <1>5, <1>6, <1>7, Zenon DEF x
<1>9. QED BY <1>2, <1>3, <1>4, <1>8 DEF a, x

\* A delta of the last call can be taken in before or after.
LEMMA CoalesceLater ==
  ASSUME NEW c \in Seq(Deltas), NEW s \in Seq(Deltas), Ascending(s),
         NEW d \in Deltas, Within(s, d.index)
  PROVE  Coalesce(c \o MergeDelta(s, d)) = MergeDelta(Coalesce(c \o s), d)
<1>1. c \o s \in Seq(Deltas)
  BY JoinedAt
<1>2. CASE Lacks(s, d.index)
  <2>1. MergeDelta(s, d) = Append(s, d)
    BY <1>2, MergeNew
  <2>2. c \o Append(s, d) = Append(c \o s, d)
    BY AppendBehind
  <2> DEFINE x == c \o s
  <2>3. x \in Seq(Deltas) /\ c \o MergeDelta(s, d) = Append(x, d)
    BY <1>1, <2>1, <2>2
  <2> HIDE DEF x
  <2>4. Coalesce(Append(x, d)) = MergeDelta(Coalesce(x), d)
    BY <2>3, CoalesceAppend
  <2>5. QED BY <2>3, <2>4 DEF x
<1>3. ASSUME NEW i, FirstAt(s, d.index, i)
      PROVE  Coalesce(c \o MergeDelta(s, d)) = MergeDelta(Coalesce(c \o s), d)
  <2> DEFINE n == Len(s)
             a == SubSeq(s, 1, n - 1)
             m == s[n]
             y == Joined(m, d)
  <2>1. d.index \in Nat
    BY DEF Deltas
  <2>2. i = n /\ i \in 1 .. n
    BY <1>3, <2>1, LastOnly
  <2>3. s # <<>>
    BY <2>2
  <2>4. a \in Seq(Deltas) /\ Len(a) = n - 1 /\ s = Append(a, m) /\ m \in Deltas /\ n \in Nat
    BY <2>3, LastCut, LenProperties
  <2>5. MergeDelta(s, d) = [s EXCEPT ![n] = y] /\ m.index = d.index
    BY <1>3, <2>2, MergeFirst DEF FirstAt
  <2>6. y \in Deltas
    BY <2>4, JoinedFacts
  <2> HIDE DEF a, m, y
  <2>7. [s EXCEPT ![n] = y] = Append(a, y)
    <3> DEFINE t == [s EXCEPT ![n] = y]
               u == Append(a, y)
    <3>1. /\ t \in Seq(Deltas) /\ Len(t) = n /\ t[n] = y
          /\ \A j \in 1 .. n : j # n => t[j] = s[j]
      BY <2>2, <2>6, Replaced
    <3>2. u \in Seq(Deltas) /\ Len(u) = n /\ u[n] = y /\ \A j \in 1 .. n - 1 : u[j] = a[j]
      <4>1. /\ u \in Seq(Deltas) /\ Len(u) = Len(a) + 1 /\ u[Len(a) + 1] = y
            /\ \A j \in 1 .. Len(a) : u[j] = a[j]
        BY <2>4, <2>6, AppendProperties
      <4>2. Len(a) + 1 = n
        BY <2>4
      <4> HIDE DEF u
      <4>3. QED BY <4>1, <4>2, <2>4
    <3>3. \A j \in 1 .. n - 1 : s[j] = a[j]
      <4>1. \A j \in 1 .. Len(a) : Append(a, m)[j] = a[j]
        BY <2>4, AppendProperties
      <4> HIDE DEF n
      <4>2. QED BY <4>1, <2>4
    <3> HIDE DEF t, u
    <3>4. \A j \in 1 .. n : t[j] = u[j]
      <4>1. SUFFICES ASSUME NEW j \in 1 .. n PROVE t[j] = u[j]
        OBVIOUS
      <4>2. CASE j = n
        BY <4>2, <3>1, <3>2
      <4>3. CASE j # n
        <5>1. j \in 1 .. n - 1
          BY <4>3, <2>4
        <5>2. QED BY <5>1, <4>3, <3>1, <3>2, <3>3
      <4>4. QED BY <4>2, <4>3
    <3>5. t = u
      BY <3>1, <3>2, <3>4, SeqEqual
    <3>6. QED BY <3>5 DEF t, u
  <2> DEFINE x == c \o a
             z == Coalesce(x)
  <2>8. x \in Seq(Deltas)
    BY <2>4, JoinedAt
  <2>9. c \o Append(a, y) = Append(x, y) /\ c \o Append(a, m) = Append(x, m)
    BY <2>4, <2>6, AppendBehind
  <2> HIDE DEF x
  <2>10. z \in Seq(Deltas)
    BY <2>8, CoalesceType
  <2>11. Coalesce(Append(x, y)) = MergeDelta(z, y) /\ Coalesce(Append(x, m)) = MergeDelta(z, m)
    BY <2>4, <2>6, <2>8, CoalesceAppend
  <2> HIDE DEF z
  <2>12. MergeDelta(z, y) = MergeDelta(MergeDelta(z, m), d)
    BY <2>4, <2>5, <2>10, MergeTwice DEF y
  <2>13. Coalesce(c \o Append(a, y)) = MergeDelta(Coalesce(c \o Append(a, m)), d)
    BY <2>9, <2>11, <2>12
  <2> HIDE DEF n
  <2>14. MergeDelta(s, d) = Append(a, y)
    BY <2>5, <2>7
  <2>15. QED BY <2>4, <2>13, <2>14
<1>4. QED BY <1>2, <1>3, LacksOrFirst

---------------------------------------------------------------------------
(* What the client has of the calls, and the slots.                        *)

\* What the client has of a call is what was sent of its slot.
ShowsSlot(c, slot) ==
  /\ slot.name_sent /\ c.id = slot.id /\ c.name = slot.name
  /\ c.arguments = slot.streamed_json

\* The client has the calls whose names were sent, in their order.
Shows(calls, slots) ==
  /\ calls \in Seq(Deltas) /\ Ascending(calls)
  /\ \A k \in 1 .. Len(calls) :
       calls[k].index \in DOMAIN slots /\ ShowsSlot(calls[k], slots[calls[k].index])
  /\ \A i \in DOMAIN slots : slots[i].name_sent => ~Lacks(calls, i)

\* Slots that change in nothing the client has.
LEMMA ShowsStill ==
  ASSUME NEW calls, NEW s, NEW t, Shows(calls, s), DOMAIN s \subseteq DOMAIN t,
         \A i \in DOMAIN s : /\ t[i].name_sent <=> s[i].name_sent
                             /\ s[i].name_sent => /\ t[i].id = s[i].id /\ t[i].name = s[i].name
                                                  /\ t[i].streamed_json = s[i].streamed_json,
         \A i \in DOMAIN t : i \notin DOMAIN s => ~t[i].name_sent
  PROVE  Shows(calls, t)
<1>1. \A k \in 1 .. Len(calls) :
        calls[k].index \in DOMAIN t /\ ShowsSlot(calls[k], t[calls[k].index])
  BY DEF Shows, ShowsSlot
<1>2. \A i \in DOMAIN t : t[i].name_sent => ~Lacks(calls, i)
  BY DEF Shows
<1>3. QED BY <1>1, <1>2 DEF Shows

\* One slot is replaced.
LEMMA SlotReplaced ==
  ASSUME NEW s, NEW n, n \in DOMAIN s, NEW t
  PROVE  LET r == [s EXCEPT ![n] = t]
         IN  DOMAIN r = DOMAIN s /\ r[n] = t /\ \A i \in DOMAIN s : i # n => r[i] = s[i]
  OBVIOUS

\* More arguments of the last call are sent.
LEMMA ShowsMore ==
  ASSUME NEW calls, NEW s, NEW n \in Nat, n # 0, DOMAIN s = 1 .. n, Shows(calls, s), s[n].name_sent,
         NEW x \in Jsons, NEW t, t.name_sent, t.id = s[n].id, t.name = s[n].name,
         t.streamed_json = Cat(s[n].streamed_json, x), NEW d \in Deltas,
         d.index = n, d.id = NoId, d.name = NoName, d.arguments = x
  PROVE  Shows(MergeDelta(calls, d), [s EXCEPT ![n] = t])
<1> DEFINE r == [s EXCEPT ![n] = t]
<1>1. n \in DOMAIN s
  OBVIOUS
<1>2. DOMAIN r = DOMAIN s /\ r[n] = t /\ \A i \in DOMAIN s : i # n => r[i] = s[i]
  BY <1>1, SlotReplaced
<1> HIDE DEF r
<1>3. calls \in Seq(Deltas) /\ Ascending(calls) /\ Len(calls) \in Nat
  BY LenProperties DEF Shows
<1>4. PICK i : FirstAt(calls, n, i)
  BY <1>1, <1>3, LacksOrFirst DEF Shows
<1>5. Within(calls, n)
  BY DEF Shows, Within
<1>6. i = Len(calls) /\ i \in 1 .. Len(calls)
  BY <1>3, <1>4, <1>5, LastOnly
<1> DEFINE c == calls[i]
           y == Joined(c, d)
           v == [calls EXCEPT ![i] = y]
<1>7. c \in Deltas /\ c.index = n
  BY <1>3, <1>4, <1>6, ElementOfSeq DEF FirstAt
<1>8. MergeDelta(calls, d) = v
  BY <1>3, <1>4, MergeFirst
<1>9. y \in Deltas /\ y.index = n
  BY <1>7, JoinedFacts
<1>10. ShowsSlot(c, s[n])
  BY <1>6, <1>7 DEF Shows
<1>11. ShowsSlot(y, t)
  <2>1. y.id = c.id /\ y.name = c.name /\ y.arguments = Cat(c.arguments, x)
    <3> HIDE DEF c
    <3>1. y = [index |-> c.index, id |-> IF c.id = NoId THEN NoId ELSE c.id,
               name |-> IF c.name = NoName THEN NoName ELSE c.name,
               arguments |-> Cat(c.arguments, x)]
      BY DEF Joined
    <3> HIDE DEF y
    <3>2. QED BY <3>1
  <2> HIDE DEF c, y
  <2>2. QED BY <1>10, <2>1 DEF ShowsSlot
<1> HIDE DEF y, c
<1>12. /\ v \in Seq(Deltas) /\ Len(v) = Len(calls) /\ v[i] = y
       /\ \A j \in 1 .. Len(calls) : j # i => v[j] = calls[j]
  BY <1>3, <1>6, <1>9, Replaced
<1> HIDE DEF v
<1>13. Ascending(v)
  <2>1. Ascending(MergeDelta(calls, d))
    BY <1>3, <1>5, MergeAscending
  <2>2. QED BY <2>1, <1>8
<1>14. \A k \in 1 .. Len(v) : v[k].index \in DOMAIN r /\ ShowsSlot(v[k], r[v[k].index])
  <2>1. SUFFICES ASSUME NEW k \in 1 .. Len(v)
                 PROVE  v[k].index \in DOMAIN r /\ ShowsSlot(v[k], r[v[k].index])
    OBVIOUS
  <2>2. CASE k = i
    BY <2>2, <1>1, <1>2, <1>9, <1>11, <1>12
  <2>3. CASE k # i
    <3>1. v[k] = calls[k] /\ k \in 1 .. Len(calls)
      BY <2>3, <1>12
    <3>2. calls[k].index \in DOMAIN s /\ ShowsSlot(calls[k], s[calls[k].index])
      BY <3>1 DEF Shows
    <3>3. calls[k].index # n
      <4>1. k < i
        BY <1>3, <1>6, <3>1, <2>3
      <4>2. k \in 1 .. i - 1
        BY <4>1, <1>6, <1>3, <3>1
      <4>3. QED BY <4>2, <1>4 DEF FirstAt
    <3>4. QED BY <3>1, <3>2, <3>3, <1>2
  <2>4. QED BY <2>2, <2>3
<1>15. \A k \in DOMAIN r : r[k].name_sent => ~Lacks(v, k)
  <2>1. SUFFICES ASSUME NEW k \in DOMAIN r, r[k].name_sent PROVE ~Lacks(v, k)
    OBVIOUS
  <2>2. CASE k = n
    BY <2>2, <1>6, <1>9, <1>12 DEF Lacks
  <2>3. CASE k # n
    <3>1. s[k].name_sent /\ k \in DOMAIN s
      BY <1>2, <2>1, <2>3
    <3>2. PICK j \in 1 .. Len(calls) : calls[j].index = k
      BY <3>1 DEF Shows, Lacks
    <3>3. j # i
      BY <3>2, <2>3, <1>7 DEF c
    <3>4. QED BY <3>2, <3>3, <1>12 DEF Lacks
  <2>4. QED BY <2>2, <2>3
<1>16. Shows(v, r)
  BY <1>12, <1>13, <1>14, <1>15 DEF Shows
<1>17. QED BY <1>8, <1>16 DEF r

\* The name of the last call is sent.
LEMMA ShowsName ==
  ASSUME NEW calls, NEW s, NEW n \in Nat, n # 0, DOMAIN s = 1 .. n, Shows(calls, s), ~s[n].name_sent,
         NEW t, t.name_sent, NEW d \in Deltas,
         d.index = n, d.id = t.id, d.name = t.name, d.arguments = t.streamed_json
  PROVE  Shows(MergeDelta(calls, d), [s EXCEPT ![n] = t])
<1> DEFINE r == [s EXCEPT ![n] = t]
           v == Append(calls, d)
           m == Len(calls) + 1
<1>1. n \in DOMAIN s
  OBVIOUS
<1>2. DOMAIN r = DOMAIN s /\ r[n] = t /\ \A i \in DOMAIN s : i # n => r[i] = s[i]
  BY <1>1, SlotReplaced
<1> HIDE DEF r
<1>3. calls \in Seq(Deltas) /\ Ascending(calls) /\ Len(calls) \in Nat
  BY LenProperties DEF Shows
<1>4. Lacks(calls, n) /\ Within(calls, n)
  BY DEF Shows, ShowsSlot, Lacks, Within
<1>5. MergeDelta(calls, d) = v
  BY <1>3, <1>4, MergeNew
<1>6. /\ v \in Seq(Deltas) /\ Len(v) = m /\ v[m] = d
      /\ \A j \in 1 .. Len(calls) : v[j] = calls[j]
  BY <1>3, AppendProperties
<1> HIDE DEF v
<1>7. Ascending(v)
  <2>1. Ascending(MergeDelta(calls, d))
    BY <1>3, <1>4, MergeAscending
  <2>2. QED BY <2>1, <1>5
<1>8. \A k \in 1 .. Len(v) : v[k].index \in DOMAIN r /\ ShowsSlot(v[k], r[v[k].index])
  <2>1. SUFFICES ASSUME NEW k \in 1 .. Len(v)
                 PROVE  v[k].index \in DOMAIN r /\ ShowsSlot(v[k], r[v[k].index])
    OBVIOUS
  <2>2. CASE k = m
    BY <2>2, <1>1, <1>2, <1>6 DEF ShowsSlot
  <2>3. CASE k # m
    <3>1. k \in 1 .. Len(calls)
      BY <2>3, <1>3, <1>6
    <3>2. v[k] = calls[k]
      BY <3>1, <1>6
    <3>3. calls[k].index \in DOMAIN s /\ ShowsSlot(calls[k], s[calls[k].index])
      BY <3>1 DEF Shows
    <3>4. calls[k].index # n
      BY <3>1, <1>4 DEF Lacks
    <3>5. QED BY <3>2, <3>3, <3>4, <1>2
  <2>4. QED BY <2>2, <2>3
<1>9. \A k \in DOMAIN r : r[k].name_sent => ~Lacks(v, k)
  <2>1. SUFFICES ASSUME NEW k \in DOMAIN r, r[k].name_sent PROVE ~Lacks(v, k)
    OBVIOUS
  <2>2. CASE k = n
    <3>1. m \in 1 .. Len(v)
      BY <1>3, <1>6
    <3> HIDE DEF m
    <3>2. QED BY <2>2, <3>1, <1>6 DEF Lacks
  <2>3. CASE k # n
    <3>1. s[k].name_sent /\ k \in DOMAIN s
      BY <1>2, <2>1, <2>3
    <3>2. PICK j \in 1 .. Len(calls) : calls[j].index = k
      BY <3>1 DEF Shows, Lacks
    <3>3. j \in 1 .. Len(v) /\ v[j].index = k
      BY <3>2, <1>3, <1>6
    <3>4. QED BY <3>3 DEF Lacks
  <2>4. QED BY <2>2, <2>3
<1>10. Shows(v, r)
  BY <1>6, <1>7, <1>8, <1>9 DEF Shows
<1>11. QED BY <1>5, <1>10 DEF r

---------------------------------------------------------------------------
(* What an event does to the slot of its call.                             *)

\* The slots, the ids given out and the deltas so far.
CallsAre(acc, s, cnt, ds) ==
  /\ IsAcc(acc) /\ acc.p.slots = s /\ acc.p.history_tool_call_cnt = cnt /\ acc.deltas = ds

\* The slot of a call with more of its name, its arguments, or of what was sent
\* of them; and with its name sent.
LongerName(slot, x) == [slot EXCEPT !.name = @ \o x]
LongerArgs(slot, x) == [slot EXCEPT !.args = @ \o x]
MoreSent(slot, x) == [slot EXCEPT !.streamed_json = @ \o x]
NamedSlot(slot, id) ==
  [slot EXCEPT !.name_sent = TRUE, !.string_keys = StringKeys(slot.name), !.id = id]

\* A slot is replaced.
LEMMA PutIs ==
  ASSUME NEW acc, NEW s, NEW cnt, NEW ds, CallsAre(acc, s, cnt, ds), NEW n, NEW slot,
         IsAcc([acc EXCEPT !.p.slots[n] = slot])
  PROVE  CallsAre([acc EXCEPT !.p.slots[n] = slot], [s EXCEPT ![n] = slot], cnt, ds)
<1> DEFINE t == [s EXCEPT ![n] = slot]
           p == [acc.p EXCEPT !.slots = t]
           b == [acc EXCEPT !.p = p]
<1>1. s = acc.p.slots /\ IsAcc(acc) /\ acc.p.history_tool_call_cnt = cnt /\ acc.deltas = ds
  BY DEF CallsAre
<1>2. b = [acc EXCEPT !.p.slots[n] = slot]
  BY <1>1
<1> HIDE DEF t
<1>3. p.slots = t /\ p.history_tool_call_cnt = cnt
  BY <1>1 DEF IsAcc, IsParser
<1> HIDE DEF p
<1>4. b.p = p /\ b.deltas = ds
  BY <1>1 DEF IsAcc
<1> HIDE DEF b
<1>5. QED BY <1>2, <1>3, <1>4 DEF CallsAre, t

\* The name of a call grows.
LEMMA NameIs ==
  ASSUME NEW acc, NEW s, NEW cnt, NEW ds, CallsAre(acc, s, cnt, ds), NEW n, NEW x \in Seq(Parts)
  PROVE  CallsAre([acc EXCEPT !.p.slots[n].name = @ \o x],
                  [s EXCEPT ![n] = LongerName(s[n], x)], cnt, ds)
<1> DEFINE slot == LongerName(s[n], x)
<1>1. s = acc.p.slots /\ IsAcc(acc)
  BY DEF CallsAre
<1>2. [acc EXCEPT !.p.slots[n] = slot] = [acc EXCEPT !.p.slots[n].name = @ \o x]
  BY <1>1 DEF LongerName
<1>3. IsAcc([acc EXCEPT !.p.slots[n].name = @ \o x])
  BY <1>1, NameGrows DEF OnlyCalls
<1> HIDE DEF slot
<1>4. CallsAre([acc EXCEPT !.p.slots[n] = slot], [s EXCEPT ![n] = slot], cnt, ds)
  BY <1>2, <1>3, PutIs
<1>5. QED BY <1>2, <1>4 DEF slot

\* Its arguments grow.
LEMMA ArgsAre ==
  ASSUME NEW acc, NEW s, NEW cnt, NEW ds, CallsAre(acc, s, cnt, ds), NEW n,
         NEW x \in Seq(Keys \union Letters)
  PROVE  CallsAre([acc EXCEPT !.p.slots[n].args = @ \o x],
                  [s EXCEPT ![n] = LongerArgs(s[n], x)], cnt, ds)
<1> DEFINE slot == LongerArgs(s[n], x)
<1>1. s = acc.p.slots /\ IsAcc(acc)
  BY DEF CallsAre
<1>2. [acc EXCEPT !.p.slots[n] = slot] = [acc EXCEPT !.p.slots[n].args = @ \o x]
  BY <1>1 DEF LongerArgs
<1>3. IsAcc([acc EXCEPT !.p.slots[n].args = @ \o x])
  BY <1>1, ArgsGrow DEF OnlyCalls
<1> HIDE DEF slot
<1>4. CallsAre([acc EXCEPT !.p.slots[n] = slot], [s EXCEPT ![n] = slot], cnt, ds)
  BY <1>2, <1>3, PutIs
<1>5. QED BY <1>2, <1>4 DEF slot

\* More of them is sent.
LEMMA SentIs ==
  ASSUME NEW acc, NEW s, NEW cnt, NEW ds, CallsAre(acc, s, cnt, ds), NEW n, NEW x
  PROVE  CallsAre([acc EXCEPT !.p.slots[n].streamed_json = @ \o x],
                  [s EXCEPT ![n] = MoreSent(s[n], x)], cnt, ds)
<1> DEFINE slot == MoreSent(s[n], x)
           y == acc.p.slots[n].streamed_json \o x
<1>1. s = acc.p.slots /\ IsAcc(acc)
  BY DEF CallsAre
<1>2. [acc EXCEPT !.p.slots[n] = slot] = [acc EXCEPT !.p.slots[n].streamed_json = @ \o x]
  BY <1>1 DEF MoreSent
<1>3. [acc EXCEPT !.p.slots[n].streamed_json = @ \o x] = [acc EXCEPT !.p.slots[n].streamed_json = y]
  OBVIOUS
<1> HIDE DEF y
<1>4. IsAcc([acc EXCEPT !.p.slots[n].streamed_json = y])
  BY <1>1, SentChanges DEF OnlyCalls
<1> HIDE DEF slot
<1>5. CallsAre([acc EXCEPT !.p.slots[n] = slot], [s EXCEPT ![n] = slot], cnt, ds)
  BY <1>2, <1>3, <1>4, PutIs
<1>6. QED BY <1>2, <1>5 DEF slot

\* AddArguments
LEMMA AddIs ==
  ASSUME NEW acc, NEW s, NEW cnt, NEW ds, CallsAre(acc, s, cnt, ds), NEW n, NEW x
  PROVE  CallsAre(AddArguments(acc, n, x), s, cnt,
                  IF x = <<>> THEN ds ELSE Append(ds, CallDelta(n, NoId, NoName, x)))
<1>1. IsAcc(AddArguments(acc, n, x))
  BY ArgumentsAdded DEF CallsAre, OnlyCalls
<1>2. CASE x = <<>>
  <2>1. AddArguments(acc, n, x) = acc
    BY <1>2 DEF AddArguments
  <2>2. QED BY <1>2, <2>1
<1>3. CASE x # <<>>
  <2> DEFINE d == Append(ds, CallDelta(n, NoId, NoName, x))
             b == [acc EXCEPT !.deltas = d]
  <2>1. AddArguments(acc, n, x) = b
    BY <1>3 DEF AddArguments, CallsAre
  <2> HIDE DEF d
  <2>2. b.p = acc.p /\ b.deltas = d
    BY DEF CallsAre, IsAcc
  <2> HIDE DEF b
  <2>3. CallsAre(b, s, cnt, d)
    BY <1>1, <2>1, <2>2 DEF CallsAre
  <2>4. QED BY <1>3, <2>1, <2>3 DEF d
<1>4. QED BY <1>2, <1>3

\* AnnounceCall
LEMMA AnnounceIs ==
  ASSUME NEW acc, NEW s, NEW cnt, NEW ds, CallsAre(acc, s, cnt, ds), NEW n, n \in DOMAIN s,
         ~s[n].name_sent, NEW x
  PROVE  CallsAre(AnnounceCall(acc, n, x), [s EXCEPT ![n] = NamedSlot(s[n], cnt + 1)], cnt + 1,
                  Append(ds, CallDelta(n, cnt + 1, s[n].name, x)))
<1> DEFINE keys == StringKeys(s[n].name)
           new == cnt + 1
           slot == NamedSlot(s[n], new)
           t == [s EXCEPT ![n] = slot]
           p == [acc.p EXCEPT !.slots = t, !.history_tool_call_cnt = new]
           q == NameSent(acc.p, n)
           d == CallDelta(n, q.slots[n].id, q.slots[n].name, x)
           b == [acc EXCEPT !.p = q, !.deltas = Append(ds, d)]
<1>1. s = acc.p.slots /\ IsAcc(acc) /\ acc.p.history_tool_call_cnt = cnt /\ acc.deltas = ds
  BY DEF CallsAre
<1>2. AnnounceCall(acc, n, x) = b
  BY <1>1 DEF AnnounceCall
<1>3. IsAcc(AnnounceCall(acc, n, x))
  BY <1>1, Announced DEF OnlyCalls
<1>4. q = p
  <2> DEFINE r1 == [acc.p EXCEPT !.slots = [s EXCEPT ![n] = [s[n] EXCEPT !.name_sent = TRUE]]]
             r2 == [acc.p EXCEPT !.slots = [s EXCEPT ![n] =
                      [s[n] EXCEPT !.name_sent = TRUE, !.string_keys = keys]]]
             t3 == [s EXCEPT ![n] = [s[n] EXCEPT !.name_sent = TRUE, !.string_keys = keys, !.id = new]]
             r3 == [acc.p EXCEPT !.slots = t3]
  <2>0. acc.p = [acc.p EXCEPT !.slots = s] /\ "slots" \in DOMAIN acc.p
    BY <1>1 DEF IsAcc, IsParser
  <2>1. q = [acc.p EXCEPT !.slots[n].name_sent = TRUE, !.slots[n].string_keys = keys,
                          !.slots[n].id = cnt + 1, !.history_tool_call_cnt = @ + 1]
    BY <1>1 DEF NameSent
  <2> HIDE DEF keys
  <2>2. r1 = [acc.p EXCEPT !.slots[n].name_sent = TRUE]
    BY <1>1
  <2>3. r2 = [r1 EXCEPT !.slots[n].string_keys = keys]
    BY <2>0
  <2>4. r3 = [r2 EXCEPT !.slots[n].id = cnt + 1]
    BY <2>0
  <2> DEFINE p3 == [acc.p EXCEPT !.slots = t3, !.history_tool_call_cnt = new]
  <2>5. p3 = [r3 EXCEPT !.history_tool_call_cnt = @ + 1]
    BY <1>1, <2>0 DEF IsAcc, IsParser
  <2> HIDE DEF r1, r2, r3
  <2>6. q = p3
    <3> HIDE DEF q, p3, t3
    <3>1. QED BY <2>1, <2>2, <2>3, <2>4, <2>5
  <2>7. t3 = t
    BY DEF NamedSlot, keys
  <2> HIDE DEF t3, t, q
  <2>8. QED BY <2>6, <2>7
<1>5. n \in DOMAIN t /\ t[n] = slot
  OBVIOUS
<1>6. slot.id = new /\ slot.name = s[n].name
  <2> DEFINE old == s[n]
  <2>1. IsSlot(old)
    BY <1>1 DEF IsAcc, IsParser, Slots
  <2> HIDE DEF keys, new, old
  <2>2. slot = [old EXCEPT !.name_sent = TRUE, !.string_keys = StringKeys(old.name), !.id = new]
    BY DEF NamedSlot, old
  <2> HIDE DEF slot
  <2>3. QED BY <2>1, <2>2 DEF IsSlot, old
<1> HIDE DEF slot, t, q, new
<1>7. p.slots = t /\ p.history_tool_call_cnt = new
  BY <1>1 DEF IsAcc, IsParser
<1> HIDE DEF p
<1>8. d = CallDelta(n, new, s[n].name, x)
  BY <1>4, <1>5, <1>6, <1>7
<1> HIDE DEF d
<1>9. b.p = q /\ b.deltas = Append(ds, d)
  <2> DEFINE a == [acc EXCEPT !.p = q]
             e == Append(ds, d)
  <2> HIDE DEF e
  <2>1. a = [p |-> q, content |-> acc.content, reasoning |-> acc.reasoning,
             deltas |-> acc.deltas, seen |-> acc.seen]
    BY <1>1 DEF IsAcc
  <2>2. b = [a EXCEPT !.deltas = e]
    BY <1>1 DEF IsAcc, e
  <2> HIDE DEF a, b
  <2>3. b.p = q /\ b.deltas = e
    BY <2>1, <2>2
  <2>4. QED BY <2>3 DEF e
<1> HIDE DEF b
<1>10. CallsAre(AnnounceCall(acc, n, x), t, new, Append(ds, d))
  BY <1>2, <1>3, <1>4, <1>7, <1>9 DEF CallsAre
<1>11. QED BY <1>8, <1>10 DEF t, new, slot

\* A slot replaced twice.
LEMMA PutTwice ==
  ASSUME NEW s, NEW n, n \in DOMAIN s, NEW x, NEW y
  PROVE  /\ DOMAIN [s EXCEPT ![n] = x] = DOMAIN s /\ [s EXCEPT ![n] = x][n] = x
         /\ [[s EXCEPT ![n] = x] EXCEPT ![n] = y] = [s EXCEPT ![n] = y]
  OBVIOUS

\* The parser has seen a call.
LEMMA SeenIs ==
  ASSUME NEW acc, NEW s, NEW cnt, NEW ds, CallsAre(acc, s, cnt, ds)
  PROVE  CallsAre([acc EXCEPT !.seen = TRUE], s, cnt, ds)
<1> DEFINE b == [acc EXCEPT !.seen = TRUE]
<1>1. IsAcc(acc) /\ acc.p.slots = s /\ acc.p.history_tool_call_cnt = cnt /\ acc.deltas = ds
  BY DEF CallsAre
<1>2. IsAcc(b) /\ b.p = acc.p
  BY <1>1, CallSeen
<1>3. b.deltas = acc.deltas
  BY <1>1 DEF IsAcc
<1> HIDE DEF b
<1>4. CallsAre(b, s, cnt, ds)
  BY <1>1, <1>2, <1>3 DEF CallsAre
<1>5. QED BY <1>4 DEF b

\* A call starts.
LEMMA StartStep ==
  ASSUME NEW acc, NEW s, NEW cnt, NEW ds, CallsAre(acc, s, cnt, ds),
         NEW e, e.type = "TOOL_CALL_START", ~Suppress
  PROVE  CallsAre(TakeEvent(acc, e), Append(s, NewSlot), cnt, ds)
<1> DEFINE t == Append(acc.p.slots, NewSlot)
           p == [acc.p EXCEPT !.slots = t]
           a == [acc EXCEPT !.seen = TRUE]
           b == [a EXCEPT !.p = p]
<1>1. IsAcc(acc) /\ acc.p.slots = s /\ acc.p.history_tool_call_cnt = cnt /\ acc.deltas = ds
  BY DEF CallsAre
<1>2. TakeEvent(acc, e) = b
  BY EventKinds DEF TakeEvent, CallEvents
<1>3. IsAcc(b)
  <2>1. b = [acc EXCEPT !.seen = TRUE, !.p.slots = Append(@, NewSlot)]
    OBVIOUS
  <2>2. IsAcc([acc EXCEPT !.seen = TRUE, !.p.slots = Append(@, NewSlot)])
    BY <1>1, CallStarts
  <2> HIDE DEF b
  <2>3. QED BY <2>1, <2>2
<1> HIDE DEF t
<1>4. p.slots = t /\ p.history_tool_call_cnt = acc.p.history_tool_call_cnt
  BY <1>1 DEF IsAcc, IsParser
<1> HIDE DEF p
<1>5. CallsAre(a, s, cnt, ds)
  BY SeenIs
<1> HIDE DEF a
<1>6. b.p = p /\ b.deltas = ds
  BY <1>5 DEF CallsAre, IsAcc
<1> HIDE DEF b
<1>7. QED BY <1>1, <1>2, <1>3, <1>4, <1>6 DEF CallsAre, t

\* A part of its name.
LEMMA NameStep ==
  ASSUME NEW acc, NEW s, NEW cnt, NEW ds, CallsAre(acc, s, cnt, ds),
         NEW e \in EventSet, e.type = "TOOL_NAME", ~Suppress
  PROVE  CallsAre(TakeEvent(acc, e),
                  [s EXCEPT ![e.index] = LongerName(s[e.index], e.value)], cnt, ds)
<1> DEFINE v == e.value
           n == e.index
           a == [acc EXCEPT !.seen = TRUE]
           b == [a EXCEPT !.p.slots[n].name = @ \o v]
<1>1. TakeEvent(acc, e) = b
  BY EventKinds DEF TakeEvent, CallEvents
<1>2. v \in Seq(Parts)
  BY DEF EventSet
<1>3. CallsAre(a, s, cnt, ds)
  BY SeenIs
<1> HIDE DEF v, n, a
<1>4. CallsAre(b, [s EXCEPT ![n] = LongerName(s[n], v)], cnt, ds)
  BY <1>2, <1>3, NameIs
<1> HIDE DEF b
<1>5. QED BY <1>1, <1>4 DEF v, n

\* What more of a call is sent.
MoreDeltas(ds, n, x) == IF x = <<>> THEN ds ELSE Append(ds, CallDelta(n, NoId, NoName, x))

\* A chunk of its arguments, or of what is left of them, when its name was sent.
LEMMA SendIs ==
  ASSUME NEW acc, NEW s, NEW cnt, NEW ds, CallsAre(acc, s, cnt, ds), NEW n, NEW x
  PROVE  CallsAre(AddArguments([acc EXCEPT !.p.slots[n].streamed_json = @ \o x], n, x),
                  [s EXCEPT ![n] = MoreSent(s[n], x)], cnt, MoreDeltas(ds, n, x))
<1> DEFINE b == [acc EXCEPT !.p.slots[n].streamed_json = @ \o x]
           t == [s EXCEPT ![n] = MoreSent(s[n], x)]
<1>1. CallsAre(b, t, cnt, ds)
  BY SentIs
<1> HIDE DEF b, t
<1>2. CallsAre(AddArguments(b, n, x), t, cnt, MoreDeltas(ds, n, x))
  BY <1>1, AddIs DEF MoreDeltas
<1>3. QED BY <1>2 DEF b, t

\* A name that grows changes nothing else.
LEMMA NameLonger ==
  ASSUME NEW slot, IsSlot(slot), NEW x
  PROVE  LET y == LongerName(slot, x)
         IN  /\ y.name_sent = slot.name_sent /\ y.id = slot.id /\ y.args = slot.args
             /\ y.streamed_json = slot.streamed_json /\ y.string_keys = slot.string_keys
             /\ y.name = slot.name \o x
<1> DEFINE z == slot.name \o x
           y == [slot EXCEPT !.name = z]
<1>1. LongerName(slot, x) = y
  BY DEF LongerName, Cat
<1> HIDE DEF z
<1>2. /\ y.name_sent = slot.name_sent /\ y.id = slot.id /\ y.args = slot.args
      /\ y.streamed_json = slot.streamed_json /\ y.string_keys = slot.string_keys
      /\ y.name = z
  BY DEF IsSlot
<1> HIDE DEF y
<1>3. QED BY <1>1, <1>2 DEF y, z

\* Nor do arguments that grow.
LEMMA ArgsLonger ==
  ASSUME NEW slot, IsSlot(slot), NEW x
  PROVE  LET y == LongerArgs(slot, x)
         IN  /\ y.name_sent = slot.name_sent /\ y.id = slot.id /\ y.name = slot.name
             /\ y.streamed_json = slot.streamed_json /\ y.string_keys = slot.string_keys
             /\ y.args = slot.args \o x
<1> DEFINE z == slot.args \o x
           y == [slot EXCEPT !.args = z]
<1>1. LongerArgs(slot, x) = y
  BY DEF LongerArgs, Cat
<1> HIDE DEF z
<1>2. /\ y.name_sent = slot.name_sent /\ y.id = slot.id /\ y.name = slot.name
      /\ y.streamed_json = slot.streamed_json /\ y.string_keys = slot.string_keys
      /\ y.args = z
  BY DEF IsSlot
<1> HIDE DEF y
<1>3. QED BY <1>1, <1>2 DEF y, z

\* Nor does what is sent of them.
LEMMA SentLonger ==
  ASSUME NEW slot, IsSlot(slot), NEW x
  PROVE  LET y == MoreSent(slot, x)
         IN  /\ y.name_sent = slot.name_sent /\ y.id = slot.id /\ y.name = slot.name
             /\ y.args = slot.args /\ y.string_keys = slot.string_keys
             /\ y.streamed_json = Cat(slot.streamed_json, x)
<1> DEFINE z == Cat(slot.streamed_json, x)
           y == [slot EXCEPT !.streamed_json = z]
<1>1. MoreSent(slot, x) = y
  BY DEF MoreSent, Cat
<1> HIDE DEF z
<1>2. /\ y.name_sent = slot.name_sent /\ y.id = slot.id /\ y.name = slot.name
      /\ y.args = slot.args /\ y.string_keys = slot.string_keys
      /\ y.streamed_json = z
  BY DEF IsSlot
<1> HIDE DEF y
<1>3. QED BY <1>1, <1>2 DEF y, z

\* A slot of the parser.
LEMMA SlotIs ==
  ASSUME NEW acc, NEW s, NEW cnt, NEW ds, CallsAre(acc, s, cnt, ds), NEW n \in DOMAIN s
  PROVE  IsSlot(s[n])
  BY DEF CallsAre, IsAcc, IsParser, Slots

\* A chunk of its arguments.
LEMMA ArgStep ==
  ASSUME NEW acc, NEW s, NEW cnt, NEW ds, CallsAre(acc, s, cnt, ds),
         NEW e \in EventSet, e.type = "ARG_VALUE_CHUNK", ~Suppress, e.index \in DOMAIN s
  PROVE  LET n    == e.index
             got  == LongerArgs(s[n], e.value)
             more == ComputeArgDelta(got, e.value)
         IN  /\ s[n].name_sent =>
                  CallsAre(TakeEvent(acc, e), [s EXCEPT ![n] = MoreSent(got, more)], cnt,
                           MoreDeltas(ds, n, more))
             /\ ~s[n].name_sent /\ AcceptToolName(s[n].name) =>
                  CallsAre(TakeEvent(acc, e), [s EXCEPT ![n] = NamedSlot(got, cnt + 1)], cnt + 1,
                           Append(ds, CallDelta(n, cnt + 1, s[n].name, <<>>)))
             /\ ~s[n].name_sent /\ ~AcceptToolName(s[n].name) =>
                  CallsAre(TakeEvent(acc, e), [s EXCEPT ![n] = got], cnt, ds)
<1> DEFINE v == e.value
           n == e.index
           got == LongerArgs(s[n], v)
           more == ComputeArgDelta(got, v)
           a == [acc EXCEPT !.seen = TRUE]
           b == [a EXCEPT !.p.slots[n].args = @ \o v]
           t == [s EXCEPT ![n] = got]
<1>1. TakeEvent(acc, e) = HandleArgChunk(b, n, v)
  BY EventKinds DEF TakeEvent, CallEvents
<1>2. v \in Seq(Keys \union Letters) /\ n \in DOMAIN s
  BY DEF EventSet
<1>3. CallsAre(a, s, cnt, ds)
  BY SeenIs
<1>4. IsSlot(s[n])
  BY SlotIs
<1> HIDE DEF v, n, a
<1>5. got.name_sent = s[n].name_sent /\ got.name = s[n].name
  <2> DEFINE slot == s[n]
  <2>1. IsSlot(slot)
    BY <1>4
  <2> HIDE DEF slot
  <2>2. /\ LongerArgs(slot, v).name_sent = slot.name_sent
        /\ LongerArgs(slot, v).name = slot.name
    BY <2>1, ArgsLonger
  <2>3. QED BY <2>2 DEF slot
<1>6. CallsAre(b, t, cnt, ds)
  BY <1>2, <1>3, ArgsAre
<1> HIDE DEF got, b, t
<1>7. b.p.slots = t
  BY <1>6 DEF CallsAre
<1>8. DOMAIN t = DOMAIN s /\ t[n] = got
  BY <1>2, PutTwice DEF t
<1> HIDE DEF more
<1>9. more = ComputeArgDelta(got, v)
  BY DEF more
<1>10. CASE s[n].name_sent
  <2>1. HandleArgChunk(b, n, v) = AddArguments([b EXCEPT !.p.slots[n].streamed_json = @ \o more], n, more)
    BY <1>10, <1>5, <1>7, <1>8, <1>9 DEF HandleArgChunk, SendArguments
  <2>2. CallsAre(AddArguments([b EXCEPT !.p.slots[n].streamed_json = @ \o more], n, more),
                 [t EXCEPT ![n] = MoreSent(t[n], more)], cnt, MoreDeltas(ds, n, more))
    BY <1>6, SendIs
  <2> DEFINE y == MoreSent(got, more)
  <2>3. [t EXCEPT ![n] = y] = [s EXCEPT ![n] = y]
    <3> HIDE DEF y
    <3>1. QED BY <1>2, PutTwice DEF t
  <2>4. CallsAre(HandleArgChunk(b, n, v), [s EXCEPT ![n] = y], cnt, MoreDeltas(ds, n, more))
    BY <2>1, <2>2, <2>3, <1>8
  <2>5. QED BY <2>4, <1>1, <1>9, <1>10 DEF n, v, got
<1>11. CASE ~s[n].name_sent /\ AcceptToolName(s[n].name)
  <2>1. HandleArgChunk(b, n, v) = AnnounceCall(b, n, <<>>)
    BY <1>11, <1>5, <1>7, <1>8 DEF HandleArgChunk
  <2>2. ~t[n].name_sent /\ n \in DOMAIN t
    BY <1>2, <1>5, <1>8, <1>11
  <2>3. CallsAre(AnnounceCall(b, n, <<>>), [t EXCEPT ![n] = NamedSlot(t[n], cnt + 1)], cnt + 1,
                  Append(ds, CallDelta(n, cnt + 1, t[n].name, <<>>)))
    BY <1>6, <2>2, AnnounceIs
  <2> DEFINE y == NamedSlot(got, cnt + 1)
  <2>4. [t EXCEPT ![n] = y] = [s EXCEPT ![n] = y]
    <3> HIDE DEF y
    <3>1. QED BY <1>2, PutTwice DEF t
  <2>5. CallsAre(HandleArgChunk(b, n, v), [s EXCEPT ![n] = y], cnt + 1,
                  Append(ds, CallDelta(n, cnt + 1, s[n].name, <<>>)))
    BY <2>1, <2>3, <2>4, <1>5, <1>8
  <2>6. QED BY <2>5, <1>1, <1>11 DEF n, v, got
<1>12. CASE ~s[n].name_sent /\ ~AcceptToolName(s[n].name)
  <2>1. HandleArgChunk(b, n, v) = b
    BY <1>12, <1>5, <1>7, <1>8 DEF HandleArgChunk
  <2>2. QED BY <2>1, <1>1, <1>6, <1>12 DEF n, v, got, t
<1>13. QED BY <1>10, <1>11, <1>12 DEF n, v, got, more

\* The end of the call.
LEMMA EndStep ==
  ASSUME NEW acc, NEW s, NEW cnt, NEW ds, CallsAre(acc, s, cnt, ds),
         NEW e \in EventSet, e.type = "TOOL_CALL_END", ~Suppress, e.index \in DOMAIN s
  PROVE  LET n    == e.index
             rest == FlushArgs(s[n])
             got  == MoreSent(s[n], rest)
         IN  /\ s[n].name_sent =>
                  CallsAre(TakeEvent(acc, e), [s EXCEPT ![n] = got], cnt, MoreDeltas(ds, n, rest))
             /\ ~s[n].name_sent /\ AcceptToolName(s[n].name) =>
                  CallsAre(TakeEvent(acc, e), [s EXCEPT ![n] = NamedSlot(got, cnt + 1)], cnt + 1,
                           Append(ds, CallDelta(n, cnt + 1, s[n].name, rest)))
             /\ ~s[n].name_sent /\ ~AcceptToolName(s[n].name) =>
                  CallsAre(TakeEvent(acc, e), [s EXCEPT ![n] = got], cnt, ds)
<1> DEFINE n == e.index
           rest == FlushArgs(s[n])
           got == MoreSent(s[n], rest)
           a == [acc EXCEPT !.seen = TRUE]
           b == [a EXCEPT !.p.slots[n].streamed_json = @ \o rest]
           t == [s EXCEPT ![n] = got]
<1>1. TakeEvent(acc, e) = HandleToolEnd(a, n, rest)
  BY EventKinds DEF TakeEvent, CallEvents, CallsAre
<1>2. n \in DOMAIN s
  OBVIOUS
<1>3. CallsAre(a, s, cnt, ds)
  BY SeenIs
<1>4. IsSlot(s[n])
  BY SlotIs
<1> HIDE DEF n, a, rest
<1>5. got.name_sent = s[n].name_sent /\ got.name = s[n].name
  <2> DEFINE slot == s[n]
  <2>1. IsSlot(slot)
    BY <1>4
  <2> HIDE DEF slot
  <2>2. /\ MoreSent(slot, rest).name_sent = slot.name_sent
        /\ MoreSent(slot, rest).name = slot.name
    BY <2>1, SentLonger
  <2>3. QED BY <2>2 DEF slot
<1>6. CallsAre(b, t, cnt, ds)
  BY <1>3, SentIs
<1>7. a.p.slots = s
  BY <1>3 DEF CallsAre
<1> HIDE DEF got, t
<1>8. DOMAIN t = DOMAIN s /\ t[n] = got
  BY <1>2, PutTwice DEF t
<1>9. CASE s[n].name_sent
  <2>1. HandleToolEnd(a, n, rest) = AddArguments(b, n, rest)
    BY <1>9, <1>7 DEF HandleToolEnd
  <2>2. CallsAre(AddArguments(b, n, rest), [s EXCEPT ![n] = MoreSent(s[n], rest)], cnt,
                 MoreDeltas(ds, n, rest))
    <3>1. CallsAre(AddArguments([a EXCEPT !.p.slots[n].streamed_json = @ \o rest], n, rest),
                   [s EXCEPT ![n] = MoreSent(s[n], rest)], cnt, MoreDeltas(ds, n, rest))
      BY <1>3, SendIs
    <3>2. QED BY <3>1
  <2> HIDE DEF b
  <2>3. QED BY <2>1, <2>2, <1>1, <1>9 DEF n, rest, got
<1>10. CASE ~s[n].name_sent /\ AcceptToolName(s[n].name)
  <2>1. HandleToolEnd(a, n, rest) = AnnounceCall(b, n, rest)
    BY <1>10, <1>7 DEF HandleToolEnd
  <2> HIDE DEF b
  <2>2. ~t[n].name_sent /\ n \in DOMAIN t
    BY <1>2, <1>5, <1>8, <1>10
  <2>3. CallsAre(AnnounceCall(b, n, rest), [t EXCEPT ![n] = NamedSlot(t[n], cnt + 1)], cnt + 1,
                  Append(ds, CallDelta(n, cnt + 1, t[n].name, rest)))
    BY <1>6, <2>2, AnnounceIs
  <2> DEFINE y == NamedSlot(got, cnt + 1)
  <2>4. [t EXCEPT ![n] = y] = [s EXCEPT ![n] = y]
    <3> HIDE DEF y
    <3>1. QED BY <1>2, PutTwice DEF t
  <2>5. CallsAre(HandleToolEnd(a, n, rest), [s EXCEPT ![n] = y], cnt + 1,
                  Append(ds, CallDelta(n, cnt + 1, s[n].name, rest)))
    BY <2>1, <2>3, <2>4, <1>5, <1>8
  <2>6. QED BY <2>5, <1>1, <1>10 DEF n, rest, got
<1>11. CASE ~s[n].name_sent /\ ~AcceptToolName(s[n].name)
  <2>1. HandleToolEnd(a, n, rest) = b
    BY <1>11, <1>7 DEF HandleToolEnd
  <2> HIDE DEF b
  <2>2. QED BY <2>1, <1>1, <1>6, <1>11 DEF n, rest, got, t
<1>12. QED BY <1>9, <1>10, <1>11 DEF n, rest, got

\* Any other event.
LEMMA OtherStep ==
  ASSUME NEW acc, NEW s, NEW cnt, NEW ds, CallsAre(acc, s, cnt, ds),
         NEW e \in EventSet, ~Effective(e)
  PROVE  CallsAre(TakeEvent(acc, e), s, cnt, ds)
<1> DEFINE b == TakeEvent(acc, e)
<1>1. IsAcc(acc) /\ acc.p.slots = s /\ acc.p.history_tool_call_cnt = cnt /\ acc.deltas = ds
  BY DEF CallsAre
<1>2. IsAcc(b) /\ b.deltas = acc.deltas /\ b.p.slots = acc.p.slots
  <2>1. Effect(acc, e, TakeEvent(acc, e))
    BY <1>1, EventEffect
  <2> HIDE DEF b
  <2>2. QED BY <2>1 DEF Effect, b
<1>3. b.p.history_tool_call_cnt = cnt
  <2>1. CASE e.type = "TEXT_CHUNK" /\ acc.seen
    <3> DEFINE x == acc.p.deferred_content \o e.value
               p == [acc.p EXCEPT !.deferred_content = x]
               d == [acc EXCEPT !.p = p]
    <3>1. b = d
      BY <2>1, EventKinds DEF TakeEvent
    <3> HIDE DEF x
    <3>2. p.history_tool_call_cnt = cnt
      BY <1>1 DEF IsAcc, IsParser
    <3> HIDE DEF p
    <3>3. d.p = p
      BY <1>1 DEF IsAcc
    <3> HIDE DEF d, b
    <3>4. QED BY <3>1, <3>2, <3>3
  <2>2. CASE e.type = "TEXT_CHUNK" /\ ~acc.seen
    <3> DEFINE x == acc.content \o e.value
               d == [acc EXCEPT !.content = x]
    <3>1. b = d
      BY <2>2, EventKinds DEF TakeEvent
    <3> HIDE DEF x
    <3>3. d.p = acc.p
      BY <1>1 DEF IsAcc
    <3> HIDE DEF d, b
    <3>4. QED BY <3>1, <1>1, <3>3
  <2>3. CASE e.type = "REASONING_CHUNK"
    <3> DEFINE x == acc.reasoning \o e.value
               d == [acc EXCEPT !.reasoning = x]
    <3>1. b = d
      BY <2>3, EventKinds DEF TakeEvent
    <3> HIDE DEF x
    <3>3. d.p = acc.p
      BY <1>1 DEF IsAcc
    <3> HIDE DEF d, b
    <3>4. QED BY <3>1, <1>1, <3>3
  <2>4. CASE e.type = "REASONING_END"
    <3> DEFINE p == [acc.p EXCEPT !.reasoning_ended = TRUE, !.saw_reasoning_end = TRUE]
               d == [acc EXCEPT !.p = p]
    <3>1. b = [acc EXCEPT !.p.reasoning_ended = TRUE, !.p.saw_reasoning_end = TRUE]
      BY <2>4, EventKinds DEF TakeEvent
    <3>2. d = [acc EXCEPT !.p.reasoning_ended = TRUE, !.p.saw_reasoning_end = TRUE]
      BY <1>1 DEF IsAcc
    <3>3. p.history_tool_call_cnt = cnt
      BY <1>1 DEF IsAcc, IsParser
    <3> HIDE DEF p
    <3>4. d.p = p
      BY <1>1 DEF IsAcc
    <3> HIDE DEF d, b
    <3>5. b = d
      BY <3>1, <3>2
    <3>6. QED BY <3>3, <3>4, <3>5
  <2>5. CASE e.type \in CallEvents /\ Suppress
    <3>1. b = acc
      BY <2>5, EventKinds DEF TakeEvent
    <3> HIDE DEF b
    <3>2. QED BY <3>1, <1>1
  <2>6. e.type \in EventTypes
    BY DEF EventSet
  <2>7. QED BY <2>1, <2>2, <2>3, <2>4, <2>5, <2>6 DEF EventTypes, Effective
<1> HIDE DEF b
<1>4. QED BY <1>1, <1>2, <1>3 DEF CallsAre, b

---------------------------------------------------------------------------
(* What is told of the calls in a delta.                                   *)

\* With the deltas ds, the client that had the calls C has those of the slots;
\* no delta is of a call after n.
Told(C, ds, s, n) ==
  /\ ds \in Seq(Deltas)
  /\ Ascending(Coalesce(ds)) /\ Within(Coalesce(ds), n)
  /\ Shows(Coalesce(C \o Coalesce(ds)), s)

\* Nothing is told of slots that change in nothing the client has.
LEMMA ToldStill ==
  ASSUME NEW C, NEW ds, NEW s, NEW n \in Nat, Told(C, ds, s, n), NEW t, NEW m \in Nat, n <= m,
         DOMAIN s \subseteq DOMAIN t,
         \A i \in DOMAIN s : /\ t[i].name_sent <=> s[i].name_sent
                             /\ s[i].name_sent => /\ t[i].id = s[i].id /\ t[i].name = s[i].name
                                                  /\ t[i].streamed_json = s[i].streamed_json,
         \A i \in DOMAIN t : i \notin DOMAIN s => ~t[i].name_sent
  PROVE  Told(C, ds, t, m)
<1> DEFINE M == Coalesce(ds)
           calls == Coalesce(C \o M)
<1>1. /\ ds \in Seq(Deltas) /\ Ascending(M) /\ Within(M, n) /\ Shows(calls, s)
  BY DEF Told
<1> HIDE DEF calls
<1>2. Shows(calls, t)
  BY <1>1, ShowsStill
<1>3. M \in Seq(Deltas)
  BY <1>1, CoalesceType
<1> HIDE DEF M
<1>4. Within(M, m)
  <2>1. SUFFICES ASSUME NEW i \in 1 .. Len(M) PROVE M[i].index <= m
    BY DEF Within
  <2>2. M[i] \in Deltas
    BY <1>3, ElementOfSeq
  <2>3. M[i].index \in Nat
    BY <2>2 DEF Deltas
  <2>4. M[i].index <= n
    BY <1>1 DEF Within
  <2>5. QED BY <2>3, <2>4
<1>5. QED BY <1>1, <1>2, <1>4 DEF Told, M, calls

\* One more delta of the last call.
LEMMA DeltaTaken ==
  ASSUME NEW C \in Seq(Deltas), NEW ds \in Seq(Deltas), NEW n, NEW d \in Deltas, d.index = n,
         Ascending(Coalesce(ds)), Within(Coalesce(ds), n)
  PROVE  LET es == Append(ds, d)
         IN  /\ es \in Seq(Deltas) /\ Ascending(Coalesce(es)) /\ Within(Coalesce(es), n)
             /\ Coalesce(C \o Coalesce(es)) = MergeDelta(Coalesce(C \o Coalesce(ds)), d)
<1> DEFINE M == Coalesce(ds)
           es == Append(ds, d)
           N == Coalesce(es)
<1>1. M \in Seq(Deltas)
  BY CoalesceType
<1>2. es \in Seq(Deltas)
  BY AppendProperties
<1>3. N = MergeDelta(M, d)
  BY CoalesceAppend
<1> HIDE DEF M, es, N
<1>4. Ascending(M) /\ Within(M, d.index)
  BY DEF M
<1>5. Ascending(MergeDelta(M, d)) /\ Within(MergeDelta(M, d), d.index)
  BY <1>1, <1>4, MergeAscending
<1>6. Coalesce(C \o MergeDelta(M, d)) = MergeDelta(Coalesce(C \o M), d)
  BY <1>1, <1>4, CoalesceLater
<1>7. es \in Seq(Deltas) /\ Ascending(N) /\ Within(N, n)
      /\ Coalesce(C \o N) = MergeDelta(Coalesce(C \o M), d)
  BY <1>2, <1>3, <1>5, <1>6
<1>8. QED BY <1>7, Zenon DEF N, es, M

\* A delta of a call is one.
LEMMA CallDeltaFacts ==
  ASSUME NEW n \in Nat, NEW id \in Nat, NEW name \in Name, NEW x \in Jsons
  PROVE  LET d == CallDelta(n, id, name, x)
         IN  d \in Deltas /\ d.index = n /\ d.id = id /\ d.name = name /\ d.arguments = x
  BY DEF CallDelta, Deltas

\* More arguments of the last call are told.
LEMMA ToldMore ==
  ASSUME NEW C \in Seq(Deltas), NEW ds, NEW s, NEW n \in Nat, n # 0, DOMAIN s = 1 .. n,
         Told(C, ds, s, n), s[n].name_sent, NEW x \in Jsons,
         NEW t, t.name_sent, t.id = s[n].id, t.name = s[n].name,
         t.streamed_json = Cat(s[n].streamed_json, x), s[n].streamed_json \in Jsons
  PROVE  Told(C, MoreDeltas(ds, n, x), [s EXCEPT ![n] = t], n)
<1> DEFINE r == [s EXCEPT ![n] = t]
<1>1. n \in DOMAIN s
  OBVIOUS
<1>2. DOMAIN r = DOMAIN s /\ r[n] = t /\ \A i \in DOMAIN s : i # n => r[i] = s[i]
  BY <1>1, SlotReplaced
<1>3. CASE x = <<>>
  <2>1. t.streamed_json = s[n].streamed_json
    BY <1>3, CatFacts
  <2> HIDE DEF r
  <2>2. \A i \in DOMAIN s : /\ r[i].name_sent <=> s[i].name_sent
                            /\ s[i].name_sent => /\ r[i].id = s[i].id /\ r[i].name = s[i].name
                                                 /\ r[i].streamed_json = s[i].streamed_json
    BY <1>2, <2>1
  <2>3. DOMAIN s \subseteq DOMAIN r /\ \A i \in DOMAIN r : i \notin DOMAIN s => ~r[i].name_sent
    BY <1>2
  <2>4. n <= n
    OBVIOUS
  <2>5. Told(C, ds, r, n)
    BY <2>2, <2>3, <2>4, ToldStill
  <2>6. MoreDeltas(ds, n, x) = ds
    BY <1>3 DEF MoreDeltas
  <2>7. QED BY <2>5, <2>6 DEF r
<1>4. CASE x # <<>>
  <2> DEFINE d == CallDelta(n, NoId, NoName, x)
             es == Append(ds, d)
             calls == Coalesce(C \o Coalesce(ds))
  <2>1. NoId \in Nat /\ NoName \in Name
    BY EmptySeq DEF NoId, NoName, Name
  <2>2. d \in Deltas /\ d.index = n /\ d.id = NoId /\ d.name = NoName /\ d.arguments = x
    BY <2>1, CallDeltaFacts
  <2> HIDE DEF d
  <2>3. /\ ds \in Seq(Deltas) /\ Ascending(Coalesce(ds)) /\ Within(Coalesce(ds), n)
        /\ Shows(calls, s)
    BY DEF Told
  <2>4. /\ es \in Seq(Deltas) /\ Ascending(Coalesce(es)) /\ Within(Coalesce(es), n)
        /\ Coalesce(C \o Coalesce(es)) = MergeDelta(calls, d)
    BY <2>2, <2>3, DeltaTaken
  <2> HIDE DEF calls, r
  <2>5. Shows(MergeDelta(calls, d), [s EXCEPT ![n] = t])
    BY <2>2, <2>3, ShowsMore
  <2> HIDE DEF es
  <2>6. MoreDeltas(ds, n, x) = es
    BY <1>4 DEF MoreDeltas, es, d
  <2>7. Told(C, es, [s EXCEPT ![n] = t], n)
    BY <2>4, <2>5 DEF Told
  <2>8. QED BY <2>6, <2>7
<1>5. QED BY <1>3, <1>4

\* The name of the last call is told.
LEMMA ToldName ==
  ASSUME NEW C \in Seq(Deltas), NEW ds, NEW s, NEW n \in Nat, n # 0, DOMAIN s = 1 .. n,
         Told(C, ds, s, n), ~s[n].name_sent,
         NEW t, t.name_sent, t.id \in Nat, t.name \in Name, t.streamed_json \in Jsons
  PROVE  Told(C, Append(ds, CallDelta(n, t.id, t.name, t.streamed_json)), [s EXCEPT ![n] = t], n)
<1> DEFINE d == CallDelta(n, t.id, t.name, t.streamed_json)
           es == Append(ds, d)
           calls == Coalesce(C \o Coalesce(ds))
<1>1. d \in Deltas /\ d.index = n /\ d.id = t.id /\ d.name = t.name /\ d.arguments = t.streamed_json
  BY CallDeltaFacts
<1> HIDE DEF d
<1>2. /\ ds \in Seq(Deltas) /\ Ascending(Coalesce(ds)) /\ Within(Coalesce(ds), n)
      /\ Shows(calls, s)
  BY DEF Told
<1>3. /\ es \in Seq(Deltas) /\ Ascending(Coalesce(es)) /\ Within(Coalesce(es), n)
      /\ Coalesce(C \o Coalesce(es)) = MergeDelta(calls, d)
  BY <1>1, <1>2, DeltaTaken
<1> HIDE DEF calls
<1>4. Shows(MergeDelta(calls, d), [s EXCEPT ![n] = t])
  BY <1>1, <1>2, ShowsName
<1> HIDE DEF es
<1>5. Told(C, es, [s EXCEPT ![n] = t], n)
  BY <1>3, <1>4 DEF Told
<1>6. QED BY <1>5 DEF es, d

---------------------------------------------------------------------------
(* The slot of a call from its start to its end.                           *)

\* A call that has ended: all of its arguments are sent, if its name was.
Over(slot) ==
  /\ Raw(slot.args)
  /\ slot.name_sent <=> AcceptToolName(slot.name)
  /\ slot.name_sent => slot.streamed_json = Json(slot.args, slot.name)

\* A call whose name is not complete.
InName(slot) == ~slot.name_sent /\ slot.args = <<>> /\ slot.streamed_json = <<>>

\* A call in its arguments: what was sent of them is safe.
InArgs(slot) ==
  /\ Raw(slot.args) /\ slot.args # <<>>
  /\ slot.name_sent <=> AcceptToolName(slot.name)
  /\ slot.name_sent => /\ slot.string_keys = StringKeys(slot.name)
                       /\ Begins(slot.streamed_json, Safe(slot.args, slot.name))

\* No arguments are raw arguments.
LEMMA RawNothing == Raw(<<>>)
  BY EmptySeq DEF Raw

\* The name of a call grows.
LEMMA NamePart ==
  ASSUME NEW slot, IsSlot(slot), InName(slot), NEW x
  PROVE  InName(LongerName(slot, x))
  BY NameLonger DEF InName

\* The slot of a call whose name is sent.
LEMMA NamedFacts ==
  ASSUME NEW slot, IsSlot(slot), NEW id
  PROVE  LET y == NamedSlot(slot, id)
         IN  /\ y.name_sent /\ y.id = id /\ y.name = slot.name /\ y.args = slot.args
             /\ y.streamed_json = slot.streamed_json
             /\ y.string_keys = StringKeys(slot.name)
<1> DEFINE keys == StringKeys(slot.name)
<1>1. NamedSlot(slot, id) = [slot EXCEPT !.name_sent = TRUE, !.string_keys = keys, !.id = id]
  BY DEF NamedSlot
<1> HIDE DEF keys
<1> DEFINE y == [slot EXCEPT !.name_sent = TRUE, !.string_keys = keys, !.id = id]
<1>2. /\ y.name_sent = TRUE /\ y.id = id /\ y.name = slot.name /\ y.args = slot.args
      /\ y.streamed_json = slot.streamed_json /\ y.string_keys = keys
  BY DEF IsSlot
<1> HIDE DEF y
<1>3. QED BY <1>1, <1>2 DEF y, keys

\* A slot with longer arguments is one.
LEMMA LongerIsSlot ==
  ASSUME NEW slot, IsSlot(slot), NEW v \in Seq(Keys \union Letters)
  PROVE  IsSlot(LongerArgs(slot, v))
<1> DEFINE a == slot.args \o v
           y == [slot EXCEPT !.args = a]
<1>1. LongerArgs(slot, v) = y
  BY DEF LongerArgs
<1>2. a \in Seq(Keys \union Letters)
  BY JoinedAt DEF IsSlot
<1> HIDE DEF a
<1>3. /\ y = [id |-> y.id, name |-> y.name, args |-> y.args, name_sent |-> y.name_sent,
              string_keys |-> y.string_keys, streamed_json |-> y.streamed_json]
      /\ y.args = a /\ y.name = slot.name /\ y.name_sent = slot.name_sent /\ y.id = slot.id
  BY DEF IsSlot
<1> HIDE DEF y
<1>4. IsSlot(y)
  BY <1>2, <1>3 DEF IsSlot
<1>5. QED BY <1>1, <1>4

\* So is one of which more is sent.
LEMMA SentIsSlot ==
  ASSUME NEW slot, IsSlot(slot), NEW x
  PROVE  IsSlot(MoreSent(slot, x))
<1> DEFINE a == slot.streamed_json \o x
           y == [slot EXCEPT !.streamed_json = a]
<1>1. MoreSent(slot, x) = y
  BY DEF MoreSent
<1> HIDE DEF a
<1>3. /\ y = [id |-> y.id, name |-> y.name, args |-> y.args, name_sent |-> y.name_sent,
              string_keys |-> y.string_keys, streamed_json |-> y.streamed_json]
      /\ y.args = slot.args /\ y.name = slot.name /\ y.name_sent = slot.name_sent /\ y.id = slot.id
  BY DEF IsSlot
<1> HIDE DEF y
<1>4. IsSlot(y)
  BY <1>3 DEF IsSlot
<1>5. QED BY <1>1, <1>4

\* What a chunk adds to the arguments of a call.
LEMMA ChunkGrows ==
  ASSUME NEW slot, IsSlot(slot), InName(slot) \/ InArgs(slot),
         NEW v \in Seq(Keys \union Letters), v # <<>>, InName(slot) => v[1] \in Keys
  PROVE  LET got == LongerArgs(slot, v)
         IN  /\ Raw(got.args) /\ got.args # <<>>
             /\ InArgs(slot) => Begins(Safe(slot.args, slot.name), Safe(got.args, got.name))
<1> DEFINE got == LongerArgs(slot, v)
           raw == slot.args
<1>1. Raw(raw) /\ (raw = <<>> => v[1] \in Keys)
  <2>1. CASE InName(slot)
    BY <2>1, RawNothing DEF InName
  <2>2. CASE InArgs(slot)
    BY <2>2 DEF InArgs
  <2>3. QED BY <2>1, <2>2
<1>2. InArgs(slot) => raw # <<>>
  BY DEF InArgs
<1>3. got.args = raw \o v /\ got.name = slot.name
  BY ArgsLonger
<1> HIDE DEF raw, got
<1>4. /\ Raw(raw \o v) /\ raw \o v # <<>>
      /\ raw # <<>> => Begins(Safe(raw, slot.name), Safe(raw \o v, slot.name))
  BY <1>1, SafeGrows
<1>5. /\ Raw(got.args) /\ got.args # <<>>
      /\ InArgs(slot) => Begins(Safe(raw, slot.name), Safe(got.args, got.name))
  BY <1>2, <1>3, <1>4
<1>6. QED BY <1>5 DEF raw, got

\* _compute_arg_delta sends what is safe, or nothing.
LEMMA ChunkSent ==
  ASSUME NEW slot, IsSlot(slot), InArgs(slot), slot.name_sent,
         NEW v \in Seq(Keys \union Letters), v # <<>>
  PROVE  LET got  == LongerArgs(slot, v)
             more == ComputeArgDelta(got, v)
             t    == MoreSent(got, more)
         IN  /\ more \in Jsons /\ slot.streamed_json \in Jsons
             /\ t.name_sent /\ t.id = slot.id /\ t.name = slot.name
             /\ t.streamed_json = Cat(slot.streamed_json, more) /\ InArgs(t)
<1> DEFINE got == LongerArgs(slot, v)
           more == ComputeArgDelta(got, v)
           t == MoreSent(got, more)
           sent == slot.streamed_json
           new == Safe(got.args, got.name)
<1>1. ~InName(slot)
  BY DEF InName
<1>2. /\ Raw(got.args) /\ got.args # <<>>
      /\ Begins(Safe(slot.args, slot.name), new)
  BY <1>1, ChunkGrows
<1>3. /\ got.name_sent = slot.name_sent /\ got.name = slot.name /\ got.id = slot.id
      /\ got.streamed_json = sent /\ got.string_keys = slot.string_keys
  BY ArgsLonger
<1>4. IsSlot(got)
  BY LongerIsSlot
<1> HIDE DEF got
<1>5. /\ t.name_sent = got.name_sent /\ t.name = got.name /\ t.id = got.id
      /\ t.args = got.args /\ t.string_keys = got.string_keys
      /\ t.streamed_json = Cat(got.streamed_json, more)
  BY <1>4, SentLonger
<1> HIDE DEF t
<1>6. Begins(sent, Safe(slot.args, slot.name)) /\ slot.string_keys = StringKeys(slot.name)
  BY DEF InArgs
<1>7. Begins(sent, new)
  <2> HIDE DEF new, sent
  <2>1. QED BY <1>2, <1>6, BeginsFacts
<1>8. more = <<>> \/ more = Extension(sent, new)
  <2>1. got.string_keys = StringKeys(got.name)
    BY <1>3, <1>6
  <2>2. QED BY <2>1, <1>3 DEF ComputeArgDelta, Safe
<1> HIDE DEF more, new
<1>9. more \in Jsons /\ sent \in Jsons /\ Begins(Cat(sent, more), new)
  <2> HIDE DEF sent
  <2>1. sent \in Jsons /\ new \in Jsons
    BY <1>7, BeginsFacts
  <2>2. CASE more = <<>>
    <3>1. Cat(sent, more) = sent
      BY <2>1, <2>2, CatFacts
    <3>2. QED BY <2>1, <2>2, <3>1, <1>7, CatFacts
  <2>3. CASE more = Extension(sent, new)
    <3>1. more \in Jsons /\ Cat(sent, more) = new
      BY <2>3, <1>7, ExtensionFacts
    <3>2. Begins(new, new)
      BY <2>1, BeginsFacts
    <3>3. QED BY <2>1, <3>1, <3>2
  <2>4. QED BY <1>8, <2>2, <2>3
<1>10. InArgs(t)
  <2>1. t.name_sent <=> AcceptToolName(t.name)
    BY <1>3, <1>5 DEF InArgs
  <2>2. Begins(t.streamed_json, Safe(t.args, t.name))
    BY <1>3, <1>5, <1>9 DEF new
  <2>3. t.string_keys = StringKeys(t.name)
    BY <1>3, <1>5, <1>6
  <2>4. QED BY <2>1, <2>2, <2>3, <1>2, <1>5 DEF InArgs
<1>11. t.name_sent /\ t.id = slot.id /\ t.name = slot.name
       /\ t.streamed_json = Cat(slot.streamed_json, more)
  BY <1>3, <1>5
<1>12. QED BY <1>9, <1>10, <1>11 DEF t, more, got

\* A chunk sends the name, once it is known.
LEMMA ChunkNames ==
  ASSUME NEW slot, IsSlot(slot), InName(slot) \/ InArgs(slot), ~slot.name_sent,
         AcceptToolName(slot.name),
         NEW v \in Seq(Keys \union Letters), v # <<>>, InName(slot) => v[1] \in Keys, NEW id
  PROVE  LET t == NamedSlot(LongerArgs(slot, v), id)
         IN  /\ t.name_sent /\ t.id = id /\ t.name = slot.name /\ t.streamed_json = <<>>
             /\ InArgs(t)
<1> DEFINE got == LongerArgs(slot, v)
           t == NamedSlot(got, id)
<1>1. InName(slot)
  BY DEF InArgs
<1>2. /\ Raw(got.args) /\ got.args # <<>>
  BY ChunkGrows
<1>3. got.name = slot.name /\ got.streamed_json = <<>>
  BY <1>1, ArgsLonger DEF InName
<1>4. IsSlot(got)
  BY LongerIsSlot
<1> HIDE DEF got
<1>5. /\ t.name_sent /\ t.id = id /\ t.name = got.name /\ t.args = got.args
      /\ t.streamed_json = got.streamed_json /\ t.string_keys = StringKeys(got.name)
  BY <1>4, NamedFacts
<1> HIDE DEF t
<1>6. Begins(<<>>, Safe(t.args, t.name))
  <2>1. Begins(Safe(t.args, t.name), Json(t.args, t.name))
    BY <1>2, <1>5, SafeBegins
  <2>2. QED BY <2>1, BeginsFacts
<1>7. InArgs(t)
  BY <1>2, <1>3, <1>5, <1>6 DEF InArgs
<1>8. QED BY <1>3, <1>5, <1>7 DEF t, got

\* A call that is refused grows.
LEMMA ChunkRefused ==
  ASSUME NEW slot, IsSlot(slot), InName(slot) \/ InArgs(slot), ~slot.name_sent,
         ~AcceptToolName(slot.name),
         NEW v \in Seq(Keys \union Letters), v # <<>>, InName(slot) => v[1] \in Keys
  PROVE  LET t == LongerArgs(slot, v) IN ~t.name_sent /\ InArgs(t)
<1> DEFINE got == LongerArgs(slot, v)
<1>1. /\ Raw(got.args) /\ got.args # <<>>
  BY ChunkGrows
<1>2. got.name = slot.name /\ got.name_sent = slot.name_sent
  BY ArgsLonger
<1> HIDE DEF got
<1>3. ~got.name_sent /\ InArgs(got)
  BY <1>1, <1>2 DEF InArgs
<1>4. QED BY <1>3 DEF got

\* What is sent of a call begins its arguments.
LEMMA RestSent ==
  ASSUME NEW slot, IsSlot(slot), InName(slot) \/ (InArgs(slot) /\ slot.name_sent)
  PROVE  LET rest == FlushArgs(slot)
         IN  /\ Raw(slot.args) /\ rest \in Jsons /\ slot.streamed_json \in Jsons
             /\ Cat(slot.streamed_json, rest) = Json(slot.args, slot.name)
<1> DEFINE json == Json(slot.args, slot.name)
           sent == slot.streamed_json
<1>1. Raw(slot.args)
  BY RawNothing DEF InName, InArgs
<1>2. json \in Jsons /\ (slot.args # <<>> => Begins(Safe(slot.args, slot.name), json))
  BY <1>1, SafeBegins
<1> HIDE DEF json
<1>3. Begins(sent, json)
  <2>1. CASE InName(slot)
    BY <2>1, <1>2, BeginsFacts DEF InName
  <2>2. CASE InArgs(slot) /\ slot.name_sent
    <3>1. Begins(sent, Safe(slot.args, slot.name)) /\ slot.args # <<>>
      BY <2>2 DEF InArgs
    <3> HIDE DEF sent
    <3>2. QED BY <3>1, <1>2, BeginsFacts
  <2>3. QED BY <2>1, <2>2
<1>4. FlushArgs(slot) = Extension(sent, json)
  BY DEF FlushArgs, json
<1> HIDE DEF sent
<1>5. Extension(sent, json) \in Jsons /\ Cat(sent, Extension(sent, json)) = json
  BY <1>3, ExtensionFacts
<1>6. sent \in Jsons
  BY <1>3, BeginsFacts
<1>7. QED BY <1>1, <1>4, <1>5, <1>6 DEF sent, json

\* The end of a call sends the rest of its arguments.
LEMMA EndSent ==
  ASSUME NEW slot, IsSlot(slot), InArgs(slot), slot.name_sent
  PROVE  LET rest == FlushArgs(slot)
             t    == MoreSent(slot, rest)
         IN  /\ rest \in Jsons /\ slot.streamed_json \in Jsons
             /\ t.name_sent /\ t.id = slot.id /\ t.name = slot.name
             /\ t.streamed_json = Cat(slot.streamed_json, rest) /\ Over(t)
<1> DEFINE rest == FlushArgs(slot)
           t == MoreSent(slot, rest)
<1>1. /\ Raw(slot.args) /\ rest \in Jsons /\ slot.streamed_json \in Jsons
      /\ Cat(slot.streamed_json, rest) = Json(slot.args, slot.name)
  BY RestSent
<1> HIDE DEF rest
<1>2. /\ t.name_sent = slot.name_sent /\ t.name = slot.name /\ t.id = slot.id
      /\ t.args = slot.args /\ t.streamed_json = Cat(slot.streamed_json, rest)
  BY SentLonger
<1> HIDE DEF t
<1>3. Over(t)
  BY <1>1, <1>2 DEF Over, InArgs
<1>4. QED BY <1>1, <1>2, <1>3 DEF rest, t

\* It sends the name, too, if that was not sent.
LEMMA EndNames ==
  ASSUME NEW slot, IsSlot(slot), InName(slot) \/ InArgs(slot), ~slot.name_sent,
         AcceptToolName(slot.name), NEW id
  PROVE  LET rest == FlushArgs(slot)
             t    == NamedSlot(MoreSent(slot, rest), id)
         IN  /\ rest \in Jsons
             /\ t.name_sent /\ t.id = id /\ t.name = slot.name /\ t.streamed_json = rest /\ Over(t)
<1> DEFINE rest == FlushArgs(slot)
           got == MoreSent(slot, rest)
           t == NamedSlot(got, id)
<1>1. InName(slot)
  BY DEF InArgs
<1>2. /\ Raw(slot.args) /\ rest \in Jsons
      /\ Cat(slot.streamed_json, rest) = Json(slot.args, slot.name)
  BY <1>1, RestSent
<1> HIDE DEF rest
<1>3. /\ got.name = slot.name /\ got.args = slot.args
      /\ got.streamed_json = Cat(slot.streamed_json, rest)
  BY SentLonger
<1>4. IsSlot(got)
  BY SentIsSlot
<1> HIDE DEF got
<1>5. /\ t.name_sent /\ t.id = id /\ t.name = got.name /\ t.args = got.args
      /\ t.streamed_json = got.streamed_json
  BY <1>4, NamedFacts
<1> HIDE DEF t
<1>6. Cat(slot.streamed_json, rest) = rest
  BY <1>1, <1>2, CatFacts DEF InName
<1>7. Over(t)
  BY <1>2, <1>3, <1>5 DEF Over
<1>8. QED BY <1>2, <1>3, <1>5, <1>6, <1>7 DEF rest, got, t

\* A call that is refused ends.
LEMMA EndRefused ==
  ASSUME NEW slot, IsSlot(slot), InName(slot) \/ InArgs(slot), ~slot.name_sent,
         ~AcceptToolName(slot.name), NEW rest
  PROVE  LET t == MoreSent(slot, rest) IN ~t.name_sent /\ Over(t)
<1> DEFINE t == MoreSent(slot, rest)
<1>1. Raw(slot.args)
  BY RawNothing DEF InName, InArgs
<1>2. t.name_sent = slot.name_sent /\ t.name = slot.name /\ t.args = slot.args
  BY SentLonger
<1> HIDE DEF t
<1>3. ~t.name_sent /\ Over(t)
  BY <1>1, <1>2 DEF Over
<1>4. QED BY <1>3 DEF t

\* A call starts.
LEMMA StartsInName == InName(NewSlot)
  BY DEF InName, NewSlot

---------------------------------------------------------------------------
(* What the events of calls do to the slots and to what the client has.    *)

\* Where a call is, its slot says.
InPhase(slot, phase) ==
  /\ phase = "name" => InName(slot)
  /\ phase = "args" => InArgs(slot)
  /\ phase = "ended" => Over(slot)

\* Only the last call may be going on.
SlotsAt(s, at) ==
  /\ DOMAIN s = 1 .. at.calls
  /\ at.phase \in {"name", "args"} => at.calls # 0
  /\ \A i \in 1 .. at.calls :
       IF i = at.calls THEN InPhase(s[i], at.phase) ELSE Over(s[i])

\* The last call goes on.
LEMMA SlotPut ==
  ASSUME NEW s, NEW at \in Position, SlotsAt(s, at), at.calls # 0, NEW t, NEW phase, InPhase(t, phase)
  PROVE  SlotsAt([s EXCEPT ![at.calls] = t], [phase |-> phase, calls |-> at.calls])
<1> DEFINE n == at.calls
           r == [s EXCEPT ![n] = t]
           to == [phase |-> phase, calls |-> n]
<1>1. n \in Nat /\ n # 0
  BY DEF Position
<1>2. DOMAIN s = 1 .. n /\ \A i \in 1 .. n : i # n => Over(s[i])
  BY DEF SlotsAt
<1> HIDE DEF n
<1>3. n \in DOMAIN s
  BY <1>1, <1>2
<1>4. DOMAIN r = DOMAIN s /\ r[n] = t /\ \A i \in DOMAIN s : i # n => r[i] = s[i]
  BY <1>3, SlotReplaced
<1> HIDE DEF r
<1>5. to.phase = phase /\ to.calls = n
  OBVIOUS
<1> HIDE DEF to
<1>6. SlotsAt(r, to)
  BY <1>1, <1>2, <1>4, <1>5 DEF SlotsAt
<1>7. QED BY <1>6 DEF r, to, n

\* A slot more.
LEMMA SlotAppended ==
  ASSUME NEW s, NEW cnt, Slots(s, cnt), NEW n \in Nat, DOMAIN s = 1 .. n, NEW slot
  PROVE  /\ DOMAIN Append(s, slot) = 1 .. n + 1
         /\ Append(s, slot) = [i \in DOMAIN Append(s, slot) |-> Append(s, slot)[i]]
         /\ Append(s, slot)[n + 1] = slot /\ \A i \in 1 .. n : Append(s, slot)[i] = s[i]
<1> DEFINE t == Append(s, slot)
           A == {s[i] : i \in 1 .. n} \union {slot}
<1>1. s \in Seq(A)
  <2>1. s \in [1 .. n -> A]
    BY DEF Slots
  <2>2. QED BY <2>1, SeqDef
<1>2. slot \in A
  OBVIOUS
<1>3. Len(s) = n
  BY <1>1, LenProperties
<1> HIDE DEF A, t
<1>4. /\ Append(s, slot) \in Seq(A) /\ Len(Append(s, slot)) = Len(s) + 1
      /\ \A i \in 1 .. Len(s) : Append(s, slot)[i] = s[i]
      /\ Append(s, slot)[Len(s) + 1] = slot
  BY <1>1, <1>2, AppendProperties
<1>5. t \in Seq(A) /\ Len(t) = n + 1 /\ t[n + 1] = slot /\ \A i \in 1 .. n : t[i] = s[i]
  BY <1>3, <1>4 DEF t
<1>6. DOMAIN t = 1 .. n + 1 /\ t \in [1 .. n + 1 -> A]
  BY <1>5, LenProperties
<1>7. QED BY <1>5, <1>6 DEF t

\* The slots and what was told of them.
Built(C, acc, at) ==
  /\ IsAcc(acc) /\ SlotsAt(acc.p.slots, at)
  /\ Told(C, acc.deltas, acc.p.slots, at.calls)

\* What was said of the calls, taken together.
LEMMA BuiltIs ==
  ASSUME NEW C, NEW acc, NEW s, NEW cnt, NEW ds, CallsAre(acc, s, cnt, ds), NEW at,
         SlotsAt(s, at), Told(C, ds, s, at.calls)
  PROVE  Built(C, acc, at)
  BY DEF Built, CallsAre

\* A call starts.
LEMMA StartBuilt ==
  ASSUME NEW C, NEW acc, NEW at \in Position, Built(C, acc, at), ~Suppress,
         NEW e, e.type = "TOOL_CALL_START", Proper(at, e)
  PROVE  Built(C, TakeEvent(acc, e), Moved(at, e))
<1> DEFINE s == acc.p.slots
           cnt == acc.p.history_tool_call_cnt
           ds == acc.deltas
           n == at.calls
           m == n + 1
           t == Append(s, NewSlot)
           to == [phase |-> "name", calls |-> m]
           b == TakeEvent(acc, e)
<1>1. CallsAre(acc, s, cnt, ds) /\ Slots(s, cnt) /\ SlotsAt(s, at) /\ Told(C, ds, s, n)
  BY DEF Built, CallsAre, IsAcc, IsParser
<1>2. CallsAre(b, t, cnt, ds)
  BY <1>1, StartStep
<1>3. n \in Nat /\ DOMAIN s = 1 .. n
  BY <1>1 DEF SlotsAt, Position
<1>4. at.phase = "ended"
  BY DEF Proper
<1>5. \A i \in 1 .. n : Over(s[i])
  BY <1>1, <1>4 DEF SlotsAt, InPhase
<1>6. Moved(at, e) = to
  BY MovedFacts
<1> HIDE DEF b, n, s, cnt, ds
<1>7. DOMAIN t = 1 .. m /\ t[m] = NewSlot /\ \A i \in 1 .. n : t[i] = s[i]
  BY <1>1, <1>3, SlotAppended
<1>8. m \in Nat /\ n <= m /\ m # 0 /\ \A i \in 1 .. m : i \in 1 .. n \/ i = m
  BY <1>3
<1>9. to.phase = "name" /\ to.calls = m
  OBVIOUS
<1>10. 1 .. n \subseteq 1 .. m
  BY <1>3
<1>11. NewSlot.name_sent = FALSE
  BY DEF NewSlot
<1> HIDE DEF t, m, to
<1>12. SlotsAt(t, to)
  <2>1. InPhase(NewSlot, "name")
    BY StartsInName DEF InPhase
  <2>2. \A i \in 1 .. m : IF i = m THEN InPhase(t[i], "name") ELSE Over(t[i])
    BY <2>1, <1>5, <1>7, <1>8
  <2>3. QED BY <2>2, <1>7, <1>8, <1>9 DEF SlotsAt
<1>13. Told(C, ds, t, m)
  <2>1. DOMAIN s \subseteq DOMAIN t
    BY <1>3, <1>7, <1>10
  <2>2. \A i \in DOMAIN s : /\ t[i].name_sent <=> s[i].name_sent
                            /\ s[i].name_sent => /\ t[i].id = s[i].id /\ t[i].name = s[i].name
                                                 /\ t[i].streamed_json = s[i].streamed_json
    BY <1>3, <1>7
  <2>3. \A i \in DOMAIN t : i \notin DOMAIN s => ~t[i].name_sent
    BY <1>3, <1>7, <1>8, <1>11
  <2>4. QED BY <2>1, <2>2, <2>3, <1>1, <1>3, <1>8, ToldStill
<1>14. Built(C, b, to)
  BY <1>2, <1>9, <1>12, <1>13, BuiltIs
<1>15. QED BY <1>6, <1>14 DEF b

\* The slot of the last call changes in nothing the client has.
LEMMA PutBuilt ==
  ASSUME NEW C, NEW s, NEW ds, NEW at \in Position, SlotsAt(s, at), Told(C, ds, s, at.calls),
         at.calls # 0, NEW t, NEW phase, InPhase(t, phase), ~t.name_sent, ~s[at.calls].name_sent,
         NEW b, NEW cnt, CallsAre(b, [s EXCEPT ![at.calls] = t], cnt, ds)
  PROVE  Built(C, b, [phase |-> phase, calls |-> at.calls])
<1> DEFINE n == at.calls
           r == [s EXCEPT ![n] = t]
           to == [phase |-> phase, calls |-> n]
<1>1. n \in Nat /\ n # 0 /\ DOMAIN s = 1 .. n
  BY DEF SlotsAt, Position
<1>2. SlotsAt(r, to)
  BY SlotPut
<1>3. CallsAre(b, r, cnt, ds) /\ Told(C, ds, s, n) /\ ~s[n].name_sent
  OBVIOUS
<1>4. to.calls = n
  OBVIOUS
<1> HIDE DEF n
<1>5. n \in DOMAIN s /\ n <= n
  BY <1>1
<1>6. DOMAIN r = DOMAIN s /\ r[n] = t /\ \A i \in DOMAIN s : i # n => r[i] = s[i]
  BY <1>5, SlotReplaced
<1> HIDE DEF r, to
<1>7. Told(C, ds, r, n)
  <2>1. \A i \in DOMAIN s : /\ r[i].name_sent <=> s[i].name_sent
                            /\ s[i].name_sent => /\ r[i].id = s[i].id /\ r[i].name = s[i].name
                                                 /\ r[i].streamed_json = s[i].streamed_json
    BY <1>3, <1>6
  <2>2. DOMAIN s \subseteq DOMAIN r /\ \A i \in DOMAIN r : i \notin DOMAIN s => ~r[i].name_sent
    BY <1>6
  <2>3. QED BY <2>1, <2>2, <1>1, <1>3, <1>5, ToldStill
<1>8. Built(C, b, to)
  BY <1>2, <1>3, <1>4, <1>7, BuiltIs
<1>9. QED BY <1>8 DEF to, n

\* A part of its name.
LEMMA NameBuilt ==
  ASSUME NEW C, NEW acc, NEW at \in Position, Built(C, acc, at), ~Suppress,
         NEW e \in EventSet, e.type = "TOOL_NAME", Proper(at, e)
  PROVE  Built(C, TakeEvent(acc, e), Moved(at, e))
<1> DEFINE s == acc.p.slots
           cnt == acc.p.history_tool_call_cnt
           ds == acc.deltas
           n == at.calls
           slot == s[n]
           t == LongerName(slot, e.value)
           to == [phase |-> "name", calls |-> n]
           b == TakeEvent(acc, e)
<1>1. CallsAre(acc, s, cnt, ds) /\ SlotsAt(s, at) /\ Told(C, ds, s, n)
  BY DEF Built, CallsAre
<1>2. at.phase = "name" /\ e.index = n
  BY DEF Proper
<1>3. CallsAre(b, [s EXCEPT ![n] = t], cnt, ds)
  <2>1. CallsAre(b, [s EXCEPT ![e.index] = LongerName(s[e.index], e.value)], cnt, ds)
    BY <1>1, NameStep
  <2>2. QED BY <2>1, <1>2
<1>4. n \in Nat /\ n # 0 /\ DOMAIN s = 1 .. n
  BY <1>1, <1>2 DEF SlotsAt, Position
<1>5. Moved(at, e) = to
  <2>1. Moved(at, e) = at
    BY MovedFacts
  <2>2. QED BY <2>1, <1>2 DEF Position
<1>6. n \in DOMAIN s /\ n \in 1 .. n
  BY <1>4
<1>7. IsSlot(slot)
  BY <1>1, <1>6, SlotIs
<1>8. InName(slot)
  BY <1>1, <1>2, <1>6 DEF SlotsAt, InPhase
<1> HIDE DEF slot
<1>9. InName(t)
  BY <1>7, <1>8, NamePart
<1>10. ~t.name_sent /\ ~slot.name_sent /\ InPhase(t, "name")
  BY <1>8, <1>9 DEF InName, InPhase
<1> HIDE DEF t
<1>11. SlotsAt(s, at) /\ Told(C, ds, s, at.calls) /\ at.calls # 0 /\ ~s[at.calls].name_sent
       /\ CallsAre(b, [s EXCEPT ![at.calls] = t], cnt, ds)
  BY <1>1, <1>3, <1>4, <1>10 DEF slot
<1> HIDE DEF s, b, ds
<1>12. Built(C, b, [phase |-> "name", calls |-> at.calls])
  BY <1>10, <1>11, PutBuilt
<1>13. QED BY <1>5, <1>12 DEF b

\* More arguments of the last call are sent.
LEMMA MoreBuilt ==
  ASSUME NEW C \in Seq(Deltas), NEW s, NEW ds, NEW at \in Position, SlotsAt(s, at),
         Told(C, ds, s, at.calls), at.calls # 0, s[at.calls].name_sent,
         s[at.calls].streamed_json \in Jsons,
         NEW x \in Jsons, NEW t, NEW phase, InPhase(t, phase), t.name_sent,
         t.id = s[at.calls].id, t.name = s[at.calls].name,
         t.streamed_json = Cat(s[at.calls].streamed_json, x),
         NEW b, NEW cnt,
         CallsAre(b, [s EXCEPT ![at.calls] = t], cnt, MoreDeltas(ds, at.calls, x))
  PROVE  Built(C, b, [phase |-> phase, calls |-> at.calls])
<1> DEFINE n == at.calls
           r == [s EXCEPT ![n] = t]
           to == [phase |-> phase, calls |-> n]
           es == MoreDeltas(ds, n, x)
<1>1. n \in Nat /\ n # 0 /\ DOMAIN s = 1 .. n
  BY DEF SlotsAt, Position
<1>2. SlotsAt(r, to)
  BY SlotPut
<1>3. CallsAre(b, r, cnt, es) /\ Told(C, ds, s, n) /\ s[n].name_sent
      /\ s[n].streamed_json \in Jsons /\ t.id = s[n].id /\ t.name = s[n].name
      /\ t.streamed_json = Cat(s[n].streamed_json, x)
  OBVIOUS
<1>4. to.calls = n
  OBVIOUS
<1> HIDE DEF n, to
<1>5. Told(C, es, r, n)
  BY <1>1, <1>3, ToldMore
<1> HIDE DEF r, es
<1>6. Built(C, b, to)
  BY <1>2, <1>3, <1>4, <1>5, BuiltIs
<1>7. QED BY <1>6 DEF to, n

\* Its name is sent.
LEMMA NamedBuilt ==
  ASSUME NEW C \in Seq(Deltas), NEW s, NEW ds, NEW at \in Position, SlotsAt(s, at),
         Told(C, ds, s, at.calls), at.calls # 0, ~s[at.calls].name_sent,
         NEW t, NEW phase, InPhase(t, phase), t.name_sent, t.id \in Nat, t.name \in Name,
         t.streamed_json \in Jsons, NEW b, NEW cnt,
         CallsAre(b, [s EXCEPT ![at.calls] = t], cnt,
                  Append(ds, CallDelta(at.calls, t.id, t.name, t.streamed_json)))
  PROVE  Built(C, b, [phase |-> phase, calls |-> at.calls])
<1> DEFINE n == at.calls
           r == [s EXCEPT ![n] = t]
           to == [phase |-> phase, calls |-> n]
           es == Append(ds, CallDelta(n, t.id, t.name, t.streamed_json))
<1>1. n \in Nat /\ n # 0 /\ DOMAIN s = 1 .. n
  BY DEF SlotsAt, Position
<1>2. SlotsAt(r, to)
  BY SlotPut
<1>3. CallsAre(b, r, cnt, es) /\ Told(C, ds, s, n) /\ ~s[n].name_sent
  OBVIOUS
<1>4. to.calls = n
  OBVIOUS
<1> HIDE DEF n, to
<1>5. Told(C, es, r, n)
  BY <1>1, <1>3, ToldName
<1> HIDE DEF r, es
<1>6. Built(C, b, to)
  BY <1>2, <1>3, <1>4, <1>5, BuiltIs
<1>7. QED BY <1>6 DEF to, n

\* The last call, where an event of it comes.
LEMMA OpenCall ==
  ASSUME NEW C, NEW acc, NEW at \in Position, Built(C, acc, at), at.phase \in {"name", "args"}
  PROVE  LET s == acc.p.slots
             n == at.calls
             cnt == acc.p.history_tool_call_cnt
         IN  /\ CallsAre(acc, s, cnt, acc.deltas) /\ SlotsAt(s, at) /\ Told(C, acc.deltas, s, n)
             /\ n \in DOMAIN s /\ n # 0 /\ IsSlot(s[n]) /\ cnt + 1 \in Nat
             /\ InName(s[n]) \/ InArgs(s[n])
             /\ at.phase = "name" => InName(s[n])
             /\ at.phase = "args" => InArgs(s[n])
<1> DEFINE s == acc.p.slots
           n == at.calls
           cnt == acc.p.history_tool_call_cnt
<1>1. CallsAre(acc, s, cnt, acc.deltas) /\ SlotsAt(s, at) /\ Told(C, acc.deltas, s, n)
  BY DEF Built, CallsAre
<1>2. cnt + 1 \in Nat
  <2>1. cnt \in Nat
    BY DEF Built, IsAcc, IsParser
  <2> HIDE DEF cnt
  <2>2. QED BY <2>1
<1>3. n \in Nat /\ n # 0 /\ DOMAIN s = 1 .. n
  BY <1>1 DEF SlotsAt, Position
<1>4. n \in DOMAIN s /\ n \in 1 .. n
  BY <1>3
<1>5. IsSlot(s[n])
  BY <1>1, <1>4, SlotIs
<1>6. InPhase(s[n], at.phase)
  BY <1>1, <1>4 DEF SlotsAt
<1>7. QED BY <1>1, <1>2, <1>3, <1>4, <1>5, <1>6 DEF InPhase

\* A chunk of arguments.
LEMMA ArgBuilt ==
  ASSUME NEW C \in Seq(Deltas), NEW acc, NEW at \in Position, Built(C, acc, at), ~Suppress,
         NEW e \in EventSet, e.type = "ARG_VALUE_CHUNK", Proper(at, e)
  PROVE  Built(C, TakeEvent(acc, e), Moved(at, e))
<1> DEFINE s == acc.p.slots
           cnt == acc.p.history_tool_call_cnt
           ds == acc.deltas
           n == at.calls
           slot == s[n]
           v == e.value
           got == LongerArgs(slot, v)
           more == ComputeArgDelta(got, v)
           id == cnt + 1
           to == [phase |-> "args", calls |-> at.calls]
           b == TakeEvent(acc, e)
<1>1. /\ at.phase \in {"name", "args"} /\ e.index = n /\ v # <<>>
      /\ at.phase = "name" => v[1] \in Keys
  BY DEF Proper
<1>2. /\ CallsAre(acc, s, cnt, ds) /\ SlotsAt(s, at) /\ Told(C, ds, s, n)
      /\ n \in DOMAIN s /\ n # 0 /\ IsSlot(slot) /\ id \in Nat
      /\ InName(slot) \/ InArgs(slot)
      /\ at.phase = "name" => InName(slot)
      /\ at.phase = "args" => InArgs(slot)
  BY <1>1, OpenCall
<1>3. v \in Seq(Keys \union Letters)
  BY DEF EventSet
<1>4. InName(slot) => v[1] \in Keys
  BY <1>1, <1>2 DEF InName, InArgs
<1>5. Moved(at, e) = to
  BY MovedFacts
<1>6. /\ slot.name_sent =>
           CallsAre(b, [s EXCEPT ![n] = MoreSent(got, more)], cnt, MoreDeltas(ds, n, more))
      /\ ~slot.name_sent /\ AcceptToolName(slot.name) =>
           CallsAre(b, [s EXCEPT ![n] = NamedSlot(got, id)], id,
                    Append(ds, CallDelta(n, id, slot.name, <<>>)))
      /\ ~slot.name_sent /\ ~AcceptToolName(slot.name) =>
           CallsAre(b, [s EXCEPT ![n] = got], cnt, ds)
  <2>1. LET k    == e.index
            new  == LongerArgs(s[k], e.value)
            rest == ComputeArgDelta(new, e.value)
        IN  /\ s[k].name_sent =>
                 CallsAre(TakeEvent(acc, e), [s EXCEPT ![k] = MoreSent(new, rest)], cnt,
                          MoreDeltas(ds, k, rest))
            /\ ~s[k].name_sent /\ AcceptToolName(s[k].name) =>
                 CallsAre(TakeEvent(acc, e), [s EXCEPT ![k] = NamedSlot(new, cnt + 1)], cnt + 1,
                          Append(ds, CallDelta(k, cnt + 1, s[k].name, <<>>)))
            /\ ~s[k].name_sent /\ ~AcceptToolName(s[k].name) =>
                 CallsAre(TakeEvent(acc, e), [s EXCEPT ![k] = new], cnt, ds)
    BY <1>1, <1>2, ArgStep
  <2>2. e.index = at.calls
    BY <1>1
  <2>3. QED BY <2>1, <2>2, Zenon
<1>7. slot.name \in Name
  BY <1>2 DEF IsSlot
<1> HIDE DEF s, cnt, ds, n, v, b, id
<1>8. CASE slot.name_sent
  <2> DEFINE t == MoreSent(got, more)
  <2>1. InArgs(slot)
    BY <1>2, <1>8 DEF InName
  <2>2. /\ more \in Jsons /\ slot.streamed_json \in Jsons
        /\ t.name_sent /\ t.id = slot.id /\ t.name = slot.name
        /\ t.streamed_json = Cat(slot.streamed_json, more) /\ InArgs(t)
    <3> HIDE DEF slot
    <3>1. QED BY <2>1, <1>1, <1>2, <1>3, <1>8, ChunkSent
  <2>3. InPhase(t, "args")
    BY <2>2 DEF InPhase
  <2>4. CallsAre(b, [s EXCEPT ![n] = t], cnt, MoreDeltas(ds, n, more))
    BY <1>6, <1>8
  <2> HIDE DEF t, more
  <2>5. /\ SlotsAt(s, at) /\ Told(C, ds, s, at.calls) /\ at.calls # 0 /\ s[at.calls].name_sent
        /\ s[at.calls].streamed_json \in Jsons
        /\ t.id = s[at.calls].id /\ t.name = s[at.calls].name
        /\ t.streamed_json = Cat(s[at.calls].streamed_json, more)
        /\ CallsAre(b, [s EXCEPT ![at.calls] = t], cnt, MoreDeltas(ds, at.calls, more))
    BY <1>2, <1>8, <2>2, <2>4 DEF n
  <2>6. Built(C, b, to)
    BY <2>2, <2>3, <2>5, MoreBuilt
  <2>7. QED BY <2>6, <1>5 DEF b
<1>9. CASE ~slot.name_sent /\ AcceptToolName(slot.name)
  <2> DEFINE t == NamedSlot(got, id)
  <2>2. t.name_sent /\ t.id = id /\ t.name = slot.name /\ t.streamed_json = <<>> /\ InArgs(t)
    <3> HIDE DEF slot
    <3>1. QED BY <1>1, <1>2, <1>3, <1>4, <1>9, ChunkNames
  <2>3. InPhase(t, "args")
    BY <2>2 DEF InPhase
  <2>4. CallsAre(b, [s EXCEPT ![n] = t], id, Append(ds, CallDelta(n, id, slot.name, <<>>)))
    BY <1>6, <1>9
  <2> HIDE DEF t
  <2>5. /\ SlotsAt(s, at) /\ Told(C, ds, s, at.calls) /\ at.calls # 0 /\ ~s[at.calls].name_sent
        /\ CallsAre(b, [s EXCEPT ![at.calls] = t], id,
                    Append(ds, CallDelta(at.calls, t.id, t.name, t.streamed_json)))
        /\ t.id \in Nat /\ t.name \in Name /\ t.streamed_json \in Jsons
    BY <1>2, <1>7, <1>9, <2>2, <2>4, CatFacts DEF n
  <2>6. Built(C, b, to)
    BY <2>2, <2>3, <2>5, NamedBuilt
  <2>7. QED BY <2>6, <1>5 DEF b
<1>10. CASE ~slot.name_sent /\ ~AcceptToolName(slot.name)
  <2>2. ~got.name_sent /\ InArgs(got)
    <3> HIDE DEF slot
    <3>1. QED BY <1>1, <1>2, <1>3, <1>4, <1>10, ChunkRefused
  <2>3. InPhase(got, "args")
    BY <2>2 DEF InPhase
  <2>4. CallsAre(b, [s EXCEPT ![n] = got], cnt, ds)
    BY <1>6, <1>10
  <2> HIDE DEF got
  <2>5. /\ SlotsAt(s, at) /\ Told(C, ds, s, at.calls) /\ at.calls # 0 /\ ~s[at.calls].name_sent
        /\ CallsAre(b, [s EXCEPT ![at.calls] = got], cnt, ds)
    BY <1>2, <1>10, <2>4 DEF n
  <2>6. Built(C, b, to)
    BY <2>2, <2>3, <2>5, PutBuilt
  <2>7. QED BY <2>6, <1>5 DEF b
<1>11. QED BY <1>8, <1>9, <1>10

\* The end of a call.
LEMMA EndBuilt ==
  ASSUME NEW C \in Seq(Deltas), NEW acc, NEW at \in Position, Built(C, acc, at), ~Suppress,
         NEW e \in EventSet, e.type = "TOOL_CALL_END", Proper(at, e)
  PROVE  Built(C, TakeEvent(acc, e), Moved(at, e))
<1> DEFINE s == acc.p.slots
           cnt == acc.p.history_tool_call_cnt
           ds == acc.deltas
           n == at.calls
           slot == s[n]
           rest == FlushArgs(slot)
           got == MoreSent(slot, rest)
           id == cnt + 1
           to == [phase |-> "ended", calls |-> at.calls]
           b == TakeEvent(acc, e)
<1>1. at.phase \in {"name", "args"} /\ e.index = n
  BY DEF Proper
<1>2. /\ CallsAre(acc, s, cnt, ds) /\ SlotsAt(s, at) /\ Told(C, ds, s, n)
      /\ n \in DOMAIN s /\ n # 0 /\ IsSlot(slot) /\ id \in Nat
      /\ InName(slot) \/ InArgs(slot)
  BY <1>1, OpenCall
<1>5. Moved(at, e) = to
  BY MovedFacts
<1>6. /\ slot.name_sent => CallsAre(b, [s EXCEPT ![n] = got], cnt, MoreDeltas(ds, n, rest))
      /\ ~slot.name_sent /\ AcceptToolName(slot.name) =>
           CallsAre(b, [s EXCEPT ![n] = NamedSlot(got, id)], id,
                    Append(ds, CallDelta(n, id, slot.name, rest)))
      /\ ~slot.name_sent /\ ~AcceptToolName(slot.name) =>
           CallsAre(b, [s EXCEPT ![n] = got], cnt, ds)
  <2>1. LET k    == e.index
            left == FlushArgs(s[k])
            new  == MoreSent(s[k], left)
        IN  /\ s[k].name_sent =>
                 CallsAre(TakeEvent(acc, e), [s EXCEPT ![k] = new], cnt, MoreDeltas(ds, k, left))
            /\ ~s[k].name_sent /\ AcceptToolName(s[k].name) =>
                 CallsAre(TakeEvent(acc, e), [s EXCEPT ![k] = NamedSlot(new, cnt + 1)], cnt + 1,
                          Append(ds, CallDelta(k, cnt + 1, s[k].name, left)))
            /\ ~s[k].name_sent /\ ~AcceptToolName(s[k].name) =>
                 CallsAre(TakeEvent(acc, e), [s EXCEPT ![k] = new], cnt, ds)
    BY <1>1, <1>2, EndStep
  <2>2. e.index = at.calls
    BY <1>1
  <2>3. QED BY <2>1, <2>2, Zenon
<1>7. slot.name \in Name
  BY <1>2 DEF IsSlot
<1> HIDE DEF s, cnt, ds, n, b, id
<1>8. CASE slot.name_sent
  <2>1. InArgs(slot)
    BY <1>2, <1>8 DEF InName
  <2>2. /\ rest \in Jsons /\ slot.streamed_json \in Jsons
        /\ got.name_sent /\ got.id = slot.id /\ got.name = slot.name
        /\ got.streamed_json = Cat(slot.streamed_json, rest) /\ Over(got)
    <3> HIDE DEF slot
    <3>1. QED BY <2>1, <1>2, <1>8, EndSent
  <2>3. InPhase(got, "ended")
    BY <2>2 DEF InPhase
  <2>4. CallsAre(b, [s EXCEPT ![n] = got], cnt, MoreDeltas(ds, n, rest))
    BY <1>6, <1>8
  <2> HIDE DEF got, rest
  <2>5. /\ SlotsAt(s, at) /\ Told(C, ds, s, at.calls) /\ at.calls # 0 /\ s[at.calls].name_sent
        /\ s[at.calls].streamed_json \in Jsons
        /\ got.id = s[at.calls].id /\ got.name = s[at.calls].name
        /\ got.streamed_json = Cat(s[at.calls].streamed_json, rest)
        /\ CallsAre(b, [s EXCEPT ![at.calls] = got], cnt, MoreDeltas(ds, at.calls, rest))
    BY <1>2, <1>8, <2>2, <2>4 DEF n
  <2>6. Built(C, b, to)
    BY <2>2, <2>3, <2>5, MoreBuilt
  <2>7. QED BY <2>6, <1>5 DEF b
<1>9. CASE ~slot.name_sent /\ AcceptToolName(slot.name)
  <2> DEFINE t == NamedSlot(got, id)
  <2>2. /\ rest \in Jsons
        /\ t.name_sent /\ t.id = id /\ t.name = slot.name /\ t.streamed_json = rest /\ Over(t)
    <3> HIDE DEF slot
    <3>1. QED BY <1>2, <1>9, EndNames
  <2>3. InPhase(t, "ended")
    BY <2>2 DEF InPhase
  <2>4. CallsAre(b, [s EXCEPT ![n] = t], id, Append(ds, CallDelta(n, id, slot.name, rest)))
    BY <1>6, <1>9
  <2> HIDE DEF t, rest
  <2>5. /\ SlotsAt(s, at) /\ Told(C, ds, s, at.calls) /\ at.calls # 0 /\ ~s[at.calls].name_sent
        /\ CallsAre(b, [s EXCEPT ![at.calls] = t], id,
                    Append(ds, CallDelta(at.calls, t.id, t.name, t.streamed_json)))
        /\ t.id \in Nat /\ t.name \in Name /\ t.streamed_json \in Jsons
    BY <1>2, <1>7, <1>9, <2>2, <2>4 DEF n
  <2>6. Built(C, b, to)
    BY <2>2, <2>3, <2>5, NamedBuilt
  <2>7. QED BY <2>6, <1>5 DEF b
<1>10. CASE ~slot.name_sent /\ ~AcceptToolName(slot.name)
  <2>2. ~got.name_sent /\ Over(got)
    <3> HIDE DEF slot, rest
    <3>1. QED BY <1>2, <1>10, EndRefused
  <2>3. InPhase(got, "ended")
    BY <2>2 DEF InPhase
  <2>4. CallsAre(b, [s EXCEPT ![n] = got], cnt, ds)
    BY <1>6, <1>10
  <2> HIDE DEF got
  <2>5. /\ SlotsAt(s, at) /\ Told(C, ds, s, at.calls) /\ at.calls # 0 /\ ~s[at.calls].name_sent
        /\ CallsAre(b, [s EXCEPT ![at.calls] = got], cnt, ds)
    BY <1>2, <1>10, <2>4 DEF n
  <2>6. Built(C, b, to)
    BY <2>2, <2>3, <2>5, PutBuilt
  <2>7. QED BY <2>6, <1>5 DEF b
<1>11. QED BY <1>8, <1>9, <1>10

\* Any event.
LEMMA EventBuilt ==
  ASSUME NEW C \in Seq(Deltas), NEW acc, NEW at \in Position, Built(C, acc, at), ~Suppress,
         NEW e \in EventSet, Proper(at, e)
  PROVE  Built(C, TakeEvent(acc, e), Moved(at, e))
<1>1. CASE Effective(e)
  BY <1>1, StartBuilt, NameBuilt, ArgBuilt, EndBuilt, EventKinds DEF Effective
<1>2. CASE ~Effective(e)
  <2> DEFINE s == acc.p.slots
             cnt == acc.p.history_tool_call_cnt
             ds == acc.deltas
             b == TakeEvent(acc, e)
  <2>1. CallsAre(acc, s, cnt, ds) /\ SlotsAt(s, at) /\ Told(C, ds, s, at.calls)
    BY DEF Built, CallsAre
  <2>2. CallsAre(b, s, cnt, ds)
    BY <2>1, <1>2, OtherStep
  <2>3. Moved(at, e) = at
    <3>1. e.type \notin CallEvents
      BY <1>2 DEF Effective
    <3>2. QED BY <3>1, MovedFacts DEF CallEvents
  <2> HIDE DEF b, s, cnt, ds
  <2>4. Built(C, b, at)
    BY <2>1, <2>2, BuiltIs
  <2>5. QED BY <2>3, <2>4 DEF b
<1>3. QED BY <1>1, <1>2

---------------------------------------------------------------------------
(* A batch, and all the batches as one.                                    *)

\* Two runs of the parser have the same calls.
SameCalls(a, b) ==
  /\ IsAcc(a) /\ IsAcc(b) /\ a.p.slots = b.p.slots
  /\ a.p.history_tool_call_cnt = b.p.history_tool_call_cnt

\* What was said of them of both.
LEMMA SameIs ==
  ASSUME NEW a, NEW b, NEW s, NEW cnt, NEW ds, NEW es, CallsAre(a, s, cnt, ds), CallsAre(b, s, cnt, es)
  PROVE  SameCalls(a, b)
  BY DEF SameCalls, CallsAre

\* They have them after an event, too.
LEMMA SameEvent ==
  ASSUME NEW a, NEW b, SameCalls(a, b), NEW e \in EventSet,
         Effective(e) /\ e.type # "TOOL_CALL_START" => e.index \in DOMAIN a.p.slots
  PROVE  SameCalls(TakeEvent(a, e), TakeEvent(b, e))
<1> DEFINE s == a.p.slots
           cnt == a.p.history_tool_call_cnt
           ds == a.deltas
           es == b.deltas
           n == e.index
           c == TakeEvent(a, e)
           d == TakeEvent(b, e)
<1>1. CallsAre(a, s, cnt, ds) /\ CallsAre(b, s, cnt, es)
  BY DEF SameCalls, CallsAre
<1>2. CASE ~Effective(e)
  <2>1. CallsAre(c, s, cnt, ds) /\ CallsAre(d, s, cnt, es)
    <3> HIDE DEF s, cnt, ds, es
    <3>1. QED BY <1>1, <1>2, OtherStep
  <2> HIDE DEF c, d, s, cnt, ds, es
  <2>2. SameCalls(c, d)
    BY <2>1, SameIs
  <2>3. QED BY <2>2 DEF c, d
<1>3. CASE Effective(e) /\ e.type = "TOOL_CALL_START"
  <2>0. ~Suppress
    BY <1>3 DEF Effective
  <2>1. CallsAre(c, Append(s, NewSlot), cnt, ds) /\ CallsAre(d, Append(s, NewSlot), cnt, es)
    <3> HIDE DEF s, cnt, ds, es
    <3>1. QED BY <1>1, <1>3, <2>0, StartStep
  <2> HIDE DEF c, d, s, cnt, ds, es
  <2>2. SameCalls(c, d)
    BY <2>1, SameIs
  <2>3. QED BY <2>2 DEF c, d
<1>4. CASE Effective(e) /\ e.type = "TOOL_NAME"
  <2>0. ~Suppress
    BY <1>4 DEF Effective
  <2> DEFINE t == [s EXCEPT ![e.index] = LongerName(s[e.index], e.value)]
  <2>1. CallsAre(c, t, cnt, ds) /\ CallsAre(d, t, cnt, es)
    <3> HIDE DEF s, cnt, ds, es
    <3>1. QED BY <1>1, <1>4, <2>0, NameStep
  <2> HIDE DEF c, d, t, cnt, ds, es
  <2>2. SameCalls(c, d)
    BY <2>1, SameIs
  <2>3. QED BY <2>2 DEF c, d
<1>5. CASE Effective(e) /\ e.type = "ARG_VALUE_CHUNK"
  <2>0. ~Suppress /\ n \in DOMAIN s
    BY <1>5 DEF Effective
  <2> DEFINE got == LongerArgs(s[n], e.value)
             more == ComputeArgDelta(got, e.value)
             Steps(x, fs) ==
               /\ s[n].name_sent =>
                    CallsAre(x, [s EXCEPT ![n] = MoreSent(got, more)], cnt, MoreDeltas(fs, n, more))
               /\ ~s[n].name_sent /\ AcceptToolName(s[n].name) =>
                    CallsAre(x, [s EXCEPT ![n] = NamedSlot(got, cnt + 1)], cnt + 1,
                             Append(fs, CallDelta(n, cnt + 1, s[n].name, <<>>)))
               /\ ~s[n].name_sent /\ ~AcceptToolName(s[n].name) =>
                    CallsAre(x, [s EXCEPT ![n] = got], cnt, fs)
  <2>1. Steps(c, ds) /\ Steps(d, es)
    <3> HIDE DEF s, cnt, ds, es
    <3>1. QED BY <1>1, <1>5, <2>0, ArgStep
  <2> HIDE DEF c, d, s, cnt, ds, es, n, got, more
  <2>2. SameCalls(c, d)
    BY <2>1, SameIs
  <2>3. QED BY <2>2 DEF c, d
<1>6. CASE Effective(e) /\ e.type = "TOOL_CALL_END"
  <2>0. ~Suppress /\ n \in DOMAIN s
    BY <1>6 DEF Effective
  <2> DEFINE rest == FlushArgs(s[n])
             got == MoreSent(s[n], rest)
             Steps(x, fs) ==
               /\ s[n].name_sent =>
                    CallsAre(x, [s EXCEPT ![n] = got], cnt, MoreDeltas(fs, n, rest))
               /\ ~s[n].name_sent /\ AcceptToolName(s[n].name) =>
                    CallsAre(x, [s EXCEPT ![n] = NamedSlot(got, cnt + 1)], cnt + 1,
                             Append(fs, CallDelta(n, cnt + 1, s[n].name, rest)))
               /\ ~s[n].name_sent /\ ~AcceptToolName(s[n].name) =>
                    CallsAre(x, [s EXCEPT ![n] = got], cnt, fs)
  <2>1. Steps(c, ds) /\ Steps(d, es)
    <3> HIDE DEF s, cnt, ds, es
    <3>1. QED BY <1>1, <1>6, <2>0, EndStep
  <2> HIDE DEF c, d, s, cnt, ds, es, n, got, rest
  <2>2. SameCalls(c, d)
    BY <2>1, SameIs
  <2>3. QED BY <2>2 DEF c, d
<1>7. QED BY <1>2, <1>3, <1>4, <1>5, <1>6, EventKinds DEF Effective

\* Before the first event of a batch nothing is told.
LEMMA NewAccIs ==
  ASSUME NEW p, IsParser(p)
  PROVE  /\ IsAcc(NewAcc(p)) /\ NewAcc(p).p = p /\ NewAcc(p).deltas = <<>>
<1> DEFINE b == NewAcc(p)
<1>1. /\ b.p = p /\ b.deltas = <<>>
      /\ b = [p |-> b.p, content |-> b.content, reasoning |-> b.reasoning,
              deltas |-> b.deltas, seen |-> b.seen]
  BY DEF NewAcc
<1> HIDE DEF b
<1>2. QED BY <1>1 DEF IsAcc, b

\* The calls that the client has.
LEMMA BuiltNothing ==
  ASSUME NEW p, IsParser(p), NEW C, NEW at, SlotsAt(p.slots, at), Shows(C, p.slots)
  PROVE  Built(C, NewAcc(p), at) /\ C \in Seq(Deltas)
<1> DEFINE b == NewAcc(p)
<1>1. IsAcc(b) /\ b.p = p /\ b.deltas = <<>>
  BY NewAccIs
<1> HIDE DEF b
<1>2. C \in Seq(Deltas) /\ Ascending(C)
  BY DEF Shows
<1>3. Coalesce(C \o Coalesce(<<>>)) = C
  <2>1. C \o <<>> = C
    BY <1>2, ConcatEmptySeq
  <2>2. Coalesce(C) = C
    BY <1>2, CoalesceSame
  <2>3. QED BY <2>1, <2>2, CoalesceNothing
<1>4. <<>> \in Seq(Deltas) /\ Ascending(<<>>) /\ Within(<<>>, at.calls)
  <2>1. <<>> \in Seq(Deltas) /\ Len(<<>>) = 0
    BY EmptySeq
  <2>2. \A i \in 1 .. 0 : FALSE
    OBVIOUS
  <2>3. QED BY <2>1, <2>2 DEF Ascending, Within
<1>5. Told(C, <<>>, p.slots, at.calls)
  BY <1>3, <1>4, CoalesceNothing DEF Told
<1>6. Built(C, b, at)
  BY <1>1, <1>5 DEF Built
<1>7. QED BY <1>2, <1>6 DEF b

\* The runs of the parser along a batch, and along all the batches as one.
LEMMA BatchRuns ==
  ASSUME NEW g \in Seq(EventSet), NEW w \in Seq(EventSet), NEW p, IsParser(p),
         SameCalls(FoldLeft(TakeEvent, NewAcc(NewParser), g), NewAcc(p)),
         NEW d, Traces(d, g \o w, Len(g) + Len(w)), NEW C \in Seq(Deltas),
         ~Suppress => Built(C, NewAcc(p), d[Len(g)])
  PROVE  LET b == FoldLeft(TakeEvent, NewAcc(p), w)
         IN  /\ SameCalls(FoldLeft(TakeEvent, NewAcc(NewParser), g \o w), b)
             /\ ~Suppress => Built(C, b, d[Len(g) + Len(w)])
             /\ Suppress => b.p.slots = p.slots /\ b.deltas = <<>>
<1> DEFINE base == NewAcc(NewParser)
           acc == NewAcc(p)
           v == g \o w
           n == Len(g)
           m == Len(w)
           whole == FoldLeft(TakeEvent, base, v)
           part == FoldLeft(TakeEvent, base, g)
           b == FoldLeft(TakeEvent, acc, w)
<1>1. /\ n \in Nat /\ m \in Nat /\ v \in Seq(EventSet) /\ Len(v) = n + m
      /\ \A i \in 1 .. n : v[i] = g[i] /\ g[i] \in EventSet
      /\ \A i \in 1 .. m : v[n + i] = w[i] /\ w[i] \in EventSet
  BY JoinedAt
<1>2. DOMAIN g = 1 .. n /\ DOMAIN w = 1 .. m /\ DOMAIN v = 1 .. n + m
  <2>1. DOMAIN v = 1 .. Len(v)
    <3> HIDE DEF v
    <3>1. QED BY <1>1, LenProperties
  <2>2. QED BY <2>1, <1>1, LenProperties
<1>3. /\ SameCalls(part, acc) /\ Traces(d, v, n + m) /\ (~Suppress => Built(C, acc, d[n]))
      /\ acc.deltas = <<>> /\ acc.p = p
  BY NewAccIs
<1> HIDE DEF base, acc, v, n, m
<1>4. PICK f : IsLoop("events", f, base, v, n + m, whole)
  <2>1. n + m \in Nat
    BY <1>1
  <2>2. HasLoop("events", base, v, n + m, whole)
    BY <1>2, <2>1, EventLoop
  <2>3. QED BY <2>2 DEF HasLoop
<1>5. PICK h : IsLoop("events", h, base, g, n, part)
  <2>1. HasLoop("events", base, g, n, part)
    BY <1>1, <1>2, EventLoop
  <2>2. QED BY <2>1 DEF HasLoop
<1>6. PICK r : IsLoop("events", r, acc, w, m, b)
  <2>1. HasLoop("events", acc, w, m, b)
    BY <1>1, <1>2, EventLoop
  <2>2. QED BY <2>1 DEF HasLoop
<1> HIDE DEF whole, part, b
<1>7. f[n] = part
  <2>1. IsLoop("events", h, base, v, n, part)
    BY <1>5, <1>1 DEF IsLoop
  <2>2. n + m \in Nat /\ n \in 0 .. n + m /\ n \in 0 .. n
    BY <1>1
  <2>3. \A i \in 0 .. n : f[i] = h[i]
    BY <1>4, <2>1, <2>2, LoopsAgree
  <2>4. h[n] = part
    BY <1>5 DEF IsLoop
  <2>5. QED BY <2>2, <2>3, <2>4
<1>8. /\ f[n + m] = whole /\ r[0] = acc /\ r[m] = b
      /\ \A k \in 1 .. n + m : f[k] = TakeEvent(f[k - 1], v[k])
      /\ \A k \in 1 .. m : r[k] = TakeEvent(r[k - 1], w[k])
  <2>1. /\ f[n + m] = whole /\ r[0] = acc /\ r[m] = b
        /\ \A k \in 1 .. n + m : f[k] = Step("events", f[k - 1], v[k])
        /\ \A k \in 1 .. m : r[k] = Step("events", r[k - 1], w[k])
    BY <1>4, <1>6 DEF IsLoop
  <2>2. \A x, y : Step("events", x, y) = TakeEvent(x, y)
    BY StepIs
  <2>3. QED BY <2>1, <2>2, Zenon
<1> DEFINE Good == {k \in Nat : k <= m => /\ SameCalls(f[n + k], r[k])
                                          /\ ~Suppress => Built(C, r[k], d[n + k])
                                          /\ Suppress => r[k].p.slots = p.slots /\ r[k].deltas = <<>>}
<1>9. 0 \in Good
  <2>1. n + 0 = n
    BY <1>1
  <2>2. QED BY <2>1, <1>3, <1>7, <1>8
<1>10. ASSUME NEW k \in Nat, k \in Good PROVE k + 1 \in Good
  <2>1. SUFFICES ASSUME k + 1 <= m
                 PROVE  /\ SameCalls(f[n + (k + 1)], r[k + 1])
                        /\ ~Suppress => Built(C, r[k + 1], d[n + (k + 1)])
                        /\ Suppress => r[k + 1].p.slots = p.slots /\ r[k + 1].deltas = <<>>
    OBVIOUS
  <2> DEFINE i == k + 1
             j == n + (k + 1)
             e == w[i]
             at == d[n + k]
  <2>2. /\ i \in 1 .. m /\ j \in 1 .. n + m /\ i - 1 = k /\ j - 1 = n + k
        /\ j = n + i /\ k <= m /\ n + k \in 0 .. n + m /\ n + m \in Nat
    BY <2>1, <1>1
  <2>3. SameCalls(f[n + k], r[k]) /\ (~Suppress => Built(C, r[k], at))
        /\ (Suppress => r[k].p.slots = p.slots /\ r[k].deltas = <<>>)
    BY <2>2, <1>10
  <2>4. e \in EventSet /\ v[j] = e
    BY <2>2, <1>1
  <2> HIDE DEF i, j, e
  <2>5. f[j] = TakeEvent(f[n + k], e) /\ r[i] = TakeEvent(r[k], e)
    <3>1. f[j] = TakeEvent(f[j - 1], v[j])
      BY <2>2, <1>8
    <3>2. r[i] = TakeEvent(r[i - 1], w[i])
      BY <2>2, <1>8
    <3>3. QED BY <3>1, <3>2, <2>2, <2>4 DEF e
  <2>6. Proper(at, e) /\ d[j] = Moved(at, e)
    <3>1. Proper(d[j - 1], v[j]) /\ d[j] = Moved(d[j - 1], v[j])
      BY <1>3, <2>2 DEF Traces
    <3>2. QED BY <3>1, <2>2, <2>4
  <2>7. at \in Position
    <3>1. \A x \in 0 .. n + m : d[x] \in Position
      BY <1>3, <2>2, TracePositions
    <3>2. QED BY <3>1, <2>2
  <2> HIDE DEF at
  <2>8. ~Suppress => Built(C, r[i], d[j])
    <3>1. SUFFICES ASSUME ~Suppress PROVE Built(C, TakeEvent(r[k], e), Moved(at, e))
      BY <2>5, <2>6
    <3>2. QED BY <3>1, <2>3, <2>4, <2>6, <2>7, EventBuilt
  <2>9. SameCalls(f[j], r[i])
    <3>1. Effective(e) /\ e.type # "TOOL_CALL_START" => e.index \in DOMAIN f[n + k].p.slots
      <4>1. SUFFICES ASSUME Effective(e), e.type # "TOOL_CALL_START"
                     PROVE  e.index \in DOMAIN r[k].p.slots
        BY <2>3 DEF SameCalls
      <4>2. Built(C, r[k], at)
        BY <4>1, <2>3 DEF Effective
      <4>3. at.phase \in {"name", "args"} /\ e.index = at.calls
        BY <4>1, <2>6, EventKinds DEF Proper, Effective
      <4>4. QED BY <4>2, <4>3, <2>7, OpenCall
    <3>2. SameCalls(TakeEvent(f[n + k], e), TakeEvent(r[k], e))
      BY <3>1, <2>3, <2>4, SameEvent
    <3>3. QED BY <3>2, <2>5
  <2>10. Suppress => r[i].p.slots = p.slots /\ r[i].deltas = <<>>
    <3>1. SUFFICES ASSUME Suppress PROVE r[i].p.slots = p.slots /\ r[i].deltas = <<>>
      OBVIOUS
    <3>2. IsAcc(r[k])
      BY <2>3 DEF SameCalls
    <3>3. Effect(r[k], e, TakeEvent(r[k], e))
      BY <3>2, <2>4, EventEffect
    <3>4. ~Effective(e)
      BY <3>1 DEF Effective
    <3>5. QED BY <3>1, <3>3, <3>4, <2>3, <2>5 DEF Effect
  <2>11. QED BY <2>8, <2>9, <2>10 DEF i, j
<1>11. m \in Good
  <2> HIDE DEF Good
  <2>1. QED BY <1>1, <1>9, <1>10, NatInductionSet
<1>12. /\ SameCalls(whole, b) /\ (~Suppress => Built(C, b, d[n + m]))
       /\ (Suppress => b.p.slots = p.slots /\ b.deltas = <<>>)
  <2>1. m <= m
    BY <1>1
  <2>2. QED BY <2>1, <1>8, <1>11
<1>13. QED BY <1>12 DEF whole, b, acc, base, v, n, m

---------------------------------------------------------------------------
(* The calls from delta to delta.                                          *)

\* The calls of a delta, and of the parser after it.
OutCalls(acc, out) ==
  /\ out.p.slots = acc.p.slots
  /\ out.p.history_tool_call_cnt = acc.p.history_tool_call_cnt
  /\ out.calls = Coalesce(acc.deltas)

\* _events_to_delta after its loop.
LEMMA DeltaCalls ==
  ASSUME NEW acc, IsAcc(acc), NEW last \in BOOLEAN
  PROVE  OutCalls(acc, DeltaOf(acc, last))
<1> DEFINE o == acc.p
           d == IF acc.seen /\ acc.deltas # <<>> THEN o.deferred_content ELSE <<>>
           p == [o EXCEPT !.deferred_content = d]
           text == Lead(p, Release(acc))
           as == Assemble(p, text, last)
           out == DeltaOf(acc, last)
           v == p.content_has_nonws \/ ~Blanks(text)
           early == ~p.content_has_nonws /\ text # <<>> /\ Blanks(text)
           wait == early /\ p.slots = <<>> /\ ~last
           drop == early /\ p.slots # <<>> /\ DropWsOnly
           e == IF wait THEN text ELSE p.deferred_content
           p1 == [p EXCEPT !.content_has_nonws = v]
           q == [p1 EXCEPT !.deferred_content = e]
           calls == Coalesce(acc.deltas)
<1>1. IsParser(o)
  BY DEF IsAcc
<1>2. out = [p |-> as.p, content |-> as.content, reasoning |-> acc.reasoning,
             calls |-> calls]
  <2>1. p = [acc.p EXCEPT !.deferred_content =
               IF acc.seen /\ acc.deltas # <<>> THEN @ ELSE <<>>]
    OBVIOUS
  <2> HIDE DEF p
  <2>2. QED BY <2>1, Zenon DEF DeltaOf
<1>3. /\ IsParser(p) /\ p.slots = o.slots
      /\ p.history_tool_call_cnt = o.history_tool_call_cnt
  <2> HIDE DEF o, d
  <2>1. QED BY <1>1 DEF IsParser
<1>4. as = [p |-> q, content |-> IF wait \/ drop THEN <<>> ELSE text]
  <2> HIDE DEF p, text
  <2>1. q = [p EXCEPT !.content_has_nonws = @ \/ ~Blanks(text),
                      !.deferred_content = IF wait THEN text ELSE @]
    BY <1>3 DEF IsParser
  <2> HIDE DEF q
  <2>2. QED BY <2>1, Zenon DEF Assemble
<1> HIDE DEF p, as, text, calls
<1>5. /\ IsParser(p1) /\ p1.slots = o.slots
      /\ p1.history_tool_call_cnt = o.history_tool_call_cnt
  <2> HIDE DEF v
  <2>1. QED BY <1>3 DEF IsParser
<1> HIDE DEF p1
<1>6. q.slots = o.slots /\ q.history_tool_call_cnt = o.history_tool_call_cnt
  <2> HIDE DEF v, e
  <2>1. QED BY <1>5 DEF IsParser
<1> HIDE DEF q, v, wait, drop, e, out
<1>7. out.p = q /\ out.calls = calls
  BY <1>2, <1>4
<1>8. OutCalls(acc, out)
  BY <1>6, <1>7 DEF OutCalls, calls
<1>9. QED BY <1>8 DEF out

\* _strip_trailing_reasoning
LEMMA TrailingCalls ==
  ASSUME NEW acc, NEW last, NEW out, IsOut(acc, last, out), OutCalls(acc, out)
  PROVE  OutCalls(acc, StripTrailingReasoning(out))
<1> DEFINE new == StripTrailingReasoning(out)
           o == out.p
           combined == o.deferred_reasoning \o out.reasoning
           s == StripEnd(combined)
           rest == From(combined, Len(s) + 1)
           left == IF o.reasoning_ended THEN <<>> ELSE o.deferred_reasoning
           a == [o EXCEPT !.deferred_reasoning = rest]
           b == [o EXCEPT !.deferred_reasoning = left]
<1>1. /\ IsParser(o)
      /\ out = [p |-> out.p, content |-> out.content, reasoning |-> out.reasoning,
                calls |-> out.calls]
  BY DEF IsOut
<1>2. CASE ~StripReasoning
  <2>1. new = out
    BY <1>2 DEF StripTrailingReasoning
  <2> HIDE DEF new
  <2>2. OutCalls(acc, new)
    BY <2>1
  <2>3. QED BY <2>2 DEF new
<1>3. CASE StripReasoning /\ out.reasoning # <<>>
  <2>1. new = [out EXCEPT !.reasoning = s, !.p = a]
    BY <1>3, Zenon DEF StripTrailingReasoning
  <2>2. a.slots = o.slots /\ a.history_tool_call_cnt = o.history_tool_call_cnt
    <3> HIDE DEF o, rest
    <3>1. QED BY <1>1 DEF IsParser
  <2> HIDE DEF new, a, s
  <2>3. new.p = a /\ new.calls = out.calls
    BY <2>1, <1>1
  <2>4. OutCalls(acc, new)
    BY <2>2, <2>3 DEF OutCalls
  <2>5. QED BY <2>4 DEF new
<1>4. CASE StripReasoning /\ out.reasoning = <<>>
  <2>1. new = [out EXCEPT !.p = b]
    BY <1>4, Zenon DEF StripTrailingReasoning
  <2>2. b.slots = o.slots /\ b.history_tool_call_cnt = o.history_tool_call_cnt
    <3> HIDE DEF o, left
    <3>1. QED BY <1>1 DEF IsParser
  <2> HIDE DEF new, b
  <2>3. new.p = b /\ new.calls = out.calls
    BY <2>1, <1>1
  <2>4. OutCalls(acc, new)
    BY <2>2, <2>3 DEF OutCalls
  <2>5. QED BY <2>4 DEF new
<1>5. QED BY <1>2, <1>3, <1>4

\* f is the parser along g, as one batch.
ParsedBy(f, g) ==
  /\ f[0] = NewAcc(NewParser)
  /\ \A k \in 1 .. Len(g) : f[k] = TakeEvent(f[k - 1], g[k])

\* It ends where the loop over the events does.
LEMMA ParsedByLoop ==
  ASSUME NEW g \in Seq(EventSet), NEW f, ParsedBy(f, g)
  PROVE  FoldLeft(TakeEvent, NewAcc(NewParser), g) = f[Len(g)]
<1> DEFINE base == NewAcc(NewParser)
           n == Len(g)
           whole == FoldLeft(TakeEvent, base, g)
<1>1. n \in Nat /\ DOMAIN g = 1 .. n
  BY LenProperties
<1>2. f[0] = base /\ \A k \in 1 .. n : f[k] = TakeEvent(f[k - 1], g[k])
  BY DEF ParsedBy
<1> HIDE DEF base, n
<1>3. PICK h : IsLoop("events", h, base, g, n, whole)
  <2>1. HasLoop("events", base, g, n, whole)
    BY <1>1, EventLoop
  <2>2. QED BY <2>1 DEF HasLoop
<1> HIDE DEF whole
<1>4. IsLoop("events", f, base, g, n, f[n])
  <2>1. \A k \in 1 .. n : f[k] = Step("events", f[k - 1], g[k])
    BY <1>2, StepIs
  <2>2. QED BY <1>2, <2>1 DEF IsLoop
<1>5. n \in 0 .. n
  BY <1>1
<1>6. \A i \in 0 .. n : h[i] = f[i]
  BY <1>1, <1>3, <1>4, <1>5, LoopsAgree
<1>7. h[n] = whole
  BY <1>3 DEF IsLoop
<1>8. QED BY <1>5, <1>6, <1>7 DEF whole, base, n

\* There is such a run.
LEMMA ParsedByExists ==
  ASSUME NEW g \in Seq(EventSet) PROVE \E f : ParsedBy(f, g)
<1> DEFINE base == NewAcc(NewParser)
           n == Len(g)
<1>1. n \in Nat /\ DOMAIN g = 1 .. n
  BY LenProperties
<1> HIDE DEF base, n
<1>2. HasRun(base, g, n)
  BY <1>1, EventSteps
<1>3. PICK f : IsRun(f, base, g, n)
  BY <1>2 DEF HasRun
<1>4. f[0] = base /\ \A k \in 1 .. n : f[k] = TakeEvent(f[k - 1], g[k])
  BY <1>3, Zenon DEF IsRun
<1>5. QED BY <1>4 DEF ParsedBy, base, n

\* It is one of the events parsed when the request is the same.
LEMMA ParsedByNext ==
  ASSUME request' = request, NEW f, NEW v, ParsedBy(f, v), given' = v
  PROVE  ParsedBy(f, given)'
<1>1. ParsedBy(f, given)' <=>
        /\ f[0] = NewAcc(NewParser)
        /\ \A k \in 1 .. Len(given') : f[k] = TakeEvent(f[k - 1], given[k])'
  BY DEF ParsedBy
<1>2. \A k : TakeEvent(f[k - 1], given[k])' = TakeEvent(f[k - 1], given'[k])
  BY DEF TakeEvent, Suppress
<1>3. \A k \in 1 .. Len(v) : f[k] = TakeEvent(f[k - 1], v[k])
  BY DEF ParsedBy
<1>4. QED BY <1>1, <1>2, <1>3 DEF ParsedBy

\* What the client has of the calls, and the parser: c is where the calls are
\* after each event, f the parser along all of them as one batch.
CallsKept(c, f) ==
  /\ Tracked(c) /\ ParsedBy(f, given) /\ SameCalls(f[Len(given)], NewAcc(parser))
  /\ ~Suppress => SlotsAt(parser.slots, c[Len(given)]) /\ Shows(client.calls, parser.slots)
  /\ Suppress => parser.slots = <<>> /\ client.calls = <<>>

CallsInv == \E c, f : CallsKept(c, f)

\* Before the first delta.
LEMMA CallsInit == ASSUME Init PROVE CallsInv
<1>1. PICK c : Tracked(c) /\ c[0] = NoCalls
  BY TrackedInit
<1>2. given = <<>> /\ parser = NewParser /\ client.calls = <<>>
  BY DEF Init
<1>3. Len(given) = 0 /\ given \in Seq(EventSet)
  BY <1>2, EmptySeq
<1>4. PICK f : ParsedBy(f, given)
  BY <1>3, ParsedByExists
<1>5. IsParser(NewParser) /\ NewParser.slots = <<>>
  BY ParserIsNew
<1>6. SameCalls(f[0], NewAcc(parser))
  <2>1. f[0] = NewAcc(parser)
    BY <1>2, <1>4 DEF ParsedBy
  <2>2. IsAcc(NewAcc(parser))
    BY <1>2, <1>5, NewAccIs
  <2>3. QED BY <2>1, <2>2 DEF SameCalls
<1>7. SlotsAt(<<>>, NoCalls)
  <2>1. NoCalls.phase = "ended" /\ NoCalls.calls = 0
    BY DEF NoCalls
  <2>2. DOMAIN <<>> = 1 .. 0 /\ \A i \in 1 .. 0 : FALSE
    OBVIOUS
  <2>3. QED BY <2>1, <2>2 DEF SlotsAt
<1>8. Shows(<<>>, <<>>)
  <2>1. <<>> \in Seq(Deltas) /\ Len(<<>>) = 0 /\ DOMAIN <<>> = {}
    BY EmptySeq
  <2>2. \A i \in 1 .. 0 : FALSE
    OBVIOUS
  <2>3. QED BY <2>1, <2>2 DEF Shows, Ascending
<1>9. CallsKept(c, f)
  BY <1>1, <1>2, <1>3, <1>4, <1>5, <1>6, <1>7, <1>8 DEF CallsKept
<1>10. QED BY <1>9 DEF CallsInv

\* CallsKept after a step.
LEMMA CallsNext ==
  ASSUME NEW c, NEW f, NEW p, NEW v, NEW calls, request' = request, given' = v,
         parser' = p, client'.calls = calls,
         Tracked(c)', ParsedBy(f, v), SameCalls(f[Len(v)], NewAcc(p)),
         ~Suppress => SlotsAt(p.slots, c[Len(v)]) /\ Shows(calls, p.slots),
         Suppress => p.slots = <<>> /\ calls = <<>>
  PROVE  CallsInv'
<1>1. ParsedBy(f, given)'
  BY ParsedByNext
<1>2. Suppress' <=> Suppress
  BY DEF Suppress
<1>3. CallsKept(c, f)' <=>
        /\ Tracked(c)' /\ ParsedBy(f, given)' /\ SameCalls(f[Len(given')], NewAcc(parser'))
        /\ ~Suppress' => /\ SlotsAt(parser'.slots, c[Len(given')])
                         /\ Shows(client'.calls, parser'.slots)
        /\ Suppress' => parser'.slots = <<>> /\ client'.calls = <<>>
  BY DEF CallsKept
<1>4. CallsKept(c, f)'
  BY <1>1, <1>2, <1>3
<1>5. CallsInv' <=> \E x, y : CallsKept(x, y)'
  BY DEF CallsInv
<1>6. QED BY <1>4, <1>5

\* Lexing parses nothing.
LEMMA CallsLex == ASSUME ParsedInv, CallsInv, Lex PROVE CallsInv'
<1>1. PICK c, f : CallsKept(c, f)
  BY DEF CallsInv
<1>2. UNCHANGED <<request, parser, given, client, finished>>
  BY DEF Lex
<1>3. PICK d : Tracked(d)' /\ Continues(d, c)
  BY <1>1, TrackedLex DEF ParsedInv, CallsKept
<1>4. Len(given) \in Nat
  BY LenProperties DEF ParsedInv, Lexed
<1>5. d[Len(given)] = c[Len(given)]
  BY <1>3, <1>4 DEF Continues
<1>6. /\ ParsedBy(f, given) /\ SameCalls(f[Len(given)], NewAcc(parser))
      /\ ~Suppress => SlotsAt(parser.slots, d[Len(given)]) /\ Shows(client.calls, parser.slots)
      /\ Suppress => parser.slots = <<>> /\ client.calls = <<>>
  BY <1>1, <1>5 DEF CallsKept
<1>7. QED BY <1>2, <1>3, <1>6, CallsNext

\* Nothing happens.
LEMMA CallsStutter == ASSUME CallsInv, UNCHANGED vars PROVE CallsInv'
<1>1. PICK c, f : CallsKept(c, f)
  BY DEF CallsInv
<1>2. UNCHANGED <<request, lexer, batch, parser, given, client, finished>>
  BY DEF vars
<1>3. Tracked(c)'
  BY <1>1, <1>2 DEF CallsKept, Tracked, LexerAt
<1>4. /\ ParsedBy(f, given) /\ SameCalls(f[Len(given)], NewAcc(parser))
      /\ ~Suppress => SlotsAt(parser.slots, c[Len(given)]) /\ Shows(client.calls, parser.slots)
      /\ Suppress => parser.slots = <<>> /\ client.calls = <<>>
  BY <1>1 DEF CallsKept
<1>5. QED BY <1>2, <1>3, <1>4, CallsNext

\* A delta is parsed.
LEMMA CallsParse ==
  ASSUME ParsedInv, CallsInv, NEW last \in BOOLEAN, ParseDelta(last) PROVE CallsInv'
<1> DEFINE w == Events(last)
           v == given \o w
           b == FoldLeft(TakeEvent, NewAcc(parser), w)
           out == DeltaOf(b, last)
           new == StripTrailingReasoning(out)
           whole == FoldLeft(TakeEvent, NewAcc(NewParser), v)
           part == FoldLeft(TakeEvent, NewAcc(NewParser), given)
           n == Len(given)
           m == Len(w)
           C == client.calls
<1>1. PICK c, f : CallsKept(c, f)
  BY DEF CallsInv
<1>2. Lexed /\ IsParser(parser)
  BY DEF ParsedInv, Fields
<1>3. /\ parser' = new.p /\ given' = v /\ request' = request
      /\ client'.calls = Coalesce(C \o new.calls)
  <2>1. Deliver(StripTrailingReasoning(EventsToDelta(parser, Events(last), last)), Events(last))
    BY DEF ParseDelta
  <2>2. EventsToDelta(parser, Events(last), last) = out
    BY Zenon DEF EventsToDelta
  <2>3. Deliver(new, w)
    BY <2>1, <2>2
  <2>4. request' = request
    BY DEF ParseDelta
  <2> HIDE DEF new, w
  <2>5. QED BY <2>3, <2>4 DEF Deliver, v
<1>4. given \in Seq(EventSet) /\ w \in Seq(EventSet)
  <2>1. w \in Seq(EventSet)
    BY <1>2, EventsFacts
  <2>2. QED BY <2>1, <1>2 DEF Lexed
<1>5. PICK d : Tracked(d)' /\ Continues(d, c) /\ Traces(d, v, n + m)
  BY <1>1, <1>2, TrackedParse DEF CallsKept
<1>6. n \in Nat /\ v \in Seq(EventSet) /\ Len(v) = n + m
  <2> HIDE DEF w
  <2>1. QED BY <1>4, JoinedAt
<1>7. d[n] = c[n]
  BY <1>5, <1>6 DEF Continues
<1>8. part = f[n]
  BY <1>1, <1>4, ParsedByLoop DEF CallsKept
<1>9. SameCalls(part, NewAcc(parser))
  <2>1. SameCalls(f[n], NewAcc(parser))
    BY <1>1 DEF CallsKept
  <2> HIDE DEF part
  <2>2. QED BY <2>1, <1>8
<1>10. /\ ~Suppress => SlotsAt(parser.slots, d[n]) /\ Shows(C, parser.slots)
       /\ Suppress => parser.slots = <<>> /\ C = <<>>
  BY <1>1, <1>7 DEF CallsKept
<1> HIDE DEF w, C
<1>11. (~Suppress => Built(C, NewAcc(parser), d[n])) /\ C \in Seq(Deltas)
  <2>1. CASE Suppress
    BY <2>1, <1>10, EmptySeq
  <2>2. CASE ~Suppress
    BY <2>2, <1>2, <1>10, BuiltNothing
  <2>3. QED BY <2>1, <2>2
<1>12. /\ SameCalls(whole, b)
       /\ ~Suppress => Built(C, b, d[n + m])
       /\ Suppress => b.p.slots = parser.slots /\ b.deltas = <<>>
  <2>1. Traces(d, given \o w, Len(given) + Len(w))
    BY <1>5
  <2>2. ~Suppress => Built(C, NewAcc(parser), d[Len(given)])
    BY <1>11
  <2>3. LET r == FoldLeft(TakeEvent, NewAcc(parser), w)
        IN  /\ SameCalls(FoldLeft(TakeEvent, NewAcc(NewParser), given \o w), r)
            /\ ~Suppress => Built(C, r, d[Len(given) + Len(w)])
            /\ Suppress => r.p.slots = parser.slots /\ r.deltas = <<>>
    BY <1>2, <1>4, <1>9, <1>11, <2>1, <2>2, BatchRuns
  <2>4. QED BY <2>3
<1>13. PICK g : ParsedBy(g, v)
  <2> HIDE DEF v
  <2>1. QED BY <1>6, ParsedByExists
<1>14. whole = g[Len(v)]
  <2> HIDE DEF v
  <2>1. QED BY <1>6, <1>13, ParsedByLoop
<1> HIDE DEF b, whole, part, v
<1>15. IsAcc(b)
  BY <1>12 DEF SameCalls
<1>16. IsOut(b, last, out) /\ OutCalls(b, out)
  BY <1>15, DeltaEffect, DeltaCalls
<1> HIDE DEF out
<1>17. IsParser(new.p) /\ OutCalls(b, new)
  BY <1>16, TrailingEffect, TrailingCalls
<1> HIDE DEF new
<1> DEFINE p == new.p
           calls == Coalesce(C \o new.calls)
<1>18. SameCalls(g[Len(v)], NewAcc(p))
  <2>1. IsAcc(NewAcc(p)) /\ NewAcc(p).p = p
    BY <1>17, NewAccIs
  <2>2. SameCalls(whole, b)
    BY <1>12
  <2>3. QED BY <2>1, <2>2, <1>14, <1>17 DEF SameCalls, OutCalls
<1>19. ~Suppress => SlotsAt(p.slots, d[Len(v)]) /\ Shows(calls, p.slots)
  <2>1. SUFFICES ASSUME ~Suppress
                 PROVE  SlotsAt(p.slots, d[Len(v)]) /\ Shows(calls, p.slots)
    OBVIOUS
  <2>2. SlotsAt(b.p.slots, d[n + m]) /\ Shows(Coalesce(C \o Coalesce(b.deltas)), b.p.slots)
    BY <2>1, <1>12 DEF Built, Told
  <2>3. p.slots = b.p.slots /\ new.calls = Coalesce(b.deltas)
    BY <1>17 DEF OutCalls
  <2>4. QED BY <2>2, <2>3, <1>6
<1>20. Suppress => p.slots = <<>> /\ calls = <<>>
  <2>1. SUFFICES ASSUME Suppress PROVE p.slots = <<>> /\ calls = <<>>
    OBVIOUS
  <2>2. p.slots = b.p.slots /\ new.calls = Coalesce(b.deltas)
    BY <1>17 DEF OutCalls
  <2>3. new.calls = <<>>
    BY <2>1, <2>2, <1>12, CoalesceNothing
  <2>4. <<>> \o <<>> = <<>>
    OBVIOUS
  <2>5. calls = <<>>
    BY <2>1, <2>3, <2>4, <1>10, CoalesceNothing
  <2>6. QED BY <2>1, <2>2, <2>5, <1>10, <1>12
<1>21. client'.calls = calls /\ parser' = p
  BY <1>3
<1> HIDE DEF p, calls
<1>22. QED BY <1>3, <1>5, <1>13, <1>18, <1>19, <1>20, <1>21, CallsNext

---------------------------------------------------------------------------
(* The calls of the whole answer.                                          *)

\* A call as parse() gives it.
View(call) == [id |-> call.id, name |-> call.name, arguments |-> call.arguments]

Views(calls, m) == [k \in 1 .. m |-> View(calls[k])]

\* The first m calls of the client are those of the first i slots.
UpTo(calls, m, i) ==
  /\ m \in 0 .. Len(calls)
  /\ \A k \in 1 .. m : calls[k].index <= i
  /\ \A k \in 1 .. Len(calls) : m < k => i < calls[k].index

\* One more call.
LEMMA ViewsNext ==
  ASSUME NEW calls, NEW m \in Nat
  PROVE  Append(Views(calls, m), View(calls[m + 1])) = Views(calls, m + 1)
<1> DEFINE n == m + 1
           A == {View(calls[k]) : k \in 1 .. n}
           s == Views(calls, m)
           t == Views(calls, n)
           x == View(calls[n])
<1>1. n \in Nat /\ n \in 1 .. n /\ 1 .. m \subseteq 1 .. n /\ n - 1 = m
      /\ \A k \in 1 .. n : k \in 1 .. m \/ k = n
  OBVIOUS
<1>2. \A k \in 1 .. n : View(calls[k]) \in A
  OBVIOUS
<1> HIDE DEF A, n
<1>3. s \in [1 .. m -> A] /\ t \in [1 .. n -> A]
  BY <1>1, <1>2 DEF Views
<1>4. s \in Seq(A) /\ Len(s) = m /\ t \in Seq(A) /\ Len(t) = n
  BY <1>1, <1>3, SeqDef, LenProperties
<1>5. x \in A
  BY <1>1, <1>2
<1>6. (\A k \in 1 .. m : s[k] = View(calls[k])) /\ (\A k \in 1 .. n : t[k] = View(calls[k]))
  BY DEF Views
<1> HIDE DEF s, t, x
<1>7. /\ Append(s, x) \in Seq(A) /\ Len(Append(s, x)) = Len(s) + 1
      /\ \A k \in 1 .. Len(s) : Append(s, x)[k] = s[k]
      /\ Append(s, x)[Len(s) + 1] = x
  BY <1>4, <1>5, AppendProperties
<1> DEFINE r == Append(s, x)
<1> HIDE DEF r
<1>8. r \in Seq(A) /\ Len(r) = n /\ (\A k \in 1 .. m : r[k] = s[k]) /\ r[n] = x
  BY <1>4, <1>7 DEF r, n
<1>9. \A k \in 1 .. n : r[k] = t[k]
  BY <1>1, <1>6, <1>8 DEF x
<1>10. r = t
  BY <1>4, <1>8, <1>9, SeqEqual
<1>11. QED BY <1>10 DEF r, s, t, x, n

\* The client's calls, slot by slot.
LEMMA UpToNext ==
  ASSUME NEW calls, NEW s, Shows(calls, s), NEW i \in Nat, i + 1 \in DOMAIN s, NEW m, UpTo(calls, m, i)
  PROVE  /\ s[i + 1].name_sent => /\ m + 1 \in 1 .. Len(calls) /\ UpTo(calls, m + 1, i + 1)
                                  /\ ShowsSlot(calls[m + 1], s[i + 1])
         /\ ~s[i + 1].name_sent => UpTo(calls, m, i + 1)
<1> DEFINE j == i + 1
           n == m + 1
           l == Len(calls)
<1>1. calls \in Seq(Deltas) /\ Ascending(calls) /\ l \in Nat
  BY LenProperties DEF Shows
<1>2. \A k \in 1 .. l : calls[k].index \in Nat
  <2>1. TAKE k \in 1 .. l
  <2> DEFINE d == calls[k]
  <2>2. d \in Deltas
    BY <1>1, ElementOfSeq
  <2> HIDE DEF d
  <2>3. d.index \in Nat
    BY <2>2 DEF Deltas
  <2>4. QED BY <2>3 DEF d
<1>3. m \in 0 .. l /\ (\A k \in 1 .. m : calls[k].index <= i)
      /\ (\A k \in 1 .. l : m < k => i < calls[k].index)
  BY DEF UpTo
<1>4. \A k \in 1 .. l : k <= m => k \in 1 .. m
  BY <1>1, <1>3
<1>5. \A k \in 1 .. l : k <= m => calls[k].index # j /\ calls[k].index <= j
  BY <1>2, <1>3, <1>4
<1>6. ASSUME s[j].name_sent
      PROVE  n \in 1 .. l /\ UpTo(calls, n, j) /\ ShowsSlot(calls[n], s[j])
  <2>1. PICK k \in 1 .. l : calls[k].index = j
    BY <1>6 DEF Shows, Lacks
  <2>2. n \in 1 .. l /\ n <= k
    BY <2>1, <1>1, <1>3, <1>5
  <2>3. calls[n].index >= j
    BY <2>2, <1>2, <1>3
  <2>4. n = k
    <3>1. CASE n < k
      <4>1. calls[n].index < calls[k].index
        BY <3>1, <2>1, <2>2, <1>1 DEF Ascending
      <4>2. QED BY <4>1, <2>1, <2>2, <2>3, <1>2
    <3>2. QED BY <3>1, <2>1, <2>2
  <2>5. ShowsSlot(calls[n], s[j])
    BY <2>1, <2>4 DEF Shows
  <2>6. \A x \in 1 .. n : calls[x].index <= j
    <3>1. \A x \in 1 .. n : x \in 1 .. l /\ (x <= m \/ x = n)
      BY <2>2, <1>1, <1>3
    <3>2. QED BY <3>1, <1>5, <2>1, <2>4
  <2>7. ASSUME NEW x \in 1 .. l, n < x PROVE j < calls[x].index
    <3>1. calls[n].index < calls[x].index
      BY <2>2, <2>7, <1>1 DEF Ascending
    <3>2. QED BY <3>1, <2>1, <2>4
  <2>8. UpTo(calls, n, j)
    <3>1. n \in 0 .. l
      BY <2>2
    <3> HIDE DEF n, j
    <3>2. QED BY <3>1, <2>6, <2>7 DEF UpTo
  <2>9. QED BY <2>2, <2>5, <2>8
<1>7. ASSUME ~s[j].name_sent PROVE UpTo(calls, m, j)
  <2>1. \A k \in 1 .. l : calls[k].index # j
    BY <1>7 DEF Shows, ShowsSlot
  <2>2. \A x \in 1 .. m : calls[x].index <= j
    <3>1. \A x \in 1 .. m : x \in 1 .. l /\ x <= m
      BY <1>1, <1>3
    <3>2. QED BY <3>1, <1>5
  <2>3. ASSUME NEW x \in 1 .. l, m < x PROVE j < calls[x].index
    <3>1. i < calls[x].index /\ calls[x].index # j /\ calls[x].index \in Nat
      BY <2>1, <2>3, <1>2, <1>3
    <3>2. QED BY <3>1
  <2> HIDE DEF j
  <2>4. QED BY <2>2, <2>3, <1>3 DEF UpTo
<1>8. QED BY <1>6, <1>7

\* When all calls have ended, _build_extracted_result gives what the client has.
LEMMA ExtractedIs ==
  ASSUME NEW s, NEW n \in Nat, DOMAIN s = 1 .. n, \A i \in 1 .. n : Over(s[i]),
         NEW calls, Shows(calls, s)
  PROVE  FoldLeft(ExtractCall, <<>>, s) = Views(calls, Len(calls))
<1> DEFINE base == <<>>
           all == FoldLeft(ExtractCall, base, s)
           l == Len(calls)
<1>1. calls \in Seq(Deltas) /\ l \in Nat
  BY LenProperties DEF Shows
<1> HIDE DEF base
<1>2. PICK f : IsLoop("slots", f, base, s, n, all)
  <2>1. HasLoop("slots", base, s, n, all)
    BY SlotSteps
  <2>2. QED BY <2>1 DEF HasLoop
<1> HIDE DEF all
<1>3. f[0] = base /\ f[n] = all /\ \A k \in 1 .. n : f[k] = ExtractCall(f[k - 1], s[k])
  <2>1. f[0] = base /\ f[n] = all /\ \A k \in 1 .. n : f[k] = Step("slots", f[k - 1], s[k])
    BY <1>2 DEF IsLoop
  <2>2. \A x, y : Step("slots", x, y) = ExtractCall(x, y)
    BY StepIs
  <2>3. QED BY <2>1, <2>2, Zenon
<1>4. \A k \in 1 .. l : calls[k].index \in 1 .. n
  BY DEF Shows
<1> DEFINE Good == {i \in Nat : i <= n => \E m : UpTo(calls, m, i) /\ f[i] = Views(calls, m)}
<1>5. 0 \in Good
  <2>1. UpTo(calls, 0, 0)
    <3>1. 0 \in 0 .. l /\ (\A k \in 1 .. 0 : FALSE) /\ \A k \in 1 .. l : 0 < calls[k].index
      BY <1>1, <1>4
    <3>2. QED BY <3>1 DEF UpTo
  <2>2. f[0] = Views(calls, 0)
    <3>1. Views(calls, 0) = <<>>
      BY DEF Views
    <3>2. QED BY <3>1, <1>3 DEF base
  <2>3. QED BY <2>1, <2>2
<1>6. ASSUME NEW i \in Nat, i \in Good PROVE i + 1 \in Good
  <2>1. SUFFICES ASSUME i + 1 <= n
                 PROVE  \E m : UpTo(calls, m, i + 1) /\ f[i + 1] = Views(calls, m)
    OBVIOUS
  <2> DEFINE j == i + 1
             slot == s[j]
  <2>2. j \in 1 .. n /\ j - 1 = i /\ i <= n
    BY <2>1
  <2>3. PICK m : UpTo(calls, m, i) /\ f[i] = Views(calls, m)
    BY <2>2, <1>6
  <2>4. m \in Nat
    BY <2>3, <1>1 DEF UpTo
  <2>5. /\ slot.name_sent => /\ m + 1 \in 1 .. l /\ UpTo(calls, m + 1, j)
                             /\ ShowsSlot(calls[m + 1], slot)
        /\ ~slot.name_sent => UpTo(calls, m, j)
    BY <2>2, <2>3, UpToNext
  <2> HIDE DEF j
  <2>6. f[j] = ExtractCall(f[i], slot)
    BY <2>2, <1>3
  <2>7. Over(slot)
    BY <2>2
  <2> HIDE DEF slot
  <2>8. CASE slot.name_sent
    <3> DEFINE call == calls[m + 1]
    <3>1. AcceptToolName(slot.name)
      BY <2>7, <2>8 DEF Over
    <3>2. f[j] = Append(f[i], [id |-> slot.id, name |-> slot.name,
                               arguments |-> Json(slot.args, slot.name)])
      BY <2>6, <3>1 DEF ExtractCall
    <3>3. call.id = slot.id /\ call.name = slot.name /\ call.arguments = Json(slot.args, slot.name)
      BY <2>5, <2>7, <2>8 DEF ShowsSlot, Over
    <3>4. View(call) = [id |-> slot.id, name |-> slot.name,
                        arguments |-> Json(slot.args, slot.name)]
      <4> HIDE DEF call
      <4>1. QED BY <3>3 DEF View
    <3>5. f[j] = Append(Views(calls, m), View(calls[m + 1]))
      BY <2>3, <3>2, <3>4
    <3>6. f[j] = Views(calls, m + 1)
      BY <2>4, <3>5, ViewsNext
    <3>7. QED BY <2>5, <2>8, <3>6 DEF j
  <2>9. CASE ~slot.name_sent
    <3>1. ~AcceptToolName(slot.name)
      BY <2>7, <2>9 DEF Over
    <3>2. f[j] = f[i]
      BY <2>6, <3>1 DEF ExtractCall
    <3>3. QED BY <2>3, <2>5, <2>9, <3>2 DEF j
  <2>10. QED BY <2>8, <2>9
<1>7. n \in Good
  <2> HIDE DEF Good
  <2>1. QED BY <1>5, <1>6, NatInductionSet
<1>8. PICK m : UpTo(calls, m, n) /\ all = Views(calls, m)
  <2>1. n <= n
    OBVIOUS
  <2>2. QED BY <2>1, <1>3, <1>7
<1>9. m = l
  <2>1. m \in 0 .. l /\ \A k \in 1 .. l : m < k => n < calls[k].index
    BY <1>8 DEF UpTo
  <2>2. CASE m < l
    <3>1. l \in 1 .. l
      BY <1>1, <2>1, <2>2
    <3>2. n < calls[l].index /\ calls[l].index \in 1 .. n
      BY <3>1, <2>1, <2>2, <1>4
    <3>3. QED BY <3>2
  <2>3. QED BY <1>1, <2>1, <2>2
<1>10. QED BY <1>8, <1>9 DEF all, base

\* The calls that parse() finds.
LEMMA ParseCalls ==
  ASSUME NEW g \in Seq(EventSet), NEW b, b = FoldLeft(TakeEvent, NewAcc(NewParser), g), IsAcc(b)
  PROVE  Parse(g).calls = FoldLeft(ExtractCall, <<>>, b.p.slots)
<1> DEFINE out == DeltaOf(b, TRUE)
           all == FoldLeft(ExtractCall, <<>>, out.p.slots)
<1>1. Parse(g) = Parsed(out)
  BY Zenon DEF Parse, EventsToDelta
<1>2. OutCalls(b, out)
  BY DeltaCalls
<1> HIDE DEF out
<1>3. out.p.slots = b.p.slots
  BY <1>2 DEF OutCalls
<1>4. Parsed(out).calls = all
  <2>1. Parsed(out) = [content |-> out.content, calls |-> all]
    BY Zenon DEF Parsed
  <2> HIDE DEF all
  <2>2. QED BY <2>1
<1>5. QED BY <1>1, <1>3, <1>4

(* The calls that the client has, and the parser, from delta to delta.     *)
THEOREM CallsInvariant == Spec => [](ParsedInv /\ CallsInv)
<1>1. Init => ParsedInv /\ CallsInv
  BY ParsedInit, CallsInit
<1>2. ParsedInv /\ CallsInv /\ [Next]_vars => ParsedInv' /\ CallsInv'
  <2>1. ASSUME ParsedInv, CallsInv, [Next]_vars PROVE ParsedInv' /\ CallsInv'
    <3>1. CASE Lex
      BY <2>1, <3>1, ParsedLex, CallsLex
    <3>2. CASE \E last \in BOOLEAN : ParseDelta(last)
      BY <2>1, <3>2, ParsedParse, CallsParse
    <3>3. CASE UNCHANGED vars
      BY <2>1, <3>3, ParsedStutter, CallsStutter
    <3>4. QED BY <2>1, <3>1, <3>2, <3>3 DEF Next
  <2>2. QED BY <2>1
<1>3. QED BY <1>1, <1>2, PTL DEF Spec

(* At the end the client has put together the calls that parse() finds in  *)
(* the whole answer, with their ids and names, and with their arguments to *)
(* the last character (_safe_arg_prefix, _compute_arg_delta,               *)
(* _flush_arg_converter).                                                  *)
THEOREM CallsStay == Spec => []CallsAsParsed
<1>1. ParsedInv /\ CallsInv => CallsAsParsed
  <2>1. SUFFICES ASSUME ParsedInv, CallsInv, finished
                 PROVE  [k \in DOMAIN client.calls |->
                           [id |-> client.calls[k].id, name |-> client.calls[k].name,
                            arguments |-> client.calls[k].arguments]] = Parse(given).calls
    BY DEF CallsAsParsed
  <2> DEFINE calls == client.calls
             s == parser.slots
             b == FoldLeft(TakeEvent, NewAcc(NewParser), given)
             n == Len(given)
  <2>2. PICK c, f : CallsKept(c, f)
    BY <2>1 DEF CallsInv
  <2>3. given \in Seq(EventSet) /\ IsParser(parser)
    BY <2>1 DEF ParsedInv, Lexed, Fields
  <2>4. /\ Tracked(c) /\ ParsedBy(f, given) /\ SameCalls(f[n], NewAcc(parser))
        /\ ~Suppress => SlotsAt(s, c[n]) /\ Shows(calls, s)
        /\ Suppress => s = <<>> /\ calls = <<>>
    BY <2>2 DEF CallsKept
  <2>5. b = f[n]
    BY <2>3, <2>4, ParsedByLoop
  <2> HIDE DEF b
  <2>6. IsAcc(b) /\ b.p.slots = s
    <3>1. NewAcc(parser).p = parser
      BY <2>3, NewAccIs
    <3>2. QED BY <3>1, <2>4, <2>5 DEF SameCalls
  <2>7. Parse(given).calls = FoldLeft(ExtractCall, <<>>, s)
    <3>1. Parse(given).calls = FoldLeft(ExtractCall, <<>>, b.p.slots)
      BY <2>3, <2>6, ParseCalls DEF b
    <3>2. QED BY <3>1, <2>6
  <2>8. /\ calls \in Seq(Deltas) /\ Shows(calls, s)
        /\ \E m \in Nat : DOMAIN s = 1 .. m /\ \A i \in 1 .. m : Over(s[i])
    <3>1. CASE Suppress
      <4>1. s = <<>> /\ calls = <<>> /\ <<>> \in Seq(Deltas) /\ Len(<<>>) = 0
        BY <3>1, <2>4, EmptySeq
      <4>2. DOMAIN <<>> = 1 .. 0 /\ \A i \in 1 .. 0 : FALSE
        OBVIOUS
      <4>3. Shows(calls, s)
        <5> HIDE DEF calls, s
        <5>1. QED BY <4>1, <4>2 DEF Shows, Ascending
      <4>4. QED BY <4>1, <4>2, <4>3
    <3>2. CASE ~Suppress
      <4> DEFINE at == c[n]
      <4>1. SlotsAt(s, at) /\ Shows(calls, s)
        BY <3>2, <2>4
      <4>2. at.phase = "ended"
        BY <2>1, <2>4 DEF Tracked
      <4>3. at \in Position
        <5>1. batch = <<>>
          BY <2>1, <2>4 DEF Tracked
        <5>2. Len(batch) = 0 /\ n \in Nat
          BY <5>1, <2>3, LenProperties, EmptySeq
        <5>3. Traces(c, given \o batch, n + Len(batch))
          BY <2>4 DEF Tracked
        <5>4. \A k \in 0 .. n + Len(batch) : c[k] \in Position
          <6>1. n + Len(batch) \in Nat
            BY <5>2
          <6>2. QED BY <5>3, <6>1, TracePositions
        <5>5. n \in 0 .. n + Len(batch)
          BY <5>2
        <5>6. QED BY <5>4, <5>5
      <4> HIDE DEF at, s, calls
      <4>4. \A i \in 1 .. at.calls : Over(s[i])
        BY <4>1, <4>2 DEF SlotsAt, InPhase
      <4>5. DOMAIN s = 1 .. at.calls /\ at.calls \in Nat
        BY <4>1, <4>3 DEF SlotsAt, Position
      <4>6. calls \in Seq(Deltas)
        BY <4>1 DEF Shows
      <4>7. QED BY <4>1, <4>4, <4>5, <4>6
    <3>3. QED BY <3>1, <3>2
  <2> HIDE DEF s
  <2>9. FoldLeft(ExtractCall, <<>>, s) = Views(calls, Len(calls))
    <3> HIDE DEF calls
    <3>1. QED BY <2>8, ExtractedIs
  <2>10. Views(calls, Len(calls)) =
           [k \in DOMAIN calls |-> [id |-> calls[k].id, name |-> calls[k].name,
                                    arguments |-> calls[k].arguments]]
    <3>1. DOMAIN calls = 1 .. Len(calls)
      <4> HIDE DEF calls
      <4>1. QED BY <2>8, LenProperties
    <3>2. QED BY <3>1 DEF Views, View
  <2>11. QED BY <2>7, <2>9, <2>10
<1>2. QED BY <1>1, CallsInvariant, PTL
=============================================================================
