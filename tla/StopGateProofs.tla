--------------------------- MODULE StopGateProofs ---------------------------
(***************************************************************************)
(* What the detokenizer of StopGate leaves and sends, for all stop lists,  *)
(* token texts, chunk sizes and lengths of answers.                        *)
(*                                                                         *)
(*   - the search: check_stop_strings finds the stop string that ends      *)
(*     first past the text already checked (CheckFinds);                   *)
(*   - the client: it has a beginning of the text that no stop string can  *)
(*     reach back into (Sending), hence TypeOK and SentTextStands;         *)
(*   - the answer: Answer(u, stop, text) says what the tokens u leave,     *)
(*     without any detokenizer.  One fed in chunks and one fed token by    *)
(*     token both have the answer of all tokens given (Answering), hence   *)
(*     ChunkedAsSingle and AnswerEndsAtFirstStop.                          *)
(*                                                                         *)
(* The last two are about a model that does not re-enter its reasoning     *)
(* (~Reenters): where it does, a chunk and single tokens differ, as        *)
(* MCStopGateReenter shows.                                                *)
(***************************************************************************)
EXTENDS StopGate, FoldLemmas

---------------------------------------------------------------------------
(* Texts, stop strings, and the loop over the new tokens.                  *)

Chars == UNION {ToSet(p) : p \in Pieces \union {Delimiter}}

Texts == Seq(Chars)

Requests == [stop : StopLists, include_stop_str_in_output : BOOLEAN,
             min_tokens : MinCounts, delta : BOOLEAN, thinking : BOOLEAN]

\* A token has a kind and a text.
LEMMA TokenFacts ==
  ASSUME NEW token \in Tokens
  PROVE  token[1] \in {"text", "start", "end"} /\ token[2] \in Texts
<1>1. token[1] \in {"text", "start", "end"} /\ token[2] \in Pieces \union {Delimiter}
  BY DEF Tokens
<1>2. ASSUME NEW p \in Pieces \union {Delimiter} PROVE p \in Seq(Chars)
  <2>1. p \in Seq(ToSet(p)) /\ ToSet(p) \subseteq Chars
    BY TextsAssumption DEF Chars
  <2> HIDE DEF Chars
  <2>2. QED BY <2>1, SeqMonotonic
<1>3. QED BY <1>1, <1>2 DEF Texts

\* The stop strings of a request are texts that are not empty, and at least one.
LEMMA StopsFacts ==
  ASSUME request \in Requests
  PROVE  /\ Len(Stops) \in Nat \ {0} /\ DOMAIN Stops = 1 .. Len(Stops)
         /\ \A k \in DOMAIN Stops : Len(Stops[k]) \in Nat \ {0}
         /\ Include \in BOOLEAN /\ MinTokens \in Nat /\ Stops # <<>>
<1>1. Stops \in StopLists /\ Include \in BOOLEAN /\ MinTokens \in MinCounts
  BY DEF Requests, Stops, Include, MinTokens
<1>2. MinTokens \in Nat
  BY <1>1, BoundsAssumption
<1>3. /\ Stops \in Seq(ToSet(Stops)) /\ Stops # <<>>
      /\ \A k \in DOMAIN Stops : Stops[k] \in Seq(ToSet(Stops[k])) /\ Len(Stops[k]) > 0
  BY <1>1, StopsAssumption, TextsAssumption
<1>4. Len(Stops) \in Nat /\ DOMAIN Stops = 1 .. Len(Stops)
  BY <1>3, LenProperties
<1>5. Len(Stops) # 0
  BY <1>3, EmptySeq
<1>6. \A k \in DOMAIN Stops : Len(Stops[k]) \in Nat
  BY <1>3, LenProperties
<1>7. QED BY <1>1, <1>2, <1>3, <1>4, <1>5, <1>6

\* The longest stop string and what is held back for it.
LEMMA BufferFacts ==
  ASSUME request \in Requests
  PROVE  /\ stop_buffer_length \in Nat
         /\ ~Include => \A k \in DOMAIN Stops : Len(Stops[k]) <= stop_buffer_length + 1
<1> DEFINE n == Len(Stops)
           S == {Len(Stops[k]) : k \in DOMAIN Stops}
<1>1. /\ n \in Nat \ {0} /\ DOMAIN Stops = 1 .. n /\ Include \in BOOLEAN /\ Stops # <<>>
      /\ \A k \in DOMAIN Stops : Len(Stops[k]) \in Nat \ {0}
  BY StopsFacts
<1>2. S \in SUBSET Int /\ S # {} /\ \A x \in S : x \in Nat \ {0}
  <2>1. 1 \in DOMAIN Stops
    BY <1>1
  <2>2. Len(Stops[1]) \in S
    BY <2>1
  <2>3. \A x \in S : x \in Nat \ {0}
    BY <1>1
  <2> HIDE DEF S
  <2>4. QED BY <2>2, <2>3
<1>3. IsFiniteSet(S)
  <2> DEFINE T == DOMAIN Stops
             f == [k \in T |-> Len(Stops[k])]
  <2>1. IsFiniteSet(T)
    BY <1>1, FS_Interval
  <2>2. S = {f[k] : k \in T}
    OBVIOUS
  <2>3. f \in [T -> S]
    OBVIOUS
  <2>4. f \in Surjection(T, S)
    BY <2>2, <2>3 DEF Surjection
  <2> HIDE DEF T, S, f
  <2>5. QED BY <2>1, <2>4, FS_Surjection
<1>4. Max(S) \in S /\ \A x \in S : x <= Max(S)
  <2> HIDE DEF S
  <2>1. QED BY <1>2, <1>3, MaxOfInts
<1>5. stop_buffer_length = IF Include THEN 0 ELSE Max(S) - 1
  BY <1>1 DEF stop_buffer_length
<1>6. \A k \in DOMAIN Stops : Len(Stops[k]) \in S
  OBVIOUS
<1> HIDE DEF S
<1>7. Max(S) \in Nat \ {0}
  BY <1>2, <1>4
<1>8. QED BY <1>1, <1>4, <1>5, <1>6, <1>7

Detectors == [output_text : Texts, count : Nat, in_reasoning : BOOLEAN,
              floor : Nat, check : Nat]

\* One token is added to the text, and moves the two offsets to its end or not.
LEMMA TakeFacts ==
  ASSUME NEW d \in Detectors, NEW token \in Tokens
  PROVE  LET e == TakeToken(d, token)
         IN  /\ e \in Detectors
             /\ e.output_text = d.output_text \o token[2] /\ e.count = d.count + 1
             /\ e.in_reasoning <=> token[1] # "end" /\ (d.in_reasoning \/ token[1] = "start")
             /\ e.floor = IF Gates(d, token) THEN Len(e.output_text) ELSE d.floor
             /\ e.check = IF Gates(d, token) \/ d.count + 1 <= MinTokens
                          THEN Len(e.output_text) ELSE d.check
             /\ Len(e.output_text) \in Nat /\ Len(d.output_text) \in Nat
             /\ Len(e.output_text) >= Len(d.output_text)
<1> DEFINE e == TakeToken(d, token)
<1>1. d.output_text \in Texts /\ token[2] \in Texts /\ d.count \in Nat /\ d.floor \in Nat
      /\ d.check \in Nat /\ d.in_reasoning \in BOOLEAN
  BY TokenFacts DEF Detectors
<1>2. /\ e.output_text = d.output_text \o token[2] /\ e.count = d.count + 1
      /\ e.in_reasoning = (token[1] # "end" /\ (d.in_reasoning \/ token[1] = "start"))
      /\ e.floor = IF Gates(d, token) THEN Len(e.output_text) ELSE d.floor
      /\ e.check = IF Gates(d, token) \/ d.count + 1 <= MinTokens
                   THEN Len(e.output_text) ELSE d.check
      /\ e = [output_text |-> e.output_text, count |-> e.count, in_reasoning |-> e.in_reasoning,
              floor |-> e.floor, check |-> e.check]
  BY Zenon DEF TakeToken
<1> HIDE DEF e
<1>3. /\ e.output_text \in Texts /\ Len(e.output_text) = Len(d.output_text) + Len(token[2])
      /\ Len(d.output_text) \in Nat /\ Len(token[2]) \in Nat
  BY <1>1, <1>2, ConcatProperties, LenProperties DEF Texts
<1>4. e.count \in Nat /\ e.in_reasoning \in BOOLEAN
  <2>1. e.count \in Nat
    BY <1>1, <1>2
  <2>2. e.in_reasoning \in BOOLEAN
    BY <1>2
  <2>3. QED BY <2>1, <2>2
<1>7. e.floor \in Nat /\ e.check \in Nat
  <2>1. Len(e.output_text) \in Nat
    BY <1>3, LenProperties DEF Texts
  <2>2. QED BY <1>1, <1>2, <2>1
<1>5. e \in Detectors
  BY <1>2, <1>3, <1>4, <1>7, Zenon DEF Detectors
<1>8. Len(e.output_text) \in Nat /\ Len(e.output_text) >= Len(d.output_text)
  <2> DEFINE a == Len(e.output_text)
             b == Len(d.output_text)
             c == Len(token[2])
  <2>1. a = b + c /\ b \in Nat /\ c \in Nat
    BY <1>3
  <2> HIDE DEF a, b, c
  <2>2. a \in Nat /\ a >= b
    BY <2>1
  <2>3. QED BY <2>2 DEF a, b
<1>9. e.in_reasoning <=> token[1] # "end" /\ (d.in_reasoning \/ token[1] = "start")
  BY <1>2
<1>6. QED BY <1>2, <1>3, <1>5, <1>8, <1>9, Zenon DEF e

---------------------------------------------------------------------------
(* The folds, step by step.                                                *)

TakeNext(it, x, d, tokens) ==
  IF x = {} THEN d ELSE TakeToken(it[x \ {Max(x)}], tokens[Max(x)])

TakeTable(d, tokens) ==
  CHOOSE it : it = [x \in SUBSET (DOMAIN tokens) |-> TakeNext(it, x, d, tokens)]

\* The loop's result is the last entry of the table of its partial results.
LEMMA TakeIsTable ==
  ASSUME NEW d, NEW tokens
  PROVE  FoldLeft(TakeToken, d, tokens) = TakeTable(d, tokens)[DOMAIN tokens]
  BY SMT DEF FoldLeft, MapThenFoldSet, TakeTable, TakeNext

\* The loop over the new tokens goes token by token.
LEMMA TakeSteps ==
  ASSUME NEW d \in Detectors, NEW tokens \in Seq(Tokens)
  PROVE  \E f \in [0 .. Len(tokens) -> Detectors] :
           /\ f[0] = d /\ f[Len(tokens)] = FoldLeft(TakeToken, d, tokens)
           /\ \A k \in 1 .. Len(tokens) : f[k] = TakeToken(f[k - 1], tokens[k])
<1> DEFINE n == Len(tokens)
           E(it) == it = [x \in SUBSET (DOMAIN tokens) |-> TakeNext(it, x, d, tokens)]
           rt == TakeTable(d, tokens)
           G == [p \in (1 .. n) \X Detectors |-> TakeToken(p[2], tokens[p[1]])]
<1>1. n \in Nat /\ DOMAIN tokens = 1 .. n /\ \A k \in 1 .. n : tokens[k] \in Tokens
  BY ElementOfSeq, LenProperties
<1>2. G \in [(1 .. n) \X Detectors -> Detectors]
  <2>1. \A p \in (1 .. n) \X Detectors : TakeToken(p[2], tokens[p[1]]) \in Detectors
    BY <1>1, TakeFacts
  <2>2. QED BY <2>1
<1>3. \A k \in 1 .. n, x \in Detectors : G[<<k, x>>] = TakeToken(x, tokens[k])
  OBVIOUS
<1> HIDE DEF n, G
<1>4. PICK it : IsFold(it, n, Detectors, d, G)
  BY <1>1, <1>2, FoldTable
<1>5. ASSUME NEW x \in SUBSET (1 .. n), x # {}
      PROVE  Max(x) \in 1 .. n /\ x \ {Max(x)} \in SUBSET (1 .. n)
  BY <1>1, <1>5, MaxOfInterval
<1>6. E(it)
  <2>1. ASSUME NEW x \in SUBSET (1 .. n) PROVE it[x] = TakeNext(it, x, d, tokens)
    <3>1. CASE x = {}
      BY <3>1, <1>4 DEF IsFold, TakeNext
    <3>2. CASE x # {}
      <4>1. it[x] = G[<<Max(x), it[x \ {Max(x)}]>>] /\ it[x \ {Max(x)}] \in Detectors
        BY <3>2, <1>4, <1>5 DEF IsFold
      <4>2. QED BY <4>1, <3>2, <1>3, <1>5 DEF TakeNext
    <3>3. QED BY <3>1, <3>2
  <2>2. it = [x \in SUBSET (1 .. n) |-> it[x]]
    BY <1>4 DEF IsFold
  <2>3. [x \in SUBSET (1 .. n) |-> it[x]] = [x \in SUBSET (1 .. n) |-> TakeNext(it, x, d, tokens)]
    BY <2>1
  <2>4. QED BY <2>2, <2>3, <1>1, Zenon
<1>7. rt = CHOOSE t : E(t)
  BY DEF TakeTable
<1> HIDE DEF E
<1>8. E(rt)
  BY <1>6, <1>7
<1> HIDE DEF rt
<1>9. \A x \in SUBSET (1 .. n) : rt[x] = TakeNext(rt, x, d, tokens)
  BY <1>1, <1>8 DEF E
<1> DEFINE f == [k \in 0 .. n |-> rt[1 .. k]]
<1>10. f[0] = d
  <2>1. 1 .. 0 = {} /\ 0 \in 0 .. n /\ {} \in SUBSET (1 .. n)
    BY <1>1
  <2>2. QED BY <2>1, <1>9 DEF TakeNext
<1>11. ASSUME NEW k \in 1 .. n PROVE f[k] = TakeToken(f[k - 1], tokens[k])
  <2>1. k \in Nat \ {0} /\ k <= n /\ k \in 0 .. n /\ k - 1 \in 0 .. n
    BY <1>1
  <2>2. 1 .. k \in SUBSET (1 .. n) /\ 1 .. k # {}
    <3>1. \A i \in 1 .. k : i \in 1 .. n
      BY <1>1, <2>1
    <3>2. k \in 1 .. k
      BY <2>1
    <3>3. QED BY <3>1, <3>2
  <2>3. Max(1 .. k) = k /\ (1 .. k) \ {k} = 1 .. (k - 1)
    BY <2>1, MaxIsLast
  <2>4. rt[1 .. k] = TakeToken(rt[1 .. (k - 1)], tokens[k])
    BY <2>2, <2>3, <1>9, Zenon DEF TakeNext
  <2>5. QED BY <2>1, <2>4
<1>12. f[n] = FoldLeft(TakeToken, d, tokens)
  <2>1. n \in 0 .. n
    BY <1>1
  <2>2. f[n] = rt[1 .. n]
    BY <2>1
  <2>3. QED BY <2>2, <1>1, TakeIsTable, Zenon DEF rt
<1> DEFINE Good == {k \in Nat : k <= n => f[k] \in Detectors}
<1>13. \A k \in Nat : k \in Good
  <2>1. 0 \in Good
    BY <1>10
  <2>2. ASSUME NEW k \in Nat, k \in Good PROVE k + 1 \in Good
    <3>1. SUFFICES ASSUME k + 1 <= n PROVE f[k + 1] \in Detectors
      OBVIOUS
    <3>2. k + 1 \in 1 .. n /\ (k + 1) - 1 = k /\ k <= n
      BY <3>1, <1>1
    <3> HIDE DEF f
    <3>3. f[k + 1] = TakeToken(f[k], tokens[k + 1])
      BY <3>2, <1>11
    <3>4. f[k] \in Detectors /\ tokens[k + 1] \in Tokens
      BY <3>2, <2>2, <1>1
    <3>5. QED BY <3>3, <3>4, TakeFacts
  <2> HIDE DEF Good
  <2>3. QED BY <2>1, <2>2, NatInductionSet
<1>14. \A k \in 0 .. n : f[k] \in Detectors
  <2>1. \A k \in 0 .. n : k \in Nat /\ k <= n
    BY <1>1
  <2> HIDE DEF f
  <2>2. QED BY <2>1, <1>13
<1>15. f \in [0 .. n -> Detectors]
  BY <1>14
<1>16. QED BY <1>10, <1>11, <1>12, <1>15 DEF n

---------------------------------------------------------------------------
(* The search.                                                             *)

\* <<end, k>> where the k-th stop string stands in the text past "from".
Hits(text, from) ==
  {h \in (0 .. Len(text)) \X (DOMAIN Stops) :
     /\ h[1] - Len(Stops[h[2]]) >= from
     /\ SubSeq(text, h[1] - Len(Stops[h[2]]) + 1, h[1]) = Stops[h[2]]}

HitsPast(text, from, checked) == {h \in Hits(text, from) : h[1] > checked}

\* h comes first in H.
Least(h, H) == h \in H /\ \A g \in H : Earlier(h, g)

\* A stop string in what is behind the first characters of a text.
LEMMA HitInSlice ==
  ASSUME NEW text \in Texts, NEW from \in 0 .. Len(text), NEW needle,
         Len(needle) \in Nat \ {0}, NEW i \in Nat
  PROVE  i \in Occurrences(Slice(text, from), needle) <=>
           /\ from + i + Len(needle) <= Len(text)
           /\ SubSeq(text, from + i + 1, from + i + Len(needle)) = needle
<1> DEFINE L == Len(text)
           n == Len(needle)
           slice == Slice(text, from)
<1>1. L \in Nat /\ from \in Nat /\ from <= L /\ n \in Nat \ {0} /\ text \in Seq(Chars)
  BY LenProperties DEF Texts
<1>2. slice \in Seq(Chars) /\ Len(slice) = L - from
  BY <1>1, CutInTwo DEF Slice
<1>3. i \in Occurrences(slice, needle) <=>
        i \in 0 .. (L - from - n) /\ SubSeq(slice, i + 1, i + n) = needle
  BY <1>2 DEF Occurrences
<1>4. i \in 0 .. (L - from - n) <=> from + i + n <= L
  BY <1>1
<1>5. ASSUME from + i + n <= L
      PROVE  SubSeq(slice, i + 1, i + n) = SubSeq(text, from + i + 1, from + i + n)
  <2>1. /\ from + 1 \in 1 .. L /\ L \in 1 .. L
        /\ i + 1 \in 1 .. L - (from + 1) + 1 /\ i + n \in 1 .. L - (from + 1) + 1
        /\ (from + 1) + (i + 1) - 1 = from + i + 1 /\ (from + 1) + (i + n) - 1 = from + i + n
    BY <1>1, <1>5
  <2>2. slice = SubSeq(text, from + 1, L)
    BY DEF Slice
  <2> HIDE DEF slice, L, n
  <2>3. SubSeq(SubSeq(text, from + 1, L), i + 1, i + n)
          = SubSeq(text, (from + 1) + (i + 1) - 1, (from + 1) + (i + n) - 1)
    BY <2>1, <1>1, SubSeqOfSubSeq DEF L
  <2>4. QED BY <2>1, <2>2, <2>3
<1> HIDE DEF slice, L, n
<1>6. QED BY <1>3, <1>4, <1>5 DEF slice, L, n

\* Find with the negative start of check_stop_strings finds what ends past the
\* text already checked.
LEMMA FindFinds ==
  ASSUME request \in Requests, NEW text \in Texts, NEW from \in Nat, NEW checked \in Nat,
         from <= checked, checked < Len(text), NEW k \in DOMAIN Stops
  PROVE  LET F == Find(Slice(text, from), Stops[k], 1 - (Len(text) - checked) - Len(Stops[k]))
         IN  /\ F \in SUBSET Nat
             /\ \A i \in F : <<from + i + Len(Stops[k]), k>> \in HitsPast(text, from, checked)
             /\ \A h \in HitsPast(text, from, checked) :
                  h[2] = k => /\ h[1] \in Nat /\ h[1] - from - Len(Stops[k]) \in F
<1> DEFINE L == Len(text)
           n == Len(Stops[k])
           slice == Slice(text, from)
           F == Find(slice, Stops[k], 1 - (L - checked) - n)
<1>1. L \in Nat /\ from \in 0 .. L /\ n \in Nat \ {0} /\ text \in Seq(Chars)
  BY LenProperties, StopsFacts DEF Texts
<1>2. slice \in Seq(Chars) /\ Len(slice) = L - from
  BY <1>1, CutInTwo DEF Slice
<1>3. F = {i \in Occurrences(slice, Stops[k]) : i >= checked - from + 1 - n}
  <2> DEFINE start == 1 - (L - checked) - n
  <2>1. start < 0 /\ Len(slice) + start = checked - from + 1 - n
    BY <1>1, <1>2
  <2>2. F = {i \in Occurrences(slice, Stops[k]) :
               i >= IF start < 0 THEN Len(slice) + start ELSE start}
    BY DEF Find
  <2> HIDE DEF F, slice, start
  <2>3. QED BY <2>1, <2>2
<1>4. Occurrences(slice, Stops[k]) \in SUBSET Nat
  <2>1. \A i \in 0 .. (Len(slice) - Len(Stops[k])) : i \in Nat
    BY <1>1, <1>2
  <2>2. QED BY <2>1 DEF Occurrences
<1> HIDE DEF F, slice
<1>5. \A i \in Nat : i \in Occurrences(slice, Stops[k]) <=>
        from + i + n <= L /\ SubSeq(text, from + i + 1, from + i + n) = Stops[k]
  BY <1>1, HitInSlice DEF slice
<1>6. ASSUME NEW i \in F PROVE <<from + i + n, k>> \in HitsPast(text, from, checked)
  <2>1. /\ i \in Nat /\ i >= checked - from + 1 - n /\ from + i + n <= L
        /\ SubSeq(text, from + i + 1, from + i + n) = Stops[k]
    BY <1>3, <1>4, <1>5
  <2> DEFINE e == from + i + n
  <2>2. e \in 0 .. L /\ e > checked /\ e - n >= from /\ e - n + 1 = from + i + 1
    BY <2>1, <1>1
  <2>3. SubSeq(text, e - n + 1, e) = Stops[k]
    BY <2>1, <2>2
  <2> HIDE DEF e
  <2>4. <<e, k>> \in Hits(text, from)
    BY <2>2, <2>3 DEF Hits
  <2>5. <<e, k>> \in HitsPast(text, from, checked)
    BY <2>2, <2>4 DEF HitsPast
  <2>6. QED BY <2>5 DEF e
<1>7. ASSUME NEW h \in HitsPast(text, from, checked), h[2] = k
      PROVE  h[1] \in Nat /\ h[1] - from - n \in F
  <2> DEFINE e == h[1]
             i == e - from - n
  <2>1. /\ e \in 0 .. L /\ e > checked /\ e - n >= from
        /\ SubSeq(text, e - n + 1, e) = Stops[k]
    BY <1>7 DEF Hits, HitsPast
  <2>2. /\ i \in Nat /\ i >= checked - from + 1 - n /\ from + i + n = e
        /\ from + i + n <= L /\ from + i + 1 = e - n + 1
    BY <2>1, <1>1
  <2> HIDE DEF e, i
  <2>3. SubSeq(text, from + i + 1, from + i + n) = Stops[k]
    BY <2>1, <2>2
  <2>4. i \in F
    BY <2>2, <2>3, <1>3, <1>5
  <2>5. e \in Nat
    BY <2>1, <1>1
  <2>6. QED BY <2>4, <2>5 DEF e, i
<1>8. F \in SUBSET Nat
  BY <1>3, <1>4
<1>9. QED BY <1>6, <1>7, <1>8 DEF F, slice

\* Of a nonempty set of places, one ends first.
LEMMA LeastExists ==
  ASSUME NEW H \in SUBSET (Nat \X Nat), H # {}
  PROVE  \E h \in H : \A g \in H : Earlier(h, g)
<1> DEFINE E == {h[1] : h \in H}
<1>1. E \in SUBSET Nat /\ E # {}
  OBVIOUS
<1> HIDE DEF E
<1>2. PICK e \in E : \A x \in E : e <= x
  BY <1>1, LeastNat
<1> DEFINE K == {k \in Nat : <<e, k>> \in H}
<1>3. K \in SUBSET Nat /\ K # {}
  <2>1. PICK h \in H : h[1] = e
    BY <1>2 DEF E
  <2>2. h = <<e, h[2]>> /\ h[2] \in Nat
    BY <2>1
  <2>3. QED BY <2>1, <2>2
<1> HIDE DEF K
<1>4. PICK k \in K : \A x \in K : k <= x
  BY <1>3, LeastNat
<1>5. <<e, k>> \in H
  BY <1>4 DEF K
<1>6. ASSUME NEW g \in H PROVE Earlier(<<e, k>>, g)
  <2>1. g[1] \in E /\ e <= g[1] /\ g[1] \in Nat /\ g[2] \in Nat /\ e \in Nat /\ k \in Nat
    BY <1>1, <1>2, <1>3, <1>4 DEF E
  <2>2. g[1] = e => g[2] \in K
    <3>1. g = <<g[1], g[2]>>
      OBVIOUS
    <3>2. QED BY <3>1, <2>1 DEF K
  <2>3. QED BY <2>1, <2>2, <1>4 DEF Earlier
<1>7. QED BY <1>5, <1>6

\* Places are pairs of numbers, and lie past what they start from.
LEMMA HitFacts ==
  ASSUME request \in Requests, NEW text \in Texts, NEW from \in Nat,
         NEW h \in Hits(text, from)
  PROVE  /\ h[1] \in Nat /\ h[2] \in DOMAIN Stops /\ h[2] \in Nat \ {0} /\ h = <<h[1], h[2]>>
         /\ from < h[1] /\ h[1] <= Len(text) /\ Len(Stops[h[2]]) \in Nat \ {0}
         /\ h[1] - Len(Stops[h[2]]) >= from
<1>1. Len(text) \in Nat /\ DOMAIN Stops = 1 .. Len(Stops) /\ Len(Stops) \in Nat
  BY StopsFacts, LenProperties DEF Texts
<1>2. /\ h \in (0 .. Len(text)) \X (DOMAIN Stops)
      /\ h[1] - Len(Stops[h[2]]) >= from
  BY DEF Hits
<1>3. h[2] \in DOMAIN Stops /\ Len(Stops[h[2]]) \in Nat \ {0} /\ h = <<h[1], h[2]>> /\ h[1] \in 0 .. Len(text)
  BY <1>2, StopsFacts
<1> DEFINE a == h[1]
           k == h[2]
           n == Len(Stops[k])
           L == Len(text)
<1>4. a \in 0 .. L /\ L \in Nat /\ n \in Nat \ {0} /\ a - n >= from /\ k \in Nat \ {0}
  BY <1>1, <1>2, <1>3
<1> HIDE DEF a, n, L, k
<1>5. a \in Nat /\ a <= L /\ from < a
  BY <1>4
<1>6. QED BY <1>3, <1>4, <1>5 DEF a, n, L, k

\* The cut that truncates the text at a place.
CutAt(h) == IF Include THEN h[1] ELSE h[1] - Len(Stops[h[2]])

\* check_stop_strings finds the place that ends first past the checked text, if
\* there is any, and the length to keep, counted from where it searched.
LEMMA CheckFinds ==
  ASSUME request \in Requests, NEW text \in Texts, NEW from \in Nat, NEW checked \in Nat,
         from <= checked, checked <= Len(text)
  PROVE  LET match == check_stop_strings(Slice(text, from), Len(text) - checked)
             H == HitsPast(text, from, checked)
         IN  /\ H = {} => match.stop = None
             /\ H # {} => \E h \in H : /\ Least(h, H)
                                       /\ match.stop = h[2]
                                       /\ from + match.length = CutAt(h)
<1> DEFINE L == Len(text)
           new == L - checked
           slice == Slice(text, from)
           C == Candidates(slice, new)
           H == HitsPast(text, from, checked)
           match == check_stop_strings(slice, new)
           F(k) == Find(slice, Stops[k], 1 - new - Len(Stops[k]))
<1>1. L \in Nat
  BY LenProperties DEF Texts
<1>2. ASSUME NEW h \in H
      PROVE  /\ h \in Hits(text, from) /\ h[1] \in Nat /\ h[2] \in DOMAIN Stops /\ h[2] \in Nat \ {0}
             /\ h[1] <= L /\ h[1] > checked
  <2>1. h \in Hits(text, from) /\ h[1] > checked
    BY DEF HitsPast
  <2>2. QED BY <2>1, HitFacts
<1>3. CASE new = 0
  <2>1. match = NoMatch
    BY <1>3 DEF check_stop_strings
  <2>2. H = {}
    <3> HIDE DEF H
    <3>1. \A h \in H : FALSE
      BY <1>1, <1>2, <1>3
    <3>2. QED BY <3>1
  <2>3. QED BY <2>1, <2>2 DEF NoMatch
<1>4. CASE new # 0
  <2>0. checked < L
    BY <1>1, <1>4
  <2>1. ASSUME NEW k \in DOMAIN Stops
        PROVE  /\ F(k) \in SUBSET Nat
               /\ \A i \in F(k) : <<from + i + Len(Stops[k]), k>> \in H
               /\ \A h \in H : h[2] = k => h[1] - from - Len(Stops[k]) \in F(k)
    BY <2>0, FindFinds
  <2>2. C = {<<Min(F(k)) + Len(Stops[k]), k>> : k \in {j \in DOMAIN Stops : F(j) # {}}}
    BY DEF Candidates
  <2> HIDE DEF F, C, H
  <2>3. ASSUME NEW k \in DOMAIN Stops, F(k) # {}
        PROVE  Min(F(k)) \in F(k) /\ \A i \in F(k) : Min(F(k)) <= i
    <3>1. PICK m \in F(k) : \A i \in F(k) : m <= i
      BY <2>1, <2>3, LeastNat
    <3>2. QED BY <3>1 DEF Min
  <2>4. ASSUME NEW c \in C
        PROVE  /\ c \in Nat \X Nat /\ c[2] \in DOMAIN Stops /\ <<from + c[1], c[2]>> \in H
    <3>1. PICK k \in DOMAIN Stops : F(k) # {} /\ c = <<Min(F(k)) + Len(Stops[k]), k>>
      BY <2>2
    <3> DEFINE m == Min(F(k))
               n == Len(Stops[k])
    <3>2. m \in F(k) /\ m \in Nat /\ n \in Nat \ {0} /\ k \in Nat
      BY <3>1, <2>1, <2>3, StopsFacts
    <3>3. <<from + m + n, k>> \in H
      BY <3>2, <2>1
    <3>4. c = <<m + n, k>>
      BY <3>1
    <3> HIDE DEF m, n
    <3>5. c[1] = m + n /\ c[2] = k /\ c \in Nat \X Nat /\ from + c[1] = from + m + n
      BY <3>2, <3>4
    <3>6. QED BY <3>3, <3>5
  <2>5. ASSUME NEW h \in H
        PROVE  \E c \in C : c[2] = h[2] /\ from + c[1] <= h[1]
    <3> DEFINE k == h[2]
               m == Min(F(k))
               n == Len(Stops[k])
               e == h[1]
    <3>1. k \in DOMAIN Stops /\ e \in Nat /\ n \in Nat
      BY <1>2, StopsFacts
    <3>2. e - from - n \in F(k)
      BY <3>1, <2>1
    <3>3. <<m + n, k>> \in C
      BY <3>1, <3>2, <2>2
    <3>4. m \in F(k) /\ m <= e - from - n /\ m \in Nat
      BY <3>1, <3>2, <2>1, <2>3
    <3> HIDE DEF k, m, n, e
    <3>5. from + (m + n) <= e
      BY <3>1, <3>4
    <3>6. QED BY <3>3, <3>5 DEF k, e
  <2>6. CASE H = {}
    <3>1. C = {}
      BY <2>4, <2>6
    <3>2. match = NoMatch
      BY <3>1 DEF check_stop_strings, C
    <3>3. QED BY <3>2, <2>6 DEF NoMatch, H
  <2>7. CASE H # {}
    <3>1. C # {} /\ C \in SUBSET (Nat \X Nat)
      BY <2>4, <2>5, <2>7
    <3> DEFINE best == EndsFirst(C)
    <3>2. best \in C /\ \A d \in C : Earlier(best, d)
      BY <3>1, LeastExists DEF EndsFirst
    <3>3. match = [stop   |-> best[2],
                   length |-> IF Include THEN best[1] ELSE best[1] - Len(Stops[best[2]])]
      BY <1>4, <3>1 DEF check_stop_strings, C
    <3> HIDE DEF best, match
    <3> DEFINE h == <<from + best[1], best[2]>>
    <3>4. h \in H /\ h[1] = from + best[1] /\ h[2] = best[2] /\ best[1] \in Nat /\ best[2] \in Nat
          /\ Len(Stops[best[2]]) \in Nat
      BY <3>2, <2>4, StopsFacts
    <3> HIDE DEF h
    <3>5. ASSUME NEW g \in H PROVE Earlier(h, g)
      <4>1. PICK c \in C : c[2] = g[2] /\ from + c[1] <= g[1]
        BY <2>5
      <4>2. Earlier(best, c) /\ c \in Nat \X Nat /\ g[1] \in Nat /\ g[2] \in Nat
        BY <4>1, <3>2, <2>4, <1>2
      <4>3. c[1] \in Nat /\ c[2] \in Nat
        BY <4>2
      <4>4. QED BY <4>1, <4>2, <4>3, <3>4 DEF Earlier
    <3>6. match.stop = h[2] /\ from + match.length = CutAt(h)
      <4>1. match.stop = h[2]
        BY <3>3, <3>4
      <4>2. match.length = IF Include THEN best[1] ELSE best[1] - Len(Stops[best[2]])
        BY <3>3
      <4>3. QED BY <4>1, <4>2, <3>4 DEF CutAt
    <3>7. QED BY <3>4, <3>5, <3>6, <2>7 DEF Least, match, H
  <2>8. QED BY <2>6, <2>7
<1>5. QED BY <1>3, <1>4

---------------------------------------------------------------------------
(* One call of update().                                                   *)

\* The detokenizer once it has read the tokens of a call.
Read(d, tokens) ==
  FoldLeft(TakeToken, [d EXCEPT !.check = Len(d.output_text)], tokens)

\* The text only grows; the offsets stay in order, in the text and past what
\* was there; nothing is searched while the minimum is not exceeded.
Along(x, d, k) ==
  /\ x \in Detectors /\ x.count = d.count + k
  /\ \E s \in Texts : x.output_text = d.output_text \o s
  /\ Len(d.output_text) <= x.check /\ x.floor <= x.check /\ x.check <= Len(x.output_text)
  /\ x.count <= MinTokens => x.check = Len(x.output_text)

\* What the loop does, token by token.
LEMMA ReadSteps ==
  ASSUME request \in Requests, NEW d \in Detectors, d.floor <= Len(d.output_text),
         NEW tokens \in Seq(Tokens)
  PROVE  \E f \in [0 .. Len(tokens) -> Detectors] :
           /\ f[0] = [d EXCEPT !.check = Len(d.output_text)]
           /\ f[Len(tokens)] = Read(d, tokens)
           /\ \A k \in 0 .. Len(tokens) : Along(f[k], d, k)
           /\ \A k \in 1 .. Len(tokens) : f[k] = TakeToken(f[k - 1], tokens[k])
<1> DEFINE n == Len(tokens)
           base == [d EXCEPT !.check = Len(d.output_text)]
<1>1. d.output_text \in Seq(Chars) /\ Len(d.output_text) \in Nat /\ d.count \in Nat /\ d.floor \in Nat
  BY LenProperties DEF Detectors, Texts
<1>2. /\ base \in Detectors /\ base.output_text = d.output_text /\ base.count = d.count
      /\ base.floor = d.floor /\ base.check = Len(d.output_text)
  BY <1>1 DEF Detectors
<1>3. n \in Nat /\ \A k \in 1 .. n : tokens[k] \in Tokens
  BY ElementOfSeq, LenProperties
<1> HIDE DEF base
<1>4. PICK f \in [0 .. n -> Detectors] :
        /\ f[0] = base /\ f[n] = FoldLeft(TakeToken, base, tokens)
        /\ \A k \in 1 .. n : f[k] = TakeToken(f[k - 1], tokens[k])
  BY <1>2, TakeSteps
<1> HIDE DEF n
<1>5. Along(base, d, 0)
  <2>1. <<>> \in Texts /\ d.output_text \o <<>> = d.output_text
    BY <1>1, EmptySeq, ConcatEmptySeq DEF Texts
  <2>2. \E s \in Texts : base.output_text = d.output_text \o s
    BY <2>1, <1>2
  <2>3. base.count = d.count + 0 /\ Len(base.output_text) = Len(d.output_text)
    BY <1>1, <1>2
  <2> DEFINE L == Len(d.output_text)
  <2>4. L <= base.check /\ base.floor <= base.check /\ base.check = L
    BY <1>1, <1>2
  <2> HIDE DEF L
  <2>5. base.check <= L
    BY <1>1, <2>4 DEF L
  <2>6. QED BY <1>2, <2>2, <2>3, <2>4, <2>5 DEF Along, L
<1>6. ASSUME NEW k \in Nat, k + 1 \in 1 .. n, Along(f[k], d, k) PROVE Along(f[k + 1], d, k + 1)
  <2> DEFINE x == f[k]
             token == tokens[k + 1]
             y == TakeToken(x, token)
  <2>1. x \in Detectors /\ token \in Tokens
    BY <1>6, <1>3 DEF Along
  <2>2. f[k + 1] = y
    <3>1. (k + 1) - 1 = k
      OBVIOUS
    <3>2. QED BY <3>1, <1>4, <1>6
  <2> HIDE DEF x, y, token
  <2>3. /\ y \in Detectors /\ y.output_text = x.output_text \o token[2] /\ y.count = x.count + 1
        /\ y.floor = IF Gates(x, token) THEN Len(y.output_text) ELSE x.floor
        /\ y.check = IF Gates(x, token) \/ x.count + 1 <= MinTokens
                     THEN Len(y.output_text) ELSE x.check
        /\ Len(y.output_text) \in Nat /\ Len(x.output_text) \in Nat
        /\ Len(y.output_text) >= Len(x.output_text)
    BY <2>1, TakeFacts DEF y
  <2>4. PICK s \in Texts : x.output_text = d.output_text \o s
    BY <1>6 DEF Along, x
  <2>5. \E t \in Texts : y.output_text = d.output_text \o t
    <3>1. token[2] \in Seq(Chars) /\ s \in Seq(Chars)
      BY <2>1, <2>4, TokenFacts DEF Texts
    <3>2. s \o token[2] \in Seq(Chars)
      BY <3>1, ConcatProperties
    <3>3. y.output_text = d.output_text \o (s \o token[2])
      <4>1. y.output_text = (d.output_text \o s) \o token[2]
        BY <2>3, <2>4
      <4>2. (d.output_text \o s) \o token[2] = d.output_text \o (s \o token[2])
        <5>1. \A u, v, w \in Seq(Chars) : (u \o v) \o w = u \o (v \o w)
          BY ConcatAssociative, SMTT(60)
        <5>2. d.output_text \in Seq(Chars)
          BY <1>1
        <5>3. QED BY <5>1, <5>2, <3>1
      <4>3. QED BY <4>1, <4>2, Zenon
    <3>4. QED BY <3>2, <3>3 DEF Texts
  <2>6. /\ Len(d.output_text) <= x.check /\ x.floor <= x.check /\ x.check <= Len(x.output_text)
        /\ x.count = d.count + k /\ x.check \in Nat /\ x.floor \in Nat
    BY <1>6 DEF Along, x, Detectors
  <2> DEFINE a == Len(y.output_text)
             b == Len(x.output_text)
             L == Len(d.output_text)
  <2>7. a \in Nat /\ b \in Nat /\ L \in Nat /\ b <= a
    BY <2>3, <1>1
  <2>8. y.floor \in {a, x.floor} /\ y.check \in {a, x.check} /\ (y.floor = a => y.check = a \/ y.floor = x.floor)
        /\ (y.count <= MinTokens => y.check = a)
    BY <2>3
  <2>9. L <= x.check /\ x.floor <= x.check /\ x.check <= b
    BY <2>6
  <2> HIDE DEF a, b, L
  <2>10. L <= y.check /\ y.floor <= y.check /\ y.check <= a
    BY <2>6, <2>7, <2>8, <2>9
  <2>11. y.count = d.count + (k + 1)
    <3> DEFINE p == y.count
               q == x.count
               r == d.count
    <3>1. p = q + 1 /\ q = r + k /\ r \in Nat
      BY <1>1, <2>3, <2>6
    <3> HIDE DEF p, q, r
    <3>2. p = r + (k + 1)
      BY <3>1
    <3>3. QED BY <3>2 DEF p, r
  <2>12. QED BY <2>2, <2>3, <2>5, <2>8, <2>10, <2>11 DEF Along, a, L
<1> DEFINE Good == {k \in Nat : k <= n => Along(f[k], d, k)}
<1>7. \A k \in Nat : k \in Good
  <2>1. 0 \in Good
    BY <1>4, <1>5
  <2>2. ASSUME NEW k \in Nat, k \in Good PROVE k + 1 \in Good
    <3>1. SUFFICES ASSUME k + 1 <= n PROVE Along(f[k + 1], d, k + 1)
      OBVIOUS
    <3>2. k + 1 \in 1 .. n /\ k <= n
      BY <3>1, <1>3
    <3>3. Along(f[k], d, k)
      BY <2>2, <3>2
    <3>4. QED BY <3>2, <3>3, <1>6
  <2> HIDE DEF Good
  <2>3. QED BY <2>1, <2>2, NatInductionSet
<1>8. \A k \in 0 .. n : Along(f[k], d, k)
  <2>1. \A k \in 0 .. n : k \in Nat /\ k <= n
    BY <1>3
  <2>2. QED BY <2>1, <1>7
<1>9. f[n] = Read(d, tokens)
  BY <1>4, Zenon DEF Read, base
<1>10. QED BY <1>4, <1>8, <1>9 DEF n, base

\* The loop as a whole.
LEMMA ReadFacts ==
  ASSUME request \in Requests, NEW d \in Detectors, d.floor <= Len(d.output_text),
         NEW tokens \in Seq(Tokens)
  PROVE  Along(Read(d, tokens), d, Len(tokens))
<1>1. Len(tokens) \in 0 .. Len(tokens)
  BY LenProperties
<1> DEFINE n == Len(tokens)
<1>2. PICK f \in [0 .. n -> Detectors] :
        f[n] = Read(d, tokens) /\ \A k \in 0 .. n : Along(f[k], d, k)
  BY ReadSteps
<1>3. Along(f[n], d, n)
  BY <1>1, <1>2
<1>4. QED BY <1>2, <1>3

\* The tokens whose text a call appends: not the one the request ends with,
\* unless its text is wanted.
Taken(tokens, terminated) ==
  IF terminated /\ ~Include THEN Front(tokens) ELSE tokens

\* Those tokens.
LEMMA TakenFacts ==
  ASSUME NEW A, NEW tokens \in Seq(A), tokens # <<>>, NEW terminated \in BOOLEAN
  PROVE  /\ Taken(tokens, terminated) \in Seq(A)
         /\ Len(tokens) \in Nat \ {0}
         /\ Len(Taken(tokens, terminated)) =
              IF terminated /\ ~Include THEN Len(tokens) - 1 ELSE Len(tokens)
         /\ \A i \in 1 .. Len(Taken(tokens, terminated)) : Taken(tokens, terminated)[i] = tokens[i]
<1> DEFINE n == Len(tokens)
<1>1. n \in Nat /\ n # 0
  BY LenProperties, EmptySeq
<1>2. n - 1 \in 0 .. n
  BY <1>1
<1>3. /\ Front(tokens) \in Seq(A) /\ Len(Front(tokens)) = n - 1
      /\ \A i \in 1 .. n - 1 : Front(tokens)[i] = tokens[i]
  <2>1. Front(tokens) = SubSeq(tokens, 1, n - 1)
    BY DEF Front
  <2>2. /\ SubSeq(tokens, 1, n - 1) \in Seq(A) /\ Len(SubSeq(tokens, 1, n - 1)) = n - 1
        /\ \A i \in 1 .. n - 1 : SubSeq(tokens, 1, n - 1)[i] = tokens[i]
    <3> DEFINE k == n - 1
    <3>1. k \in 0 .. Len(tokens)
      BY <1>2
    <3> HIDE DEF k
    <3>2. /\ SubSeq(tokens, 1, k) \in Seq(A) /\ Len(SubSeq(tokens, 1, k)) = k
          /\ \A i \in 1 .. k : SubSeq(tokens, 1, k)[i] = tokens[i]
      <4>1. \A s \in Seq(A) : \A j \in 0 .. Len(s) :
              /\ SubSeq(s, 1, j) \in Seq(A) /\ Len(SubSeq(s, 1, j)) = j
              /\ \A i \in 1 .. j : SubSeq(s, 1, j)[i] = s[i]
        BY CutInTwo
      <4>2. QED BY <4>1, <3>1, Zenon
    <3>3. QED BY <3>2, Zenon DEF k
  <2>3. QED BY <2>1, <2>2, Zenon
<1>4. CASE terminated /\ ~Include
  BY <1>1, <1>3, <1>4 DEF Taken
<1>5. CASE ~(terminated /\ ~Include)
  BY <1>1, <1>5 DEF Taken
<1>6. QED BY <1>4, <1>5

\* update() reads the tokens, and truncates the text at the place that ends
\* first among those past the two offsets.
LEMMA UpdateFacts ==
  ASSUME request \in Requests, NEW d \in Detectors, d.floor <= Len(d.output_text),
         NEW tokens \in Seq(Tokens), tokens # <<>>, NEW terminated \in BOOLEAN
  PROVE  LET x == Read(d, Taken(tokens, terminated))
             out == update(d, tokens, terminated)
             H == HitsPast(x.output_text, x.floor, x.check)
         IN  /\ out.det = [output_text |-> out.det.output_text, count |-> d.count + Len(tokens),
                           in_reasoning |-> x.in_reasoning, floor |-> x.floor, check |-> 0]
             /\ H = {} => out.stop = None /\ out.det.output_text = x.output_text
             /\ H # {} => \E h \in H : /\ Least(h, H) /\ out.stop = h[2]
                                       /\ out.det.output_text = SubSeq(x.output_text, 1, CutAt(h))
<1> DEFINE skip == terminated /\ ~Include
           taken == Taken(tokens, terminated)
           x == Read(d, taken)
           out == update(d, tokens, terminated)
           H == HitsPast(x.output_text, x.floor, x.check)
           count == x.count + IF skip THEN 1 ELSE 0
           match == IF count > MinTokens
                    THEN check_stop_strings(Slice(x.output_text, x.floor),
                                            Len(x.output_text) - x.check)
                    ELSE NoMatch
<1>1. /\ taken \in Seq(Tokens) /\ Len(tokens) \in Nat \ {0}
      /\ Len(taken) = IF skip THEN Len(tokens) - 1 ELSE Len(tokens)
  BY TakenFacts
<1> HIDE DEF taken
<1>2. Along(x, d, Len(taken))
  BY <1>1, ReadFacts
<1>3. x = FoldLeft(TakeToken, [d EXCEPT !.check = Len(d.output_text)],
                   IF skip THEN Front(tokens) ELSE tokens)
  BY DEF Read, taken, Taken
<1> HIDE DEF x
<1>4. out = [det  |-> [x EXCEPT !.count = count, !.check = 0,
                               !.output_text = IF match.stop = None THEN @
                                  ELSE SubSeq(@, 1, x.floor + match.length)],
             stop |-> match.stop]
  BY <1>3, Zenon DEF update
<1> HIDE DEF out, match
<1>5. /\ x \in Detectors /\ x.output_text \in Texts /\ x.count \in Nat /\ x.floor \in Nat
      /\ x.check \in Nat /\ x.floor <= x.check /\ x.check <= Len(x.output_text)
      /\ x.count = d.count + Len(taken) /\ d.count \in Nat
      /\ (x.count <= MinTokens => x.check = Len(x.output_text))
  <2>1. /\ x \in Detectors /\ x.count = d.count + Len(taken) /\ x.floor <= x.check
        /\ x.check <= Len(x.output_text)
        /\ (x.count <= MinTokens => x.check = Len(x.output_text))
    BY <1>2, Zenon DEF Along
  <2>2. \A e \in Detectors : /\ e.output_text \in Texts /\ e.count \in Nat
                             /\ e.floor \in Nat /\ e.check \in Nat
    BY DEF Detectors
  <2>3. QED BY <2>1, <2>2, Zenon
<1>6. count = d.count + Len(tokens) /\ count >= x.count /\ count \in Nat
  <2>1. CASE skip
    BY <2>1, <1>1, <1>5
  <2>2. CASE ~skip
    BY <2>2, <1>1, <1>5
  <2>3. QED BY <2>1, <2>2
<1>7. MinTokens \in Nat /\ Len(x.output_text) \in Nat
  BY <1>5, StopsFacts, LenProperties DEF Texts
<1>8. /\ H = {} => match.stop = None
      /\ H # {} => \E h \in H : Least(h, H) /\ match.stop = h[2] /\ x.floor + match.length = CutAt(h)
  <2>1. CASE count > MinTokens
    <3>1. match = check_stop_strings(Slice(x.output_text, x.floor), Len(x.output_text) - x.check)
      BY <2>1 DEF match
    <3> HIDE DEF H, match
    <3>2. QED BY <3>1, <1>5, CheckFinds DEF H
  <2>2. CASE ~(count > MinTokens)
    <3>1. x.check = Len(x.output_text)
      <4>1. x.count <= MinTokens
        BY <2>2, <1>5, <1>6, <1>7
      <4>2. QED BY <4>1, <1>5
    <3>2. H = {}
      <4>1. ASSUME NEW h \in H PROVE FALSE
        <5>1. h \in Hits(x.output_text, x.floor) /\ h[1] > x.check
          BY DEF HitsPast
        <5>2. h[1] \in Nat /\ h[1] <= Len(x.output_text)
          BY <5>1, <1>5, HitFacts
        <5>3. QED BY <3>1, <5>1, <5>2, <1>7
      <4>2. QED BY <4>1
    <3>3. match.stop = None
      BY <2>2 DEF match, NoMatch
    <3>4. QED BY <3>2, <3>3
  <2>3. QED BY <2>1, <2>2
<1>9. /\ out.stop = match.stop
      /\ out.det.output_text = IF match.stop = None THEN x.output_text
                               ELSE SubSeq(x.output_text, 1, x.floor + match.length)
      /\ out.det.count = count /\ out.det.check = 0 /\ out.det.floor = x.floor
      /\ out.det.in_reasoning = x.in_reasoning
      /\ out.det = [output_text |-> out.det.output_text, count |-> out.det.count,
                    in_reasoning |-> out.det.in_reasoning, floor |-> out.det.floor,
                    check |-> out.det.check]
  BY <1>4, <1>5 DEF Detectors
<1>10. \A h \in H : h[2] # None
  <2>1. ASSUME NEW h \in H PROVE h[2] # None
    <3>1. h \in Hits(x.output_text, x.floor)
      BY DEF HitsPast
    <3>2. h[2] \in Nat \ {0}
      BY <3>1, <1>5, HitFacts
    <3>3. QED BY <3>2 DEF None
  <2>2. QED BY <2>1
<1> HIDE DEF H
<1>11. out.det = [output_text |-> out.det.output_text, count |-> d.count + Len(tokens),
                  in_reasoning |-> x.in_reasoning, floor |-> x.floor, check |-> 0]
  <2> HIDE DEF count
  <2>1. QED BY <1>6, <1>9, Zenon
<1>12. H = {} => out.stop = None /\ out.det.output_text = x.output_text
  BY <1>8, <1>9
<1>13. H # {} => \E h \in H : /\ Least(h, H) /\ out.stop = h[2]
                              /\ out.det.output_text = SubSeq(x.output_text, 1, CutAt(h))
  <2>1. SUFFICES ASSUME H # {} PROVE \E h \in H : /\ Least(h, H) /\ out.stop = h[2]
                              /\ out.det.output_text = SubSeq(x.output_text, 1, CutAt(h))
    OBVIOUS
  <2>2. PICK h \in H : Least(h, H) /\ match.stop = h[2] /\ x.floor + match.length = CutAt(h)
    BY <2>1, <1>8
  <2>3. QED BY <2>2, <1>9, <1>10
<1>14. QED BY <1>11, <1>12, <1>13 DEF x, taken, H, out

---------------------------------------------------------------------------
(* The text of the client.                                                 *)

StopsOrNone == {None} \union DOMAIN Stops

\* A call that left out, of a detokenizer d and n tokens.
Cuts(out, d, n) ==
  /\ out.det \in Detectors /\ out.det.check = 0 /\ out.stop \in StopsOrNone
  /\ out.det.count = d.count + n
  /\ \E s \in Texts, m \in Nat :
       /\ m <= Len(d.output_text) + Len(s)
       /\ out.det.output_text = SubSeq(d.output_text \o s, 1, m)
       /\ Len(out.det.output_text) = m
       /\ out.det.floor <= m /\ Len(d.output_text) - stop_buffer_length <= m
       /\ out.stop = None => m = Len(d.output_text) + Len(s)

\* What update() leaves is the beginning of the text it read: past the reasoning,
\* and past all that was not held back before.
LEMMA UpdateCuts ==
  ASSUME request \in Requests, NEW d \in Detectors, d.floor <= Len(d.output_text),
         NEW tokens \in Seq(Tokens), tokens # <<>>, NEW terminated \in BOOLEAN
  PROVE  Cuts(update(d, tokens, terminated), d, Len(tokens))
<1> DEFINE taken == Taken(tokens, terminated)
           x == Read(d, taken)
           out == update(d, tokens, terminated)
           H == HitsPast(x.output_text, x.floor, x.check)
<1>1. taken \in Seq(Tokens) /\ Len(tokens) \in Nat \ {0}
  BY TakenFacts
<1>2. /\ out.det = [output_text |-> out.det.output_text, count |-> d.count + Len(tokens),
                    in_reasoning |-> x.in_reasoning, floor |-> x.floor, check |-> 0]
      /\ H = {} => out.stop = None /\ out.det.output_text = x.output_text
      /\ H # {} => \E h \in H : /\ Least(h, H) /\ out.stop = h[2]
                                /\ out.det.output_text = SubSeq(x.output_text, 1, CutAt(h))
  BY UpdateFacts
<1> HIDE DEF taken
<1>3. Along(x, d, Len(taken))
  BY <1>1, ReadFacts
<1> HIDE DEF x, out
<1>4. PICK s \in Texts : x.output_text = d.output_text \o s
  BY <1>3 DEF Along
<1> DEFINE old == Len(d.output_text)
           all == Len(x.output_text)
           b == stop_buffer_length
<1>5. /\ x \in Detectors /\ x.output_text \in Texts /\ x.floor \in Nat /\ x.check \in Nat
      /\ old <= x.check /\ x.floor <= x.check /\ x.check <= all /\ x.in_reasoning \in BOOLEAN
      /\ d.output_text \in Texts /\ d.count \in Nat
  BY <1>3 DEF Along, Detectors
<1>6. all = old + Len(s) /\ old \in Nat /\ Len(s) \in Nat /\ all \in Nat
  BY <1>4, <1>5, ConcatProperties, LenProperties DEF Texts
<1>7. b \in Nat /\ (~Include => \A k \in DOMAIN Stops : Len(Stops[k]) <= b + 1)
  BY BufferFacts
<1> HIDE DEF old, all, b
<1>8. ASSUME NEW m \in Nat, m <= all
      PROVE  SubSeq(x.output_text, 1, m) \in Texts /\ Len(SubSeq(x.output_text, 1, m)) = m
  <2>1. m \in 0 .. Len(x.output_text) /\ x.output_text \in Seq(Chars)
    BY <1>5, <1>6, <1>8 DEF all, Texts
  <2>2. QED BY <2>1, CutInTwo DEF Texts
<1>9. \E m \in Nat : /\ m <= all /\ x.floor <= m /\ old - b <= m
                     /\ out.det.output_text = SubSeq(x.output_text, 1, m)
                     /\ out.stop \in StopsOrNone
                     /\ out.stop = None => m = all
  <2>1. CASE H = {}
    <3>1. SubSeq(x.output_text, 1, all) = x.output_text
      BY <1>5, SubSeqFull DEF Texts, all
    <3>2. out.stop = None /\ out.det.output_text = x.output_text
      BY <1>2, <2>1
    <3>3. x.floor <= all /\ old - b <= all
      BY <1>5, <1>6, <1>7
    <3>4. QED BY <3>1, <3>2, <3>3, <1>6 DEF StopsOrNone
  <2>2. CASE H # {}
    <3>1. PICK h \in H : out.stop = h[2] /\ out.det.output_text = SubSeq(x.output_text, 1, CutAt(h))
      BY <1>2, <2>2
    <3>2. h \in Hits(x.output_text, x.floor) /\ h[1] > x.check
      BY DEF HitsPast
    <3>3. /\ h[1] \in Nat /\ h[2] \in DOMAIN Stops /\ h[2] \in Nat \ {0} /\ h[1] <= all
          /\ Len(Stops[h[2]]) \in Nat \ {0} /\ h[1] - Len(Stops[h[2]]) >= x.floor
      BY <3>2, <1>5, HitFacts DEF all
    <3> DEFINE e == h[1]
               n == Len(Stops[h[2]])
               m == CutAt(h)
    <3>4. m = IF Include THEN e ELSE e - n
      BY DEF CutAt
    <3>5. e \in Nat /\ e <= all /\ n \in Nat \ {0} /\ e - n >= x.floor /\ e > x.check /\ (~Include => n <= b + 1)
      BY <3>2, <3>3, <1>7
    <3> HIDE DEF e, n, m
    <3>6. m \in Nat /\ m <= all /\ x.floor <= m /\ old - b <= m
      BY <3>4, <3>5, <1>5, <1>6, <1>7
    <3>7. out.stop \in StopsOrNone /\ out.stop # None
      BY <3>1, <3>3 DEF StopsOrNone, None
    <3>8. QED BY <3>1, <3>6, <3>7 DEF m
  <2>3. QED BY <2>1, <2>2
<1>10. PICK m \in Nat : /\ m <= all /\ x.floor <= m /\ old - b <= m
                        /\ out.det.output_text = SubSeq(x.output_text, 1, m)
                        /\ out.stop \in StopsOrNone
                        /\ out.stop = None => m = all
  BY <1>9
<1>11. out.det.output_text \in Texts /\ Len(out.det.output_text) = m
  BY <1>8, <1>10
<1>12. /\ out.det.count = d.count + Len(tokens) /\ out.det.floor = x.floor /\ out.det.check = 0
  BY <1>2
<1>13. d.count + Len(tokens) \in Nat
  BY <1>1, <1>5
<1>14. out.det \in Detectors
  BY <1>2, <1>5, <1>11, <1>13 DEF Detectors
<1>15. out.det.output_text = SubSeq(d.output_text \o s, 1, m)
  BY <1>4, <1>10
<1>16. QED BY <1>4, <1>6, <1>10, <1>11, <1>12, <1>14, <1>15 DEF Cuts, old, all, b, out

\* The second detokenizer between two calls.
Singles ==
  {s \in [det : Detectors, stop : StopsOrNone] :
     s.det.floor <= Len(s.det.output_text) /\ s.det.check = 0}

CallOne(s, tokens, terminated, i) ==
  IF s.stop # None THEN s
  ELSE update(s.det, <<tokens[i]>>, terminated /\ i = Len(tokens))

\* A call with one token.
LEMMA CallFacts ==
  ASSUME request \in Requests, NEW s \in Singles, NEW tokens \in Seq(Tokens),
         NEW terminated \in BOOLEAN, NEW i \in 1 .. Len(tokens)
  PROVE  LET c == CallOne(s, tokens, terminated, i)
         IN  /\ c \in Singles
             /\ c.det.count \in Nat /\ c.det.count <= s.det.count + 1
<1> DEFINE one == <<tokens[i]>>
           c == CallOne(s, tokens, terminated, i)
           last == terminated /\ i = Len(tokens)
<1>1. /\ s \in [det : Detectors, stop : StopsOrNone] /\ s.det \in Detectors
      /\ s.det.floor <= Len(s.det.output_text) /\ s.det.count \in Nat
  BY DEF Singles, Detectors
<1>2. one \in Seq(Tokens) /\ one # <<>> /\ Len(one) = 1 /\ last \in BOOLEAN
  BY ElementOfSeq
<1>3. CASE s.stop # None
  BY <1>1, <1>3 DEF CallOne
<1>4. CASE s.stop = None
  <2>1. c = update(s.det, one, last)
    BY <1>4 DEF CallOne
  <2> HIDE DEF c, one, last
  <2> DEFINE out == update(s.det, one, last)
  <2>2. /\ out.det \in Detectors /\ out.det.check = 0 /\ out.stop \in StopsOrNone
        /\ out.det.count = s.det.count + Len(one)
        /\ \E m \in Nat : Len(out.det.output_text) = m /\ out.det.floor <= m
    <3>1. Cuts(out, s.det, Len(one))
      BY <1>1, <1>2, UpdateCuts, Zenon
    <3>2. QED BY <3>1, Zenon DEF Cuts
  <2>3. out = [det |-> out.det, stop |-> out.stop]
    BY Zenon DEF update
  <2> HIDE DEF out
  <2>4. out \in [det : Detectors, stop : StopsOrNone] /\ out.det.floor <= Len(out.det.output_text)
    BY <2>2, <2>3
  <2>5. out \in Singles
    BY <2>2, <2>4 DEF Singles
  <2>6. out.det.count \in Nat /\ out.det.count <= s.det.count + 1
    BY <2>2, <1>1, <1>2
  <2>7. QED BY <2>1, <2>5, <2>6 DEF out, c
<1>5. QED BY <1>3, <1>4

EachNext(it, x, s, tokens, terminated, ids) ==
  IF x = {} THEN s ELSE CallOne(it[x \ {Max(x)}], tokens, terminated, ids[Max(x)])

EachTable(s, tokens, terminated, ids) ==
  CHOOSE it : it = [x \in SUBSET (DOMAIN ids) |-> EachNext(it, x, s, tokens, terminated, ids)]

\* The calls' result is the last entry of the table of their partial results.
LEMMA EachIsTable ==
  ASSUME NEW s, NEW tokens, NEW terminated, NEW ids, ids = [i \in DOMAIN tokens |-> i]
  PROVE  updateEach(s, tokens, terminated) = EachTable(s, tokens, terminated, ids)[DOMAIN ids]
  BY SMT DEF updateEach, FoldLeftDomain, FoldLeft, MapThenFoldSet, EachTable, EachNext, CallOne

\* The calls go token by token.
LEMMA EachSteps ==
  ASSUME request \in Requests, NEW s \in Singles, NEW tokens \in Seq(Tokens),
         NEW terminated \in BOOLEAN
  PROVE  \E f \in [0 .. Len(tokens) -> Singles] :
           /\ f[0] = s /\ f[Len(tokens)] = updateEach(s, tokens, terminated)
           /\ \A k \in 1 .. Len(tokens) : f[k] = CallOne(f[k - 1], tokens, terminated, k)
<1> DEFINE n == Len(tokens)
           ids == [i \in DOMAIN tokens |-> i]
           E(it) == it = [x \in SUBSET (DOMAIN ids) |-> EachNext(it, x, s, tokens, terminated, ids)]
           rt == EachTable(s, tokens, terminated, ids)
           G == [p \in (1 .. n) \X Singles |-> CallOne(p[2], tokens, terminated, p[1])]
<1>1. n \in Nat /\ DOMAIN tokens = 1 .. n
  BY LenProperties
<1>2. DOMAIN ids = 1 .. n /\ \A i \in 1 .. n : ids[i] = i
  BY <1>1
<1>3. G \in [(1 .. n) \X Singles -> Singles]
  <2>1. \A p \in (1 .. n) \X Singles : CallOne(p[2], tokens, terminated, p[1]) \in Singles
    BY CallFacts
  <2>2. QED BY <2>1
<1>4. \A k \in 1 .. n, x \in Singles : G[<<k, x>>] = CallOne(x, tokens, terminated, k)
  OBVIOUS
<1> HIDE DEF n, G, ids
<1>5. PICK it : IsFold(it, n, Singles, s, G)
  BY <1>1, <1>3, FoldTable
<1>6. ASSUME NEW x \in SUBSET (1 .. n), x # {}
      PROVE  Max(x) \in 1 .. n /\ x \ {Max(x)} \in SUBSET (1 .. n)
  BY <1>1, <1>6, MaxOfInterval
<1>7. E(it)
  <2>1. ASSUME NEW x \in SUBSET (1 .. n) PROVE it[x] = EachNext(it, x, s, tokens, terminated, ids)
    <3>1. CASE x = {}
      BY <3>1, <1>5 DEF IsFold, EachNext
    <3>2. CASE x # {}
      <4>1. it[x] = G[<<Max(x), it[x \ {Max(x)}]>>] /\ it[x \ {Max(x)}] \in Singles
        BY <3>2, <1>5, <1>6 DEF IsFold
      <4>2. ids[Max(x)] = Max(x)
        BY <3>2, <1>2, <1>6
      <4>3. QED BY <4>1, <4>2, <3>2, <1>4, <1>6 DEF EachNext
    <3>3. QED BY <3>1, <3>2
  <2>2. it = [x \in SUBSET (1 .. n) |-> it[x]]
    BY <1>5 DEF IsFold
  <2>3. [x \in SUBSET (1 .. n) |-> it[x]]
          = [x \in SUBSET (1 .. n) |-> EachNext(it, x, s, tokens, terminated, ids)]
    BY <2>1
  <2>4. QED BY <2>2, <2>3, <1>2, Zenon
<1>8. rt = CHOOSE t : E(t)
  BY DEF EachTable
<1> HIDE DEF E
<1>9. E(rt)
  BY <1>7, <1>8
<1> HIDE DEF rt
<1>10. \A x \in SUBSET (1 .. n) : rt[x] = EachNext(rt, x, s, tokens, terminated, ids)
  BY <1>2, <1>9 DEF E
<1> DEFINE f == [k \in 0 .. n |-> rt[1 .. k]]
<1>11. f[0] = s
  <2>1. 1 .. 0 = {} /\ 0 \in 0 .. n /\ {} \in SUBSET (1 .. n)
    BY <1>1
  <2>2. QED BY <2>1, <1>10 DEF EachNext
<1>12. ASSUME NEW k \in 1 .. n PROVE f[k] = CallOne(f[k - 1], tokens, terminated, k)
  <2>1. k \in Nat \ {0} /\ k <= n /\ k \in 0 .. n /\ k - 1 \in 0 .. n
    BY <1>1
  <2>2. 1 .. k \in SUBSET (1 .. n) /\ 1 .. k # {}
    <3>1. \A i \in 1 .. k : i \in 1 .. n
      BY <1>1, <2>1
    <3>2. k \in 1 .. k
      BY <2>1
    <3>3. QED BY <3>1, <3>2
  <2>3. Max(1 .. k) = k /\ (1 .. k) \ {k} = 1 .. (k - 1)
    BY <2>1, MaxIsLast
  <2>4. ids[k] = k
    BY <1>2
  <2>5. rt[1 .. k] = CallOne(rt[1 .. (k - 1)], tokens, terminated, ids[k])
    BY <2>2, <2>3, <1>10, Zenon DEF EachNext
  <2>6. QED BY <2>1, <2>4, <2>5
<1>13. f[n] = updateEach(s, tokens, terminated)
  <2>1. n \in 0 .. n
    BY <1>1
  <2>2. f[n] = rt[1 .. n]
    BY <2>1
  <2>3. ids = [i \in DOMAIN tokens |-> i]
    BY DEF ids
  <2>4. updateEach(s, tokens, terminated) = EachTable(s, tokens, terminated, ids)[DOMAIN ids]
    BY <2>3, EachIsTable
  <2>5. QED BY <2>2, <2>4, <1>2, Zenon DEF rt
<1> DEFINE Good == {k \in Nat : k <= n => f[k] \in Singles}
<1>14. \A k \in Nat : k \in Good
  <2>1. 0 \in Good
    BY <1>11
  <2>2. ASSUME NEW k \in Nat, k \in Good PROVE k + 1 \in Good
    <3>1. SUFFICES ASSUME k + 1 <= n PROVE f[k + 1] \in Singles
      OBVIOUS
    <3>2. k + 1 \in 1 .. n /\ (k + 1) - 1 = k /\ k <= n
      BY <3>1, <1>1
    <3> HIDE DEF f
    <3>3. f[k + 1] = CallOne(f[k], tokens, terminated, k + 1)
      BY <3>2, <1>12
    <3>4. f[k] \in Singles /\ k + 1 \in 1 .. Len(tokens)
      BY <3>2, <2>2 DEF n
    <3>5. QED BY <3>3, <3>4, CallFacts
  <2> HIDE DEF Good
  <2>3. QED BY <2>1, <2>2, NatInductionSet
<1>15. \A k \in 0 .. n : f[k] \in Singles
  <2>1. \A k \in 0 .. n : k \in Nat /\ k <= n
    BY <1>1
  <2> HIDE DEF f
  <2>2. QED BY <2>1, <1>14
<1>16. f \in [0 .. n -> Singles]
  BY <1>15
<1>17. QED BY <1>11, <1>12, <1>13, <1>16 DEF n

\* The calls leave a detokenizer, and count at most the tokens.
LEMMA EachFacts ==
  ASSUME request \in Requests, NEW s \in Singles, NEW tokens \in Seq(Tokens),
         NEW terminated \in BOOLEAN
  PROVE  LET e == updateEach(s, tokens, terminated)
         IN  e \in Singles /\ e.det.count \in Nat /\ e.det.count <= s.det.count + Len(tokens)
<1> DEFINE n == Len(tokens)
<1>1. PICK f \in [0 .. n -> Singles] :
        /\ f[0] = s /\ f[n] = updateEach(s, tokens, terminated)
        /\ \A k \in 1 .. n : f[k] = CallOne(f[k - 1], tokens, terminated, k)
  BY EachSteps
<1>2. n \in Nat /\ \A k \in 0 .. n : f[k] \in Singles
  BY LenProperties
<1>3. s.det.count \in Nat
  BY DEF Singles, Detectors
<1> DEFINE Good == {k \in Nat : k <= n => f[k].det.count \in Nat /\ f[k].det.count <= s.det.count + k}
<1>4. \A k \in Nat : k \in Good
  <2>1. 0 \in Good
    BY <1>1, <1>3
  <2>2. ASSUME NEW k \in Nat, k \in Good PROVE k + 1 \in Good
    <3>1. SUFFICES ASSUME k + 1 <= n
                   PROVE  f[k + 1].det.count \in Nat /\ f[k + 1].det.count <= s.det.count + (k + 1)
      OBVIOUS
    <3>2. k + 1 \in 1 .. n /\ (k + 1) - 1 = k /\ k <= n /\ k \in 0 .. n
      BY <3>1, <1>2
    <3>3. f[k + 1] = CallOne(f[k], tokens, terminated, k + 1)
      BY <3>2, <1>1
    <3>4. f[k] \in Singles /\ f[k].det.count <= s.det.count + k
      BY <3>2, <2>2, <1>2
    <3>5. f[k + 1].det.count \in Nat /\ f[k + 1].det.count <= f[k].det.count + 1
      BY <3>2, <3>3, <3>4, CallFacts
    <3>6. f[k].det.count \in Nat
      BY <3>2, <2>2
    <3> DEFINE a == f[k + 1].det.count
               b == f[k].det.count
               c == s.det.count
    <3>7. a \in Nat /\ b \in Nat /\ c \in Nat /\ a <= b + 1 /\ b <= c + k
      BY <3>4, <3>5, <3>6, <1>3
    <3> HIDE DEF a, b, c
    <3>8. a <= c + (k + 1)
      BY <3>7
    <3>9. QED BY <3>7, <3>8 DEF a, c
  <2> HIDE DEF Good
  <2>3. QED BY <2>1, <2>2, NatInductionSet
<1>5. n \in Good /\ n \in 0 .. n
  BY <1>2, <1>4
<1>6. QED BY <1>1, <1>2, <1>5

\* What the client has while the request goes on: all but what is held back.
Held(text) ==
  /\ sent = SubSeq(text, 1, Len(text) - stop_buffer_length)
  /\ request.delta => offset = IF Len(text) > stop_buffer_length
                               THEN Len(text) - stop_buffer_length ELSE 0

\* What the front end knows and what the client has, between two steps.
Sending ==
  /\ request \in Requests /\ det \in Detectors /\ det.check = 0
  /\ det.floor <= Len(det.output_text)
  /\ single \in Singles /\ stopped \in StopsOrNone /\ given \in Seq(Tokens)
  /\ finished \in BOOLEAN /\ det.count <= MaxTokens /\ single.det.count <= MaxTokens
  /\ offset \in Nat /\ offset <= Len(det.output_text) /\ sent \in Texts
  /\ ~request.delta => offset = 0
  /\ finished => sent = det.output_text
  /\ ~finished => /\ Held(det.output_text)
                  /\ det.count = Len(given) /\ single.det.count <= Len(given)

\* A chunk is a nonempty sequence of tokens for which there is room.
LEMMA ChunkFacts ==
  ASSUME NEW chunk \in Chunks, given \in Seq(Tokens)
  PROVE  /\ chunk \in Seq(Tokens) /\ chunk # <<>> /\ Len(chunk) \in Nat \ {0}
         /\ Len(given) + Len(chunk) <= MaxTokens
<1>1. PICK n \in 1 .. MaxChunk : chunk \in [1 .. n -> Tokens]
  BY DEF Chunks
<1>2. n \in Nat \ {0}
  BY <1>1, BoundsAssumption
<1>3. chunk \in Seq(Tokens) /\ Len(chunk) = n
  BY <1>1, <1>2
<1>4. chunk # <<>>
  BY <1>2, <1>3
<1>5. Len(given \o chunk) = Len(given) + Len(chunk) /\ Len(given \o chunk) <= MaxTokens
  BY <1>3, ConcatProperties DEF Chunks
<1>6. QED BY <1>2, <1>3, <1>4, <1>5

\* At first nobody has any text.
LEMMA SendingInit == Init => Sending
<1> SUFFICES ASSUME Init PROVE Sending
  OBVIOUS
<1>1. request \in Requests /\ request.thinking \in BOOLEAN
  BY DEF Init, Requests
<1>2. <<>> \in Seq(Chars) /\ <<>> \in Seq(Tokens) /\ Len(<<>>) = 0
  BY EmptySeq
<1> DEFINE d == Fresh(request.thinking)
<1>3. /\ d \in Detectors /\ d.check = 0 /\ d.output_text = <<>> /\ d.floor = 0 /\ d.count = 0
  BY <1>1, <1>2 DEF Fresh, Detectors, Texts
<1>4. det = d /\ single = [det |-> d, stop |-> None] /\ stopped = None /\ given = <<>>
      /\ offset = 0 /\ sent = <<>> /\ finished = FALSE
  BY DEF Init
<1> HIDE DEF d
<1>5. single \in Singles
  BY <1>2, <1>3, <1>4 DEF Singles, StopsOrNone
<1>6. stop_buffer_length \in Nat
  BY <1>1, BufferFacts
<1>7. Held(<<>>)
  <2>1. SubSeq(<<>>, 1, 0 - stop_buffer_length) = <<>>
    BY <1>6, SubSeqEmpty
  <2>2. QED BY <2>1, <1>2, <1>4, <1>6 DEF Held
<1>8. MaxTokens \in Nat
  BY BoundsAssumption
<1>9. single.det = d
  BY <1>4
<1>10. /\ det \in Detectors /\ det.check = 0 /\ det.output_text = <<>> /\ det.floor = 0
       /\ det.count = 0 /\ single.det.count = 0
  BY <1>3, <1>4, <1>9
<1>11. Held(det.output_text)
  BY <1>7, <1>10
<1>12. /\ Len(det.output_text) = 0 /\ Len(given) = 0 /\ given \in Seq(Tokens) /\ sent \in Texts
  BY <1>2, <1>4, <1>10 DEF Texts
<1>13. stopped \in StopsOrNone
  BY <1>4 DEF StopsOrNone
<1>14. /\ det.floor <= Len(det.output_text) /\ offset <= Len(det.output_text) /\ offset \in Nat
       /\ det.count <= MaxTokens /\ single.det.count <= MaxTokens
       /\ det.count = Len(given) /\ single.det.count <= Len(given)
  BY <1>4, <1>8, <1>10, <1>12
<1>15. finished = FALSE /\ offset = 0
  BY <1>4
<1>16. QED BY <1>1, <1>5, <1>10, <1>11, <1>12, <1>13, <1>14, <1>15, Zenon DEF Sending

\* What stands of a text that was extended and then cut past a place: all up
\* to that place.
LEMMA CutKeeps ==
  ASSUME NEW t \in Texts, NEW s \in Texts, NEW m \in Nat, m <= Len(t) + Len(s),
         NEW p \in Nat, p <= Len(t), p <= m
  PROVE  SubSeq(SubSeq(t \o s, 1, m), 1, p) = SubSeq(t, 1, p)
<1> DEFINE c == t \o s
           u == SubSeq(c, 1, m)
<1>1. t \in Seq(Chars) /\ s \in Seq(Chars) /\ Len(t) \in Nat /\ Len(s) \in Nat
  BY LenProperties DEF Texts
<1>2. c \in Seq(Chars) /\ Len(c) = Len(t) + Len(s)
  BY <1>1, ConcatProperties
<1>3. SubSeq(c, 1, p) = SubSeq(t, 1, p)
  <2>1. p \in 0 .. Len(t) + Len(s)
    BY <1>1
  <2>2. QED BY <2>1, <1>1, PrefixOfConcat
<1> HIDE DEF c
<1>4. m \in 0 .. Len(c) /\ p \in 0 .. Len(c)
  BY <1>1, <1>2
<1>5. /\ u \in Seq(Chars) /\ Len(u) = m /\ \A i \in 1 .. m : u[i] = c[i]
  BY <1>2, <1>4, CutInTwo
<1> HIDE DEF u
<1> DEFINE a == SubSeq(u, 1, p)
           b == SubSeq(c, 1, p)
<1>6. a \in Seq(Chars) /\ Len(a) = p /\ \A i \in 1 .. p : a[i] = u[i]
  <2>1. p \in 0 .. Len(u)
    BY <1>5
  <2>2. QED BY <2>1, <1>5, CutInTwo
<1>7. b \in Seq(Chars) /\ Len(b) = p /\ \A i \in 1 .. p : b[i] = c[i]
  BY <1>2, <1>4, CutInTwo
<1> HIDE DEF a, b
<1>8. \A i \in 1 .. p : i \in 1 .. m
  OBVIOUS
<1>9. a = b
  BY <1>5, <1>6, <1>7, <1>8, SeqEqual
<1>10. QED BY <1>3, <1>9 DEF a, b, c, u

\* The beginning of a text and what follows it.
LEMMA Joined ==
  ASSUME NEW t \in Texts, NEW p \in Nat, NEW q \in Nat, p <= q, q <= Len(t)
  PROVE  SubSeq(t, 1, p) \o SubSeq(t, p + 1, q) = SubSeq(t, 1, q)
<1>1. t \in Seq(Chars) /\ Len(t) \in Nat
  BY LenProperties DEF Texts
<1>2. 1 \in 1 .. Len(t) + 1 /\ p \in 1 - 1 .. Len(t) /\ q \in p .. Len(t)
  BY <1>1
<1>3. QED BY <1>1, <1>2, ConcatAdjacentSubSeq

\* After a step the client has all of the text, or all that is not held back.
LEMMA Sends ==
  ASSUME Sending, ~finished, request' = request, NEW text \in Texts, NEW done \in BOOLEAN,
         get_next_output_text(text, done),
         NEW s \in Texts, NEW m \in Nat, m <= Len(det.output_text) + Len(s),
         text = SubSeq(det.output_text \o s, 1, m), Len(text) = m,
         Len(det.output_text) - stop_buffer_length <= m,
         ~done => m = Len(det.output_text) + Len(s)
  PROVE  /\ offset' \in Nat /\ offset' <= m /\ sent' \in Texts
         /\ ~request.delta => offset' = 0
         /\ done => sent' = text
         /\ ~done => /\ sent' = SubSeq(text, 1, m - stop_buffer_length)
                     /\ request.delta => offset' = IF m > stop_buffer_length
                                                   THEN m - stop_buffer_length ELSE 0
<1> DEFINE old == det.output_text
           b == stop_buffer_length
           L == Len(old)
           n == Len(s)
           length == m - IF done THEN 0 ELSE b
<1>1. /\ old \in Texts /\ L \in Nat /\ n \in Nat /\ b \in Nat /\ request \in Requests
  <2>1. request \in Requests /\ old \in Texts
    BY DEF Sending, Detectors
  <2>2. QED BY <2>1, BufferFacts, LenProperties DEF Texts
<1>2. /\ sent = SubSeq(old, 1, L - b) /\ sent \in Texts /\ offset \in Nat
      /\ request.delta => offset = IF L > b THEN L - b ELSE 0
      /\ ~request.delta => offset = 0
  BY DEF Sending, Held
<1>3. /\ ~request.delta => sent' = SubSeq(text, 1, length) /\ offset' = offset
      /\ request.delta => /\ offset' = IF offset < length THEN length ELSE offset
                          /\ sent' = sent \o SubSeq(text, offset + 1, length)
  BY DEF get_next_output_text
<1>4. m <= L + n /\ L - b <= m /\ (~done => m = L + n) /\ Len(text) = m
  OBVIOUS
<1>5. length \in Int /\ length <= m /\ (done => length = m) /\ (~done => length = m - b)
  BY <1>1
<1>6. /\ length <= 0 => SubSeq(text, 1, length) = <<>>
      /\ \A q \in Nat : q <= m => SubSeq(text, 1, q) \in Texts
      /\ <<>> \in Texts
  <2>1. ASSUME length <= 0 PROVE SubSeq(text, 1, length) = <<>>
    <3> HIDE DEF length
    <3>1. length < 1
      BY <2>1, <1>5
    <3>2. QED BY <3>1, <1>5, SubSeqEmpty
  <2>2. ASSUME NEW q \in Nat, q <= m PROVE SubSeq(text, 1, q) \in Texts
    <3>1. q \in 0 .. Len(text) /\ text \in Seq(Chars)
      BY <2>2, <1>4 DEF Texts
    <3>2. QED BY <3>1, CutInTwo DEF Texts
  <2>3. QED BY <2>1, <2>2, EmptySeq DEF Texts
<1>7. SubSeq(text, 1, m) = text
  <2>1. text \in Seq(Chars)
    BY DEF Texts
  <2>2. QED BY <2>1, <1>4, SubSeqFull
<1> HIDE DEF length, L, n, b
<1>8. CASE ~request.delta
  <2>1. sent' = SubSeq(text, 1, length) /\ offset' = 0
    BY <1>2, <1>3, <1>8
  <2>2. sent' \in Texts
    <3>1. CASE length <= 0
      BY <3>1, <2>1, <1>6
    <3>2. CASE length > 0
      <4>1. length \in Nat /\ length <= m
        BY <3>2, <1>5
      <4>2. QED BY <4>1, <2>1, <1>6
    <3>3. QED BY <3>1, <3>2, <1>5
  <2>3. QED BY <2>1, <2>2, <1>5, <1>7, <1>8 DEF b
<1>9. CASE request.delta
  <2> DEFINE o == IF L > b THEN L - b ELSE 0
  <2>1. offset = o /\ o \in Nat /\ o <= L /\ o <= m
    BY <1>1, <1>2, <1>4, <1>9
  <2>2. sent = SubSeq(text, 1, o)
    <3>1. sent = SubSeq(old, 1, o)
      <4>1. CASE L > b
        BY <4>1, <1>2
      <4>2. CASE ~(L > b)
        <5>1. L - b < 1 /\ L - b \in Int /\ o = 0
          BY <4>2, <1>1
        <5>2. SubSeq(old, 1, L - b) = <<>> /\ SubSeq(old, 1, 0) = <<>>
          BY <5>1, SubSeqEmpty
        <5>3. QED BY <5>1, <5>2, <1>2
      <4>3. QED BY <4>1, <4>2
    <3> HIDE DEF o
    <3>2. SubSeq(text, 1, o) = SubSeq(old, 1, o)
      BY <2>1, <1>1, <1>4, CutKeeps DEF L, n
    <3>3. QED BY <3>1, <3>2
  <2>3. CASE o < length
    <3> HIDE DEF o
    <3>1. length \in Nat /\ o <= length /\ length <= Len(text)
      BY <2>1, <2>3, <1>4, <1>5
    <3>2. sent' = SubSeq(text, 1, o) \o SubSeq(text, o + 1, length) /\ offset' = length
      BY <2>1, <2>2, <2>3, <1>3, <1>9
    <3>3. sent' = SubSeq(text, 1, length)
      BY <3>1, <3>2, <2>1, Joined
    <3>4. sent' \in Texts
      BY <3>1, <3>3, <1>4, <1>6
    <3>5. ~done => length = m - b /\ m > b
      BY <3>1, <2>1, <2>3, <1>1, <1>5
    <3>6. QED BY <3>1, <3>2, <3>3, <3>4, <3>5, <1>4, <1>5, <1>7, <1>9 DEF b
  <2>4. CASE ~(o < length)
    <3> HIDE DEF o
    <3>1. offset' = o
      BY <2>1, <2>4, <1>3, <1>9
    <3>2. SubSeq(text, o + 1, length) = <<>>
      <4>1. length < o + 1 /\ o + 1 \in Int
        BY <2>1, <2>4, <1>5
      <4>2. QED BY <4>1, <1>5, SubSeqEmpty
    <3>3. sent' = sent
      <4>1. sent' = sent \o <<>>
        BY <2>1, <3>2, <1>3, <1>9
      <4>2. sent \in Seq(Chars)
        BY <1>2 DEF Texts
      <4>3. QED BY <4>1, <4>2, ConcatEmptySeq
    <3>4. done => o = m
      BY <2>1, <2>4, <1>5
    <3>5. ~done => o = IF m > b THEN m - b ELSE 0
      BY <2>1, <2>4, <1>1, <1>4, <1>5 DEF o
    <3>6. ASSUME ~done PROVE sent = SubSeq(text, 1, m - b)
      <4>1. CASE m > b
        BY <4>1, <3>5, <3>6, <2>2
      <4>2. CASE ~(m > b)
        <5>1. o = 0 /\ m - b < 1 /\ m - b \in Int
          BY <4>2, <3>5, <3>6, <1>1
        <5>2. SubSeq(text, 1, m - b) = <<>> /\ SubSeq(text, 1, 0) = <<>>
          BY <5>1, SubSeqEmpty
        <5>3. QED BY <5>1, <5>2, <2>2
      <4>3. QED BY <4>1, <4>2
    <3>7. QED BY <3>1, <3>3, <3>4, <3>5, <3>6, <2>1, <2>2, <1>2, <1>7, <1>9 DEF b
  <2>5. QED BY <2>3, <2>4
<1>10. QED BY <1>8, <1>9

\* A step that is received keeps what the front end and the client have.
LEMMA SendingNext == Sending /\ [Next]_vars => Sending'
<1> SUFFICES ASSUME Sending, [Next]_vars PROVE Sending'
  OBVIOUS
<1>1. CASE UNCHANGED vars
  BY <1>1 DEF vars, Sending, Held, Singles, StopsOrNone, Stops, Include, stop_buffer_length
<1>2. CASE Receive
  <2>1. PICK chunk \in Chunks, ended \in {"no", "length", "token"} :
          LET out  == update(det, chunk, ended = "token")
              done == ended # "no" \/ out.stop # None
          IN  /\ det' = out.det /\ stopped' = out.stop
              /\ single' = updateEach(single, chunk, ended = "token")
              /\ given' = given \o IF ended = "token" /\ ~Include THEN Front(chunk) ELSE chunk
              /\ finished' = done
              /\ get_next_output_text(out.det.output_text, done)
    BY <1>2 DEF Receive
  <2> DEFINE terminated == ended = "token"
             out == update(det, chunk, terminated)
             done == ended # "no" \/ out.stop # None
             text == out.det.output_text
  <2>2. ~finished /\ request' = request
    BY <1>2 DEF Receive
  <2>3. /\ request \in Requests /\ det \in Detectors /\ det.floor <= Len(det.output_text)
        /\ single \in Singles /\ given \in Seq(Tokens) /\ det.count = Len(given)
        /\ single.det.count <= Len(given)
    BY <2>2 DEF Sending
  <2>4. /\ chunk \in Seq(Tokens) /\ chunk # <<>> /\ Len(chunk) \in Nat \ {0}
        /\ Len(given) + Len(chunk) <= MaxTokens /\ Len(given) \in Nat
    BY <2>3, ChunkFacts, LenProperties
  <2>5. /\ StopsOrNone' = StopsOrNone /\ stop_buffer_length' = stop_buffer_length
        /\ Singles' = Singles
    BY <2>2 DEF StopsOrNone, stop_buffer_length, Stops, Include, Singles
  <2>6. terminated \in BOOLEAN /\ done \in BOOLEAN
    OBVIOUS
  <2>7. /\ det' = out.det /\ stopped' = out.stop /\ finished' = done
        /\ single' = updateEach(single, chunk, terminated)
        /\ given' = given \o Taken(chunk, terminated)
        /\ get_next_output_text(text, done)
    BY <2>1 DEF Taken
  <2> HIDE DEF terminated, out, done
  <2>8. /\ out.det \in Detectors /\ out.det.check = 0 /\ out.stop \in StopsOrNone
        /\ out.det.count = det.count + Len(chunk)
        /\ \E s \in Texts, m \in Nat :
             /\ m <= Len(det.output_text) + Len(s)
             /\ text = SubSeq(det.output_text \o s, 1, m) /\ Len(text) = m
             /\ out.det.floor <= m /\ Len(det.output_text) - stop_buffer_length <= m
             /\ out.stop = None => m = Len(det.output_text) + Len(s)
    <3>1. ASSUME NEW d \in Detectors, d.floor <= Len(d.output_text), NEW c \in Seq(Tokens),
                 c # <<>>, NEW t \in BOOLEAN
          PROVE  Cuts(update(d, c, t), d, Len(c))
      BY <2>3, <3>1, UpdateCuts
    <3>2. Cuts(out, det, Len(chunk))
      BY <3>1, <2>3, <2>4, <2>6 DEF out
    <3>3. QED BY <3>2 DEF Cuts
  <2>9. PICK s \in Texts, m \in Nat :
          /\ m <= Len(det.output_text) + Len(s)
          /\ text = SubSeq(det.output_text \o s, 1, m) /\ Len(text) = m
          /\ out.det.floor <= m /\ Len(det.output_text) - stop_buffer_length <= m
          /\ out.stop = None => m = Len(det.output_text) + Len(s)
    BY <2>8
  <2>10. text \in Texts /\ (~done => out.stop = None /\ ~terminated)
    BY <2>8 DEF Detectors, done, terminated
  <2> HIDE DEF text
  <2>11. /\ offset' \in Nat /\ offset' <= m /\ sent' \in Texts
         /\ ~request.delta => offset' = 0
         /\ done => sent' = text
         /\ ~done => /\ sent' = SubSeq(text, 1, m - stop_buffer_length)
                     /\ request.delta => offset' = IF m > stop_buffer_length
                                                   THEN m - stop_buffer_length ELSE 0
    BY <2>2, <2>6, <2>7, <2>9, <2>10, Sends
  <2>12. /\ single' \in Singles /\ single'.det.count \in Nat
         /\ single'.det.count <= single.det.count + Len(chunk)
    BY <2>3, <2>4, <2>6, <2>7, EachFacts
  <2>13. /\ given' \in Seq(Tokens)
         /\ ~done => Len(given') = Len(given) + Len(chunk)
    <3>1. Taken(chunk, terminated) \in Seq(Tokens)
      BY <2>4, <2>6, TakenFacts
    <3>2. given' \in Seq(Tokens)
      BY <3>1, <2>3, <2>7, ConcatProperties
    <3>3. ~terminated => Taken(chunk, terminated) = chunk
      BY DEF Taken
    <3>4. Len(given \o chunk) = Len(given) + Len(chunk)
      BY <2>3, <2>4, ConcatProperties
    <3>5. QED BY <3>2, <3>3, <3>4, <2>7, <2>10
  <2>14. det'.output_text = text
    BY <2>7 DEF text
  <2>15. ~done => Held(det.output_text)'
    <3>1. SUFFICES ASSUME ~done PROVE Held(det.output_text)'
      OBVIOUS
    <3>2. /\ sent' = SubSeq(text, 1, Len(text) - stop_buffer_length)
          /\ request.delta => offset' = IF Len(text) > stop_buffer_length
                                        THEN Len(text) - stop_buffer_length ELSE 0
      BY <3>1, <2>9, <2>11
    <3>3. QED BY <3>2, <2>2, <2>5, <2>14 DEF Held
  <2>16. /\ det'.count <= MaxTokens /\ (~done => det'.count = Len(given'))
         /\ single'.det.count <= MaxTokens /\ (~done => single'.det.count <= Len(given'))
    <3> DEFINE a == det'.count
               b == single'.det.count
               c == single.det.count
               g == Len(given)
               h == Len(given')
               k == Len(chunk)
    <3>1. /\ a = g + k /\ b <= c + k /\ b \in Nat /\ c <= g /\ (~done => h = g + k)
          /\ g + k <= MaxTokens /\ k \in Nat /\ g \in Nat /\ c \in Nat
      BY <2>3, <2>4, <2>7, <2>8, <2>12, <2>13 DEF Singles, Detectors
    <3>2. MaxTokens \in Nat
      BY BoundsAssumption
    <3> HIDE DEF a, b, c, g, h, k
    <3>3. a <= MaxTokens /\ (~done => a = h) /\ b <= MaxTokens /\ (~done => b <= h)
      BY <3>1, <3>2
    <3>4. QED BY <3>3 DEF a, b, h
  <2>17. /\ det' \in Detectors /\ det'.check = 0 /\ det'.floor <= Len(det'.output_text)
         /\ stopped' \in StopsOrNone /\ finished' \in BOOLEAN
    BY <2>6, <2>7, <2>8, <2>9, <2>14
  <2>18. Len(det'.output_text) = m
    BY <2>9, <2>14
  <2>19. QED
    BY <2>2, <2>3, <2>5, <2>7, <2>11, <2>12, <2>13, <2>14, <2>15, <2>16, <2>17, <2>18 DEF Sending
<1>3. QED BY <1>1, <1>2 DEF Next

\* Between two steps the client has a beginning of the text that no stop string
\* can reach back into.
THEOREM SendingInvariant == Spec => []Sending
  BY SendingInit, SendingNext, PTL DEF Spec

\* The types of the state, and the bound on what is counted.
THEOREM TypeCorrect == Spec => []TypeOK
<1>1. Sending => TypeOK
  <2> SUFFICES ASSUME Sending PROVE TypeOK
    OBVIOUS
  <2> DEFINE Detector == [output_text : Texts, count : 0 .. MaxTokens,
                          in_reasoning : BOOLEAN, floor : Nat, check : {0}]
  <2>1. MaxTokens \in Nat
    BY BoundsAssumption
  <2>2. ASSUME NEW d \in Detectors, d.check = 0, d.count <= MaxTokens PROVE d \in Detector
    <3>1. d.count \in Nat
      BY DEF Detectors
    <3>2. d.count \in 0 .. MaxTokens /\ d.check \in {0}
      BY <3>1, <2>1, <2>2
    <3>3. QED BY <3>2 DEF Detectors
  <2> HIDE DEF Detector
  <2>3. det \in Detector
    BY <2>2 DEF Sending
  <2>4. /\ single.det \in Detectors /\ single.det.check = 0 /\ single.det.count <= MaxTokens
        /\ single \in [det : Detectors, stop : StopsOrNone]
    BY DEF Sending, Singles
  <2>5. single \in [det : Detector, stop : StopsOrNone]
    BY <2>2, <2>4
  <2>6. offset \in 0 .. Len(det.output_text)
    <3>1. det.output_text \in Texts /\ offset \in Nat /\ offset <= Len(det.output_text)
      BY DEF Sending, Detectors
    <3>2. Len(det.output_text) \in Nat
      BY <3>1, LenProperties DEF Texts
    <3>3. QED BY <3>1, <3>2
  <2>7. stopped \in StopsOrNone /\ given \in Seq(Tokens) /\ sent \in Texts /\ finished \in BOOLEAN
    BY DEF Sending
  <2>8. QED BY <2>3, <2>5, <2>6, <2>7, Zenon DEF TypeOK, Detector, StopsOrNone, Texts, Chars
<1>2. QED BY <1>1, SendingInvariant, PTL

\* Whatever the client has been sent is a beginning of the text the request is left
\* with, at every moment, and all of it in the end: what is held back for the
\* longest stop string suffices, in chunks of any size and with reasoning blocks
\* anywhere (get_next_output_text, stop_buffer_length).
THEOREM SentStands == Spec => []SentTextStands
<1>1. Sending => SentTextStands
  <2> SUFFICES ASSUME Sending PROVE SentTextStands
    OBVIOUS
  <2> DEFINE t == det.output_text
             b == stop_buffer_length
             n == Len(t) - b
  <2>1. t \in Seq(Chars) /\ Len(t) \in Nat /\ b \in Nat
    <3>1. det \in Detectors /\ request \in Requests
      BY DEF Sending
    <3>2. t \in Seq(Chars)
      BY <3>1 DEF Detectors, Texts
    <3>3. QED BY <3>1, <3>2, BufferFacts, LenProperties
  <2>2. CASE finished
    <3>1. sent = t
      BY <2>2 DEF Sending
    <3>2. QED BY <3>1, <2>1 DEF SentTextStands, IsPrefix
  <2>3. CASE ~finished
    <3>1. sent = SubSeq(t, 1, n)
      BY <2>3 DEF Sending, Held
    <3> HIDE DEF t
    <3>2. PICK p \in 0 .. Len(t) : sent = SubSeq(t, 1, p)
      <4>1. CASE n >= 0
        BY <4>1, <3>1, <2>1
      <4>2. CASE ~(n >= 0)
        <5>1. n < 1 /\ n \in Int /\ 0 \in 0 .. Len(t)
          BY <4>2, <2>1
        <5>2. SubSeq(t, 1, n) = <<>> /\ SubSeq(t, 1, 0) = <<>>
          BY <5>1, SubSeqEmpty
        <5>3. QED BY <5>1, <5>2, <3>1
      <4>3. QED BY <4>1, <4>2
    <3>3. sent \in Seq(Chars) /\ Len(sent) = p
      BY <3>2, <2>1, CutInTwo
    <3>4. SubSeq(sent, 1, p) = sent
      BY <3>3, SubSeqFull
    <3>5. IsPrefix(sent, t)
      <4>1. Len(sent) <= Len(t)
        BY <3>3, <2>1
      <4>2. SubSeq(sent, 1, Len(sent)) = SubSeq(t, 1, Len(sent))
        BY <3>2, <3>3, <3>4
      <4>3. QED BY <4>1, <4>2 DEF IsPrefix
    <3>6. QED BY <3>5, <2>3 DEF SentTextStands, t
  <2>4. QED BY <2>2, <2>3
<1>2. QED BY <1>1, SendingInvariant, PTL

---------------------------------------------------------------------------
(* The text of some tokens, their reasoning and their answer.              *)

TextNext(it, x, w) == IF x = {} THEN <<>> ELSE it[x \ {Max(x)}] \o w[Max(x)][2]

TextTable(w) == CHOOSE it : it = [x \in SUBSET (DOMAIN w) |-> TextNext(it, x, w)]

\* Text is the last entry of the table of its partial results.
LEMMA TextIsTable == ASSUME NEW w PROVE Text(w) = TextTable(w)[DOMAIN w]
  BY SMT DEF Text, FoldLeft, MapThenFoldSet, TextTable, TextNext

IsTextOf(f, w) ==
  /\ f \in [0 .. Len(w) -> Texts]
  /\ f[0] = <<>> /\ f[Len(w)] = Text(w)
  /\ \A k \in 1 .. Len(w) : f[k] = f[k - 1] \o w[k][2]

\* The text grows token by token.
LEMMA TextSteps ==
  ASSUME NEW w \in Seq(Tokens)
  PROVE  \E f : IsTextOf(f, w)
<1> DEFINE n == Len(w)
           E(it) == it = [x \in SUBSET (DOMAIN w) |-> TextNext(it, x, w)]
           rt == TextTable(w)
           G == [p \in (1 .. n) \X Texts |-> p[2] \o w[p[1]][2]]
<1>1. n \in Nat /\ DOMAIN w = 1 .. n /\ \A k \in 1 .. n : w[k] \in Tokens
  BY ElementOfSeq, LenProperties
<1>2. <<>> \in Texts /\ \A t \in Texts, k \in 1 .. n : t \o w[k][2] \in Texts
  <2>1. <<>> \in Texts
    BY EmptySeq DEF Texts
  <2>2. ASSUME NEW t \in Texts, NEW k \in 1 .. n PROVE t \o w[k][2] \in Texts
    <3>1. w[k][2] \in Texts
      BY <1>1, TokenFacts
    <3>2. QED BY <3>1, ConcatProperties DEF Texts
  <2>3. QED BY <2>1, <2>2
<1>3. G \in [(1 .. n) \X Texts -> Texts]
  BY <1>2
<1>4. \A k \in 1 .. n, x \in Texts : G[<<k, x>>] = x \o w[k][2]
  OBVIOUS
<1> HIDE DEF n, G
<1>5. PICK it : IsFold(it, n, Texts, <<>>, G)
  BY <1>1, <1>2, <1>3, FoldTable
<1>6. ASSUME NEW x \in SUBSET (1 .. n), x # {}
      PROVE  Max(x) \in 1 .. n /\ x \ {Max(x)} \in SUBSET (1 .. n)
  BY <1>1, <1>6, MaxOfInterval
<1>7. E(it)
  <2>1. ASSUME NEW x \in SUBSET (1 .. n) PROVE it[x] = TextNext(it, x, w)
    <3>1. CASE x = {}
      BY <3>1, <1>5 DEF IsFold, TextNext
    <3>2. CASE x # {}
      <4>1. it[x] = G[<<Max(x), it[x \ {Max(x)}]>>] /\ it[x \ {Max(x)}] \in Texts
        BY <3>2, <1>5, <1>6 DEF IsFold
      <4>2. QED BY <4>1, <3>2, <1>4, <1>6 DEF TextNext
    <3>3. QED BY <3>1, <3>2
  <2>2. it = [x \in SUBSET (1 .. n) |-> it[x]]
    BY <1>5 DEF IsFold
  <2>3. [x \in SUBSET (1 .. n) |-> it[x]] = [x \in SUBSET (1 .. n) |-> TextNext(it, x, w)]
    BY <2>1
  <2>4. QED BY <2>2, <2>3, <1>1, Zenon
<1>8. rt = CHOOSE t : E(t)
  BY DEF TextTable
<1> HIDE DEF E
<1>9. E(rt)
  BY <1>7, <1>8
<1> HIDE DEF rt
<1>10. \A x \in SUBSET (1 .. n) : rt[x] = TextNext(rt, x, w)
  BY <1>1, <1>9 DEF E
<1> DEFINE f == [k \in 0 .. n |-> rt[1 .. k]]
<1>11. f[0] = <<>>
  <2>1. 1 .. 0 = {} /\ 0 \in 0 .. n /\ {} \in SUBSET (1 .. n)
    BY <1>1
  <2>2. QED BY <2>1, <1>10 DEF TextNext
<1>12. ASSUME NEW k \in 1 .. n PROVE f[k] = f[k - 1] \o w[k][2]
  <2>1. k \in Nat \ {0} /\ k <= n /\ k \in 0 .. n /\ k - 1 \in 0 .. n
    BY <1>1
  <2>2. 1 .. k \in SUBSET (1 .. n) /\ 1 .. k # {}
    <3>1. \A i \in 1 .. k : i \in 1 .. n
      BY <1>1, <2>1
    <3>2. k \in 1 .. k
      BY <2>1
    <3>3. QED BY <3>1, <3>2
  <2>3. Max(1 .. k) = k /\ (1 .. k) \ {k} = 1 .. (k - 1)
    BY <2>1, MaxIsLast
  <2>4. rt[1 .. k] = rt[1 .. (k - 1)] \o w[k][2]
    BY <2>2, <2>3, <1>10, Zenon DEF TextNext
  <2>5. f[k] = rt[1 .. k] /\ f[k - 1] = rt[1 .. (k - 1)]
    BY <2>1
  <2>6. QED BY <2>4, <2>5, Zenon
<1>13. f[n] = Text(w)
  <2>1. n \in 0 .. n
    BY <1>1
  <2>2. f[n] = rt[1 .. n]
    BY <2>1
  <2>3. QED BY <2>2, <1>1, TextIsTable, Zenon DEF rt
<1> DEFINE Good == {k \in Nat : k <= n => f[k] \in Texts}
<1>14. \A k \in Nat : k \in Good
  <2>1. 0 \in Good
    BY <1>2, <1>11
  <2>2. ASSUME NEW k \in Nat, k \in Good PROVE k + 1 \in Good
    <3>1. SUFFICES ASSUME k + 1 <= n PROVE f[k + 1] \in Texts
      OBVIOUS
    <3>2. k + 1 \in 1 .. n /\ (k + 1) - 1 = k /\ k <= n
      BY <3>1, <1>1
    <3> HIDE DEF f
    <3>3. f[k + 1] = f[k] \o w[k + 1][2]
      BY <3>2, <1>12
    <3>4. f[k] \in Texts
      BY <3>2, <2>2
    <3>5. QED BY <3>2, <3>3, <3>4, <1>2
  <2> HIDE DEF Good
  <2>3. QED BY <2>1, <2>2, NatInductionSet
<1>15. \A k \in 0 .. n : f[k] \in Texts
  <2>1. \A k \in 0 .. n : k \in Nat /\ k <= n
    BY <1>1
  <2> HIDE DEF f
  <2>2. QED BY <2>1, <1>14
<1>16. f \in [0 .. n -> Texts]
  BY <1>15
<1> HIDE DEF f
<1>17. IsTextOf(f, w)
  BY <1>11, <1>12, <1>13, <1>16 DEF IsTextOf, n
<1>18. QED BY <1>17

\* The text of one token more.
LEMMA TextAppend ==
  ASSUME NEW u \in Seq(Tokens), NEW token \in Tokens
  PROVE  /\ Text(u) \in Texts /\ Text(Append(u, token)) \in Texts
         /\ Text(Append(u, token)) = Text(u) \o token[2]
         /\ Len(Text(u)) \in Nat /\ Len(Text(Append(u, token))) \in Nat
         /\ Len(Text(u)) <= Len(Text(Append(u, token)))
<1> DEFINE v == Append(u, token)
           n == Len(u)
<1>1. /\ v \in Seq(Tokens) /\ Len(v) = n + 1 /\ n \in Nat /\ v[n + 1] = token
      /\ \A i \in 1 .. n : v[i] = u[i]
  BY AppendProperties, LenProperties
<1> HIDE DEF v
<1>2. PICK f : IsTextOf(f, u)
  BY TextSteps
<1>3. PICK g : IsTextOf(g, v)
  BY <1>1, TextSteps
<1> HIDE DEF n
<1>4. /\ f \in [0 .. n -> Texts] /\ f[0] = <<>> /\ f[n] = Text(u)
      /\ \A k \in 1 .. n : f[k] = f[k - 1] \o u[k][2]
      /\ g \in [0 .. n + 1 -> Texts] /\ g[0] = <<>> /\ g[n + 1] = Text(v)
      /\ \A k \in 1 .. n + 1 : g[k] = g[k - 1] \o v[k][2]
  BY <1>1, <1>2, <1>3, Zenon DEF IsTextOf, n
<1> DEFINE Good == {k \in Nat : k <= n => f[k] = g[k]}
<1>5. \A k \in Nat : k \in Good
  <2>1. 0 \in Good
    BY <1>4
  <2>2. ASSUME NEW k \in Nat, k \in Good PROVE k + 1 \in Good
    <3>1. SUFFICES ASSUME k + 1 <= n PROVE f[k + 1] = g[k + 1]
      OBVIOUS
    <3>2. k + 1 \in 1 .. n /\ k + 1 \in 1 .. n + 1 /\ (k + 1) - 1 = k /\ k <= n
      BY <3>1, <1>1
    <3>3. f[k + 1] = f[k] \o u[k + 1][2] /\ g[k + 1] = g[k] \o v[k + 1][2]
      BY <3>2, <1>4
    <3>4. f[k] = g[k] /\ u[k + 1] = v[k + 1]
      BY <3>2, <2>2, <1>1
    <3>5. QED BY <3>3, <3>4, Zenon
  <2> HIDE DEF Good
  <2>3. QED BY <2>1, <2>2, NatInductionSet
<1>6. f[n] = g[n]
  BY <1>1, <1>5
<1>7. Text(v) = Text(u) \o token[2]
  <2>1. n + 1 \in 1 .. n + 1 /\ (n + 1) - 1 = n
    BY <1>1
  <2>2. g[n + 1] = g[n] \o v[n + 1][2]
    BY <2>1, <1>4
  <2>3. QED BY <2>2, <1>1, <1>4, <1>6, Zenon
<1>8. Text(u) \in Texts /\ Text(v) \in Texts
  <2>1. n \in 0 .. n /\ n + 1 \in 0 .. n + 1
    BY <1>1
  <2>2. QED BY <2>1, <1>4
<1>9. token[2] \in Texts
  BY TokenFacts
<1>10. Len(Text(v)) = Len(Text(u)) + Len(token[2]) /\ Len(Text(u)) \in Nat /\ Len(token[2]) \in Nat
  BY <1>7, <1>8, <1>9, ConcatProperties, LenProperties DEF Texts
<1> DEFINE a == Len(Text(v))
           b == Len(Text(u))
           c == Len(token[2])
<1>11. a = b + c /\ b \in Nat /\ c \in Nat
  BY <1>10
<1> HIDE DEF a, b, c
<1>12. a \in Nat /\ b <= a
  BY <1>11
<1>13. QED BY <1>7, <1>8, <1>11, <1>12 DEF v, a, b

\* The text of no token.
LEMMA TextOfNone == Text(<<>>) = <<>>
<1>1. <<>> \in Seq(Tokens) /\ Len(<<>>) = 0
  BY EmptySeq
<1>2. PICK f : IsTextOf(f, <<>>)
  BY <1>1, TextSteps
<1>3. QED BY <1>1, <1>2 DEF IsTextOf

\* Texts are texts.
LEMMA TextTyped == ASSUME NEW u \in Seq(Tokens) PROVE Text(u) \in Texts /\ Len(Text(u)) \in Nat
<1>1. PICK f : IsTextOf(f, u)
  BY TextSteps
<1>2. Len(u) \in 0 .. Len(u)
  BY LenProperties
<1>3. Text(u) \in Texts
  BY <1>1, <1>2 DEF IsTextOf
<1>4. QED BY <1>3, LenProperties DEF Texts

\* Where the reasoning ends in the tokens u: at the last end, or at none.
EndsAt(u, i) ==
  /\ i > 0 => u[i][1] = "end"
  /\ \A j \in (i + 1) .. Len(u) : u[j][1] # "end"

\* Reasoning, of any tokens.
ReasoningOf(u) ==
  IF Open(u) THEN u ELSE SubSeq(u, 1, CHOOSE i \in 0 .. Len(u) : EndsAt(u, i))

\* The text of the reasoning, and that of the tokens up to the minimum.
Floor(u) == Len(Text(ReasoningOf(u)))

Free(u) == Len(Text(SubSeq(u, 1, IF Len(u) < MinTokens THEN Len(u) ELSE MinTokens)))

\* The reasoning ends at one place.
LEMMA EndIsUnique ==
  ASSUME NEW u \in Seq(Tokens), NEW i \in 0 .. Len(u), EndsAt(u, i)
  PROVE  (CHOOSE k \in 0 .. Len(u) : EndsAt(u, k)) = i
<1> DEFINE n == Len(u)
<1>1. n \in Nat
  BY LenProperties
<1>2. ASSUME NEW k \in 0 .. n, EndsAt(u, k), NEW l \in 0 .. n, EndsAt(u, l), k < l PROVE FALSE
  <2>1. l > 0 /\ l \in (k + 1) .. n
    BY <1>1, <1>2
  <2>2. QED BY <2>1, <1>2 DEF EndsAt
<1>3. ASSUME NEW k \in 0 .. n, EndsAt(u, k) PROVE k = i
  <2>1. ~(k < i) /\ ~(i < k)
    BY <1>2, <1>3
  <2>2. QED BY <2>1, <1>1
<1> HIDE DEF n
<1>4. \E k \in 0 .. n : EndsAt(u, k)
  BY DEF n
<1>5. QED BY <1>3, <1>4 DEF n

\* There is such a place.
LEMMA EndExists ==
  ASSUME NEW u \in Seq(Tokens)
  PROVE  \E i \in 0 .. Len(u) : EndsAt(u, i)
<1> DEFINE n == Len(u)
           T == {i \in 1 .. n : u[i][1] = "end"}
<1>1. n \in Nat
  BY LenProperties
<1>2. CASE T = {}
  <2>1. EndsAt(u, 0)
    BY <1>2 DEF EndsAt
  <2>2. QED BY <2>1, <1>1
<1>3. CASE T # {}
  <2>1. T \in SUBSET Nat /\ \A k \in T : k <= n
    BY <1>1
  <2> HIDE DEF T
  <2>2. PICK m \in T : \A k \in T : k <= m
    BY <2>1, <1>1, <1>3, GreatestNat
  <2>3. m \in 1 .. n /\ u[m][1] = "end"
    BY <2>2 DEF T
  <2>4. ASSUME NEW j \in (m + 1) .. n PROVE u[j][1] # "end"
    <3>1. j \in 1 .. n /\ ~(j <= m)
      BY <2>3, <1>1
    <3>2. j \notin T
      BY <3>1, <2>2
    <3>3. QED BY <3>1, <3>2 DEF T
  <2>5. EndsAt(u, m)
    BY <2>3, <2>4 DEF EndsAt
  <2>6. QED BY <2>3, <2>5, <1>1
<1>4. QED BY <1>2, <1>3

\* The reasoning is a beginning of the tokens, all of them while it is open.
LEMMA ReasoningFacts ==
  ASSUME NEW u \in Seq(Tokens)
  PROVE  /\ ReasoningOf(u) \in Seq(Tokens) /\ Floor(u) \in Nat
         /\ Open(u) => ReasoningOf(u) = u
         /\ ~Open(u) => \A i \in 0 .. Len(u) : EndsAt(u, i) => ReasoningOf(u) = SubSeq(u, 1, i)
<1>1. Open(u) => ReasoningOf(u) = u
  BY DEF ReasoningOf
<1>2. ~Open(u) => \A i \in 0 .. Len(u) : EndsAt(u, i) => ReasoningOf(u) = SubSeq(u, 1, i)
  BY EndIsUnique DEF ReasoningOf
<1>3. PICK i \in 0 .. Len(u) : EndsAt(u, i)
  BY EndExists
<1>4. SubSeq(u, 1, i) \in Seq(Tokens)
  BY CutInTwo
<1>5. ReasoningOf(u) \in Seq(Tokens)
  BY <1>1, <1>2, <1>3, <1>4
<1>6. Floor(u) \in Nat
  BY <1>5, TextTyped DEF Floor
<1>7. QED BY <1>1, <1>2, <1>5, <1>6

Gating(u, token) == Open(u) \/ token[1] \in {"start", "end"}

\* One token more: whether the reasoning is open, and up to where it goes.
LEMMA ReasoningAppend ==
  ASSUME ~Reenters, NEW u \in Seq(Tokens), NEW token \in Tokens, Follows(u, token)
  PROVE  /\ Open(Append(u, token)) <=> token[1] # "end" /\ (Open(u) \/ token[1] = "start")
         /\ ReasoningOf(Append(u, token)) =
              IF Gating(u, token) THEN Append(u, token) ELSE ReasoningOf(u)
<1> DEFINE v == Append(u, token)
           n == Len(u)
           kind == token[1]
<1>1. /\ v \in Seq(Tokens) /\ Len(v) = n + 1 /\ n \in Nat /\ v[n + 1] = token
      /\ \A i \in 1 .. n : v[i] = u[i]
      /\ v # <<>>
  BY AppendProperties, LenProperties
<1>2. /\ kind \in {"text", "start", "end"}
      /\ \/ kind = "text"
         \/ kind = "start" /\ u = <<>> /\ ~request.thinking
         \/ kind = "end" /\ Open(u)
  BY TokenFacts DEF Follows
<1>3. /\ Open(u) <=> (\A i \in 1 .. n : u[i][1] # "end") /\ (request.thinking \/ (u # <<>> /\ u[1][1] = "start"))
      /\ Open(v) <=> (\A i \in 1 .. n + 1 : v[i][1] # "end") /\ (request.thinking \/ v[1][1] = "start")
  <2>1. DOMAIN u = 1 .. n /\ DOMAIN v = 1 .. n + 1
    BY <1>1, LenProperties
  <2> HIDE DEF v, n
  <2>2. QED BY <2>1, <1>1 DEF Open
<1> HIDE DEF v
<1>4. (\A i \in 1 .. n + 1 : v[i][1] # "end") <=> (\A i \in 1 .. n : u[i][1] # "end") /\ kind # "end"
  <2>1. \A i \in 1 .. n + 1 : i \in 1 .. n \/ i = n + 1
    BY <1>1
  <2>2. \A i \in 1 .. n : i \in 1 .. n + 1
    BY <1>1
  <2>3. n + 1 \in 1 .. n + 1
    BY <1>1
  <2>4. QED BY <2>1, <2>2, <2>3, <1>1
<1>5. u = <<>> => v[1] = token /\ n = 0
  <2>1. u = <<>> => n = 0
    BY EmptySeq
  <2>2. QED BY <2>1, <1>1
<1>6. u # <<>> => v[1] = u[1]
  <2>1. u # <<>> => 1 \in 1 .. n
    BY <1>1, EmptySeq
  <2>2. QED BY <2>1, <1>1
<1>7. u = <<>> => \A i \in 1 .. n : u[i][1] # "end"
  BY <1>5
<1>8. Open(v) <=> kind # "end" /\ (Open(u) \/ kind = "start")
  BY <1>2, <1>3, <1>4, <1>5, <1>6, <1>7
<1>9. CASE kind = "end"
  <2>1. EndsAt(v, n + 1) /\ n + 1 \in 0 .. Len(v)
    BY <1>1, <1>9 DEF EndsAt
  <2>2. ReasoningOf(v) = SubSeq(v, 1, Len(v))
    BY <2>1, <1>1, <1>8, <1>9, ReasoningFacts
  <2>3. ReasoningOf(v) = v
    BY <2>2, <1>1, SubSeqFull
  <2>4. QED BY <2>3, <1>8, <1>9 DEF Gating, v
<1>10. CASE kind # "end" /\ Gating(u, token)
  <2>1. Open(v)
    BY <1>8, <1>10 DEF Gating
  <2>2. ReasoningOf(v) = v
    BY <2>1, <1>1, ReasoningFacts
  <2>3. QED BY <2>2, <1>8, <1>10 DEF v
<1>11. CASE ~Gating(u, token)
  <2>1. ~Open(u) /\ kind = "text" /\ ~Open(v)
    BY <1>2, <1>8, <1>11 DEF Gating
  <2>2. PICK i \in 0 .. n : EndsAt(u, i)
    BY EndExists
  <2>3. EndsAt(v, i) /\ i \in 0 .. Len(v)
    <3>1. i > 0 => i \in 1 .. n
      OBVIOUS
    <3>2. i > 0 => v[i][1] = "end"
      BY <3>1, <2>2, <1>1 DEF EndsAt
    <3>3. ASSUME NEW j \in (i + 1) .. n + 1 PROVE v[j][1] # "end"
      <4>1. (j \in (i + 1) .. n /\ j \in 1 .. n) \/ j = n + 1
        BY <1>1
      <4>2. QED BY <4>1, <2>1, <2>2, <1>1 DEF EndsAt
    <3>4. QED BY <3>2, <3>3, <1>1 DEF EndsAt
  <2>4. ReasoningOf(u) = SubSeq(u, 1, i) /\ ReasoningOf(v) = SubSeq(v, 1, i)
    BY <2>1, <2>2, <2>3, <1>1, ReasoningFacts
  <2>5. SubSeq(v, 1, i) = SubSeq(u, 1, i)
    <3>1. /\ i \in 0 .. Len(v)
          /\ SubSeq(u, 1, i) \in Seq(Tokens) /\ Len(SubSeq(u, 1, i)) = i
          /\ \A k \in 1 .. i : SubSeq(u, 1, i)[k] = u[k]
      BY <2>3, CutInTwo
    <3>2. /\ SubSeq(v, 1, i) \in Seq(Tokens) /\ Len(SubSeq(v, 1, i)) = i
          /\ \A k \in 1 .. i : SubSeq(v, 1, i)[k] = v[k]
      BY <3>1, <1>1, CutInTwo
    <3>3. \A k \in 1 .. i : k \in 1 .. n
      BY <1>1
    <3> DEFINE p == SubSeq(u, 1, i)
               q == SubSeq(v, 1, i)
    <3>4. /\ p \in Seq(Tokens) /\ Len(p) = i /\ q \in Seq(Tokens) /\ Len(q) = i
          /\ \A k \in 1 .. i : q[k] = p[k]
      BY <3>1, <3>2, <3>3, <1>1
    <3> HIDE DEF p, q
    <3>5. q = p
      BY <3>4, SeqEqual
    <3>6. QED BY <3>5 DEF p, q
  <2>6. QED BY <2>4, <2>5, <1>8, <1>11 DEF v
<1>12. QED BY <1>9, <1>10, <1>11

\* What is known of the places that count when a token is added: they move to
\* the end of the text, or stay.
LEMMA PlacesAppend ==
  ASSUME ~Reenters, request \in Requests, NEW u \in Seq(Tokens), NEW token \in Tokens,
         Follows(u, token)
  PROVE  LET v == Append(u, token)
         IN  /\ Floor(v) = IF Gating(u, token) THEN Len(Text(v)) ELSE Floor(u)
             /\ Free(v) = IF Len(u) + 1 <= MinTokens THEN Len(Text(v)) ELSE Free(u)
<1> DEFINE v == Append(u, token)
           n == Len(u)
<1>1. /\ v \in Seq(Tokens) /\ Len(v) = n + 1 /\ n \in Nat
      /\ \A i \in 1 .. n : v[i] = u[i]
  BY AppendProperties, LenProperties
<1>2. Floor(v) = IF Gating(u, token) THEN Len(Text(v)) ELSE Floor(u)
  BY ReasoningAppend DEF Floor
<1>3. MinTokens \in Nat
  BY StopsFacts
<1> HIDE DEF v
<1>4. CASE n + 1 <= MinTokens
  <2>1. SubSeq(v, 1, IF Len(v) < MinTokens THEN Len(v) ELSE MinTokens) = SubSeq(v, 1, Len(v))
    <3>1. (IF Len(v) < MinTokens THEN Len(v) ELSE MinTokens) = Len(v)
      BY <1>1, <1>3, <1>4
    <3>2. QED BY <3>1
  <2>2. SubSeq(v, 1, Len(v)) = v
    BY <1>1, SubSeqFull
  <2>3. QED BY <2>1, <2>2, <1>2, <1>4 DEF Free, v
<1>5. CASE ~(n + 1 <= MinTokens)
  <2> DEFINE m == MinTokens
  <2>1. /\ (IF Len(v) < MinTokens THEN Len(v) ELSE MinTokens) = m
        /\ (IF n < MinTokens THEN n ELSE MinTokens) = m
        /\ m \in 0 .. n /\ m \in 0 .. Len(v)
    BY <1>1, <1>3, <1>5
  <2> HIDE DEF m
  <2> DEFINE p == SubSeq(u, 1, m)
             q == SubSeq(v, 1, m)
  <2>2. /\ p \in Seq(Tokens) /\ Len(p) = m /\ \A k \in 1 .. m : p[k] = u[k]
    BY <2>1, CutInTwo
  <2>3. /\ q \in Seq(Tokens) /\ Len(q) = m /\ \A k \in 1 .. m : q[k] = v[k]
    BY <2>1, <1>1, CutInTwo
  <2>4. \A k \in 1 .. m : k \in 1 .. n
    BY <2>1, <1>1
  <2> HIDE DEF p, q
  <2>5. p = q
    BY <2>2, <2>3, <2>4, <1>1, SeqEqual
  <2>6. Free(v) = Len(Text(q)) /\ Free(u) = Len(Text(p))
    BY <2>1 DEF Free, p, q
  <2>7. QED BY <2>5, <2>6, <1>2, <1>5 DEF v
<1>6. QED BY <1>4, <1>5

\* Free is a number.
LEMMA FreeTyped ==
  ASSUME request \in Requests, NEW u \in Seq(Tokens)
  PROVE  /\ Free(u) \in Nat
         /\ Len(u) <= MinTokens => Free(u) = Len(Text(u))
<1> DEFINE m == IF Len(u) < MinTokens THEN Len(u) ELSE MinTokens
<1>1. Len(u) \in Nat /\ MinTokens \in Nat
  BY LenProperties, StopsFacts
<1>2. m \in 0 .. Len(u) /\ (Len(u) <= MinTokens => m = Len(u))
  BY <1>1
<1>3. Free(u) = Len(Text(SubSeq(u, 1, m)))
  BY DEF Free
<1> HIDE DEF m
<1>4. SubSeq(u, 1, m) \in Seq(Tokens)
  BY <1>2, CutInTwo
<1>5. SubSeq(u, 1, Len(u)) = u
  BY SubSeqFull
<1>6. QED BY <1>2, <1>3, <1>4, <1>5, TextTyped

\* A detokenizer that has read the tokens u and cut nothing.
At(d, u) ==
  /\ d \in Detectors /\ d.output_text = Text(u) /\ d.count = Len(u)
  /\ d.in_reasoning <=> Open(u)
  /\ d.floor = Floor(u) /\ Floor(u) <= Len(Text(u)) /\ Free(u) <= Len(Text(u))

\* The tokens go on as a model writes them.
Continues(u, tokens) ==
  \A i \in 1 .. Len(tokens) : Follows(u \o SubSeq(tokens, 1, i - 1), tokens[i])

\* v goes on from u.
Extends(u, v) ==
  /\ \E s \in Texts : Text(v) = Text(u) \o s
  /\ Floor(u) <= Floor(v) /\ Free(u) <= Free(v)

\* The stop strings that count in u: past the reasoning and the minimum.
Counted(u) == HitsPast(Text(u), Floor(u), Free(u))

\* Where tokens are joined first does not matter.
LEMMA Joining == \A a, b, c \in Seq(Tokens) : (a \o b) \o c = a \o (b \o c)
BY ConcatAssociative

\* Tokens followed by the first i of some others.
LEMMA Extended ==
  ASSUME NEW u \in Seq(Tokens), NEW tokens \in Seq(Tokens), NEW i \in 1 .. Len(tokens)
  PROVE  /\ u \o SubSeq(tokens, 1, i) = Append(u \o SubSeq(tokens, 1, i - 1), tokens[i])
         /\ u \o SubSeq(tokens, 1, i - 1) \in Seq(Tokens)
         /\ Len(u \o SubSeq(tokens, 1, i - 1)) = Len(u) + (i - 1)
         /\ tokens[i] \in Tokens
<1> DEFINE p == SubSeq(tokens, 1, i - 1)
           q == SubSeq(tokens, 1, i)
           token == tokens[i]
<1>1. Len(tokens) \in Nat /\ i \in Nat /\ i <= Len(tokens) /\ i - 1 \in 0 .. Len(tokens) /\ 1 \in 1 .. Len(tokens)
      /\ i \in 1 .. Len(tokens) /\ token \in Tokens
  BY LenProperties, ElementOfSeq
<1>2. p \in Seq(Tokens) /\ Len(p) = i - 1
  BY <1>1, CutInTwo
<1>3. q = p \o <<token>>
  BY <1>1, SubSeqRecursiveSecond
<1> HIDE DEF p, q, token
<1>4. <<token>> \in Seq(Tokens)
  BY <1>1
<1>5. u \o (p \o <<token>>) = (u \o p) \o <<token>>
  <2>1. \A a, b, c \in Seq(Tokens) : (a \o b) \o c = a \o (b \o c)
    BY Joining
  <2>2. QED BY <2>1, <1>2, <1>4
<1>6. u \o p \in Seq(Tokens) /\ Len(u \o p) = Len(u) + Len(p)
  BY <1>2, ConcatProperties
<1>7. Append(u \o p, token) = (u \o p) \o <<token>>
  BY <1>1, <1>6, AppendIsConcat
<1>8. QED BY <1>1, <1>2, <1>3, <1>5, <1>6, <1>7 DEF p, q, token

\* The text already checked when u was read from old on: what was there, the
\* reasoning, and the tokens up to the minimum, whichever is longest.
Checked(check, old, u) ==
  /\ old <= check /\ Floor(u) <= check /\ Free(u) <= check
  /\ check \in {old, Floor(u), Free(u)}

\* One token is read.
LEMMA TakeAt ==
  ASSUME ~Reenters, request \in Requests, NEW u \in Seq(Tokens), NEW token \in Tokens,
         Follows(u, token), NEW x, At(x, u), NEW old \in Nat, old <= Len(Text(u)),
         Checked(x.check, old, u)
  PROVE  LET v == Append(u, token)
             y == TakeToken(x, token)
         IN  At(y, v) /\ Checked(y.check, old, v) /\ Extends(u, v)
<1> DEFINE v == Append(u, token)
           y == TakeToken(x, token)
           gate == Gating(u, token)
<1>1. v \in Seq(Tokens) /\ Len(v) = Len(u) + 1 /\ Len(u) \in Nat
  BY AppendProperties, LenProperties
<1>2. /\ Text(u) \in Texts /\ Text(v) = Text(u) \o token[2] /\ Len(Text(u)) \in Nat
      /\ Len(Text(v)) \in Nat /\ Len(Text(u)) <= Len(Text(v))
  BY TextAppend
<1>3. /\ Floor(v) = IF gate THEN Len(Text(v)) ELSE Floor(u)
      /\ Free(v) = IF Len(u) + 1 <= MinTokens THEN Len(Text(v)) ELSE Free(u)
  BY PlacesAppend
<1>4. Open(v) <=> token[1] # "end" /\ (Open(u) \/ token[1] = "start")
  BY ReasoningAppend
<1>5. /\ x \in Detectors /\ x.output_text = Text(u) /\ x.count = Len(u)
      /\ x.in_reasoning <=> Open(u)
      /\ x.floor = Floor(u) /\ Floor(u) <= Len(Text(u)) /\ Free(u) <= Len(Text(u))
  BY DEF At
<1>6. /\ y \in Detectors /\ y.output_text = x.output_text \o token[2] /\ y.count = x.count + 1
      /\ y.in_reasoning <=> token[1] # "end" /\ (x.in_reasoning \/ token[1] = "start")
      /\ y.floor = IF Gates(x, token) THEN Len(y.output_text) ELSE x.floor
      /\ y.check = IF Gates(x, token) \/ x.count + 1 <= MinTokens
                   THEN Len(y.output_text) ELSE x.check
  BY <1>5, TakeFacts
<1>7. Gates(x, token) <=> gate
  BY <1>5 DEF Gates, Gating
<1>8. Floor(u) \in Nat /\ Free(u) \in Nat /\ MinTokens \in Nat
  BY ReasoningFacts, FreeTyped, StopsFacts
<1> HIDE DEF v, y, gate
<1>9. y.output_text = Text(v) /\ y.count = Len(v) /\ (y.in_reasoning <=> Open(v))
  BY <1>1, <1>2, <1>4, <1>5, <1>6
<1> DEFINE a == Len(Text(u))
           b == Len(Text(v))
           n == Len(u)
<1>10. /\ a \in Nat /\ b \in Nat /\ n \in Nat /\ a <= b /\ Floor(u) <= a /\ Free(u) <= a
       /\ Floor(v) = IF gate THEN b ELSE Floor(u)
       /\ Free(v) = IF n + 1 <= MinTokens THEN b ELSE Free(u)
       /\ y.floor = IF gate THEN b ELSE Floor(u)
       /\ y.check = IF gate \/ n + 1 <= MinTokens THEN b ELSE x.check
       /\ old <= a
  BY <1>1, <1>2, <1>3, <1>5, <1>6, <1>7, <1>9
<1> HIDE DEF a, b, n
<1>11. y.floor = Floor(v) /\ Floor(v) <= b /\ Free(v) <= b /\ Floor(u) <= Floor(v) /\ Free(u) <= Free(v)
  BY <1>8, <1>10
<1>12. Checked(y.check, old, v)
  <2>1. /\ old <= x.check /\ Floor(u) <= x.check /\ Free(u) <= x.check
        /\ x.check \in {old, Floor(u), Free(u)}
    BY DEF Checked
  <2>2. CASE gate \/ n + 1 <= MinTokens
    <3>1. y.check = b /\ (b = Floor(v) \/ b = Free(v))
      BY <2>2, <1>10
    <3>2. old <= b /\ Floor(v) <= b /\ Free(v) <= b
      BY <1>8, <1>10
    <3>3. QED BY <3>1, <3>2 DEF Checked
  <2>3. CASE ~(gate \/ n + 1 <= MinTokens)
    <3>1. y.check = x.check /\ Floor(v) = Floor(u) /\ Free(v) = Free(u)
      BY <2>3, <1>10
    <3>2. QED BY <3>1, <2>1 DEF Checked
  <2>4. QED BY <2>2, <2>3
<1>13. token[2] \in Texts
  BY TokenFacts
<1>14. Extends(u, v)
  BY <1>2, <1>11, <1>13 DEF Extends
<1>15. At(y, v)
  BY <1>6, <1>9, <1>11 DEF At, b
<1>16. QED BY <1>12, <1>14, <1>15 DEF v, y

\* Going on is transitive, and anything goes on from itself.
LEMMA ExtendsOn ==
  ASSUME request \in Requests, NEW u \in Seq(Tokens), NEW v \in Seq(Tokens), NEW w \in Seq(Tokens)
  PROVE  /\ Extends(u, u)
         /\ Extends(u, v) /\ Extends(v, w) => Extends(u, w)
<1>1. /\ Floor(u) \in Nat /\ Floor(v) \in Nat /\ Floor(w) \in Nat
      /\ Free(u) \in Nat /\ Free(v) \in Nat /\ Free(w) \in Nat /\ Text(u) \in Seq(Chars)
  BY ReasoningFacts, FreeTyped, TextTyped DEF Texts
<1>2. Extends(u, u)
  <2>1. Text(u) = Text(u) \o <<>> /\ <<>> \in Texts
    BY <1>1, ConcatEmptySeq, EmptySeq DEF Texts
  <2>2. \E s \in Texts : Text(u) = Text(u) \o s
    BY <2>1, Zenon
  <2>3. Floor(u) <= Floor(u) /\ Free(u) <= Free(u)
    BY <1>1
  <2>4. QED BY <2>2, <2>3, Zenon DEF Extends
<1>3. ASSUME Extends(u, v), Extends(v, w) PROVE Extends(u, w)
  <2>1. PICK s \in Texts : Text(v) = Text(u) \o s
    BY <1>3 DEF Extends
  <2>2. PICK t \in Texts : Text(w) = Text(v) \o t
    BY <1>3 DEF Extends
  <2>3. s \in Seq(Chars) /\ t \in Seq(Chars)
    BY DEF Texts
  <2>4. (Text(u) \o s) \o t = Text(u) \o (s \o t)
    <3>1. \A a, b, c \in Seq(Chars) : (a \o b) \o c = a \o (b \o c)
      BY ConcatAssociative, SMTT(30)
    <3>2. QED BY <3>1, <2>3, <1>1
  <2>5. Text(w) = Text(u) \o (s \o t)
    BY <2>1, <2>2, <2>4, Zenon
  <2>6. s \o t \in Texts
    BY <2>3, ConcatProperties DEF Texts
  <2>7. Floor(u) <= Floor(w) /\ Free(u) <= Free(w)
    BY <1>1, <1>3 DEF Extends
  <2>8. QED BY <2>5, <2>6, <2>7 DEF Extends
<1>4. QED BY <1>2, <1>3

\* The tokens of a call are read.
LEMMA ReadAt ==
  ASSUME ~Reenters, request \in Requests, NEW u \in Seq(Tokens), NEW d, At(d, u),
         NEW tokens \in Seq(Tokens), Continues(u, tokens)
  PROVE  LET x == Read(d, tokens)
             v == u \o tokens
         IN  At(x, v) /\ Checked(x.check, Len(Text(u)), v) /\ Extends(u, v) /\ v \in Seq(Tokens)
<1> DEFINE n == Len(tokens)
           V(i) == u \o SubSeq(tokens, 1, i)
           old == Len(Text(u))
<1>1. /\ d \in Detectors /\ d.output_text = Text(u) /\ d.count = Len(u)
      /\ d.in_reasoning <=> Open(u)
      /\ d.floor = Floor(u) /\ Floor(u) <= Len(Text(u)) /\ Free(u) <= Len(Text(u))
  BY DEF At
<1>2. PICK f \in [0 .. n -> Detectors] :
        /\ f[0] = [d EXCEPT !.check = Len(d.output_text)] /\ f[n] = Read(d, tokens)
        /\ \A k \in 1 .. n : f[k] = TakeToken(f[k - 1], tokens[k])
  BY <1>1, ReadSteps
<1>3. n \in Nat /\ old \in Nat /\ Floor(u) \in Nat /\ Free(u) \in Nat
  BY LenProperties, TextTyped, ReasoningFacts, FreeTyped
<1>4. V(0) = u /\ V(n) = u \o tokens
  <2>1. SubSeq(tokens, 1, 0) = <<>> /\ SubSeq(tokens, 1, n) = tokens
    BY SubSeqEmpty, SubSeqFull
  <2>2. u \o <<>> = u
    BY ConcatEmptySeq
  <2>3. QED BY <2>1, <2>2
<1>5. At(f[0], u) /\ Checked(f[0].check, old, u)
  <2>1. /\ f[0] \in Detectors /\ f[0].output_text = Text(u) /\ f[0].count = Len(u)
        /\ f[0].in_reasoning = d.in_reasoning /\ f[0].floor = Floor(u) /\ f[0].check = old
    BY <1>1, <1>2, <1>3 DEF Detectors
  <2>2. At(f[0], u)
    BY <2>1, <1>1 DEF At
  <2>3. Checked(f[0].check, old, u)
    BY <2>1, <1>1, <1>3 DEF Checked
  <2>4. QED BY <2>2, <2>3
<1> DEFINE Done(i) == /\ At(f[i], V(i)) /\ Checked(f[i].check, old, V(i)) /\ Extends(u, V(i))
                      /\ V(i) \in Seq(Tokens) /\ old <= Len(Text(V(i)))
<1>6. Done(0)
  <2>1. At(f[0], V(0)) /\ Checked(f[0].check, old, V(0)) /\ V(0) \in Seq(Tokens) /\ Len(Text(V(0))) = old
    BY <1>4, <1>5
  <2>2. Extends(u, u)
    BY ExtendsOn
  <2>3. Extends(u, V(0))
    BY <2>2, <1>4, Zenon
  <2> HIDE DEF V
  <2>4. old <= Len(Text(V(0)))
    BY <2>1, <1>3
  <2>5. QED BY <2>1, <2>3, <2>4
<1>7. ASSUME NEW k \in Nat, k + 1 \in 1 .. n, Done(k) PROVE Done(k + 1)
  <2>1. (k + 1) - 1 = k
    OBVIOUS
  <2>2. /\ V(k + 1) = Append(V(k), tokens[k + 1]) /\ V(k) \in Seq(Tokens) /\ tokens[k + 1] \in Tokens
    <3> DEFINE i == k + 1
    <3>1. i \in 1 .. Len(tokens) /\ i - 1 = k
      BY <1>7, <2>1
    <3> HIDE DEF i
    <3>2. /\ u \o SubSeq(tokens, 1, i) = Append(u \o SubSeq(tokens, 1, i - 1), tokens[i])
          /\ u \o SubSeq(tokens, 1, i - 1) \in Seq(Tokens) /\ tokens[i] \in Tokens
      BY <3>1, Extended, Zenon
    <3>3. V(i) = Append(V(k), tokens[i]) /\ V(k) \in Seq(Tokens) /\ tokens[i] \in Tokens
      BY <3>2, <3>1, Zenon DEF V
    <3>4. QED BY <3>3 DEF i
  <2>3. Follows(V(k), tokens[k + 1])
    BY <1>7, <2>1 DEF Continues
  <2>4. f[k + 1] = TakeToken(f[k], tokens[k + 1])
    BY <1>2, <1>7, <2>1
  <2>5. At(f[k], V(k)) /\ Checked(f[k].check, old, V(k)) /\ Extends(u, V(k)) /\ old <= Len(Text(V(k)))
    BY <1>7
  <2> HIDE DEF V, n, old
  <2>6. At(f[k + 1], V(k + 1)) /\ Checked(f[k + 1].check, old, V(k + 1)) /\ Extends(V(k), V(k + 1))
    BY <2>2, <2>3, <2>4, <2>5, <1>3, TakeAt
  <2>7. V(k + 1) \in Seq(Tokens)
    <3>1. \A w \in Seq(Tokens), token \in Tokens : Append(w, token) \in Seq(Tokens)
      OBVIOUS
    <3>2. QED BY <2>2, <3>1
  <2>8. Extends(u, V(k + 1))
    BY <2>2, <2>5, <2>6, <2>7, ExtendsOn
  <2>9. old <= Len(Text(V(k + 1)))
    <3>1. /\ Len(Text(V(k))) \in Nat /\ Len(Text(V(k + 1))) \in Nat
          /\ Len(Text(V(k))) <= Len(Text(V(k + 1)))
      BY <2>2, TextAppend
    <3>2. QED BY <3>1, <2>5, <1>3
  <2>10. QED BY <2>6, <2>7, <2>8, <2>9
<1> DEFINE Good == {k \in Nat : k <= n => Done(k)}
<1>8. \A k \in Nat : k \in Good
  <2>1. 0 \in Good
    BY <1>6
  <2>2. ASSUME NEW k \in Nat, k \in Good PROVE k + 1 \in Good
    <3>1. SUFFICES ASSUME k + 1 <= n PROVE Done(k + 1)
      OBVIOUS
    <3>2. k + 1 \in 1 .. n /\ k <= n
      BY <3>1, <1>3
    <3> HIDE DEF Done
    <3>3. Done(k)
      BY <2>2, <3>2
    <3>4. QED BY <3>2, <3>3, <1>7
  <2> HIDE DEF Good
  <2>3. QED BY <2>1, <2>2, NatInductionSet
<1>9. Done(n)
  <2> HIDE DEF Done
  <2>1. QED BY <1>3, <1>8
<1>10. QED BY <1>2, <1>4, <1>9

\* The places in a text are those that end in it in a longer one.
LEMMA HitsGrow ==
  ASSUME request \in Requests, NEW text \in Texts, NEW more \in Texts, NEW from \in Nat, NEW h
  PROVE  h \in Hits(text, from) <=> h \in Hits(text \o more, from) /\ h[1] <= Len(text)
<1> DEFINE all == text \o more
           L == Len(text)
           M == Len(all)
           e == h[1]
           n == Len(Stops[h[2]])
<1>1. all \in Texts /\ M = L + Len(more) /\ L \in Nat /\ Len(more) \in Nat
  BY ConcatProperties, LenProperties DEF Texts
<1>2. h \in Hits(text, from) <=>
        /\ h \in (0 .. L) \X (DOMAIN Stops) /\ e - n >= from
        /\ SubSeq(text, e - n + 1, e) = Stops[h[2]]
  BY DEF Hits
<1>3. h \in Hits(all, from) <=>
        /\ h \in (0 .. M) \X (DOMAIN Stops) /\ e - n >= from
        /\ SubSeq(all, e - n + 1, e) = Stops[h[2]]
  BY DEF Hits
<1>4. ASSUME h \in (0 .. M) \X (DOMAIN Stops), e - n >= from, e <= L
      PROVE  /\ h \in (0 .. L) \X (DOMAIN Stops)
             /\ SubSeq(all, e - n + 1, e) = SubSeq(text, e - n + 1, e)
  <2>1. h[2] \in DOMAIN Stops /\ e \in 0 .. M /\ h = <<e, h[2]>>
    BY <1>4
  <2>2. n \in Nat \ {0}
    BY <2>1, StopsFacts
  <2>3. e \in 0 .. L
    BY <2>1, <1>1, <1>4
  <2>4. e - n + 1 \in 1 .. L /\ e \in 1 .. L
    BY <2>2, <2>3, <1>1, <1>4
  <2>5. text \in Seq(Chars) /\ more \in Seq(Chars)
    BY DEF Texts
  <2> HIDE DEF e, n
  <2>6. SubSeq(text \o more, e - n + 1, e) = SubSeq(text, e - n + 1, e)
    BY <2>4, <2>5, SubSeqOfConcat1 DEF L
  <2>7. <<e, h[2]>> \in (0 .. L) \X (DOMAIN Stops)
    BY <2>1, <2>3
  <2>8. h \in (0 .. L) \X (DOMAIN Stops)
    BY <2>1, <2>7
  <2>9. QED BY <2>6, <2>8
<1>5. h \in (0 .. L) \X (DOMAIN Stops) => h \in (0 .. M) \X (DOMAIN Stops) /\ e <= L
  <2> HIDE DEF L, M
  <2>1. 0 .. L \subseteq 0 .. M /\ \A i \in 0 .. L : i <= L
    BY <1>1
  <2>2. QED BY <2>1
<1> HIDE DEF all, L, M, e, n
<1>6. QED BY <1>2, <1>3, <1>4, <1>5 DEF all, L, e

\* A place may be looked for from further ahead.
LEMMA HitsSooner ==
  ASSUME request \in Requests, NEW text \in Texts, NEW from \in Nat, NEW sooner \in Nat,
         sooner <= from, NEW h \in Hits(text, from)
  PROVE  h \in Hits(text, sooner)
<1>1. /\ h \in (0 .. Len(text)) \X (DOMAIN Stops) /\ h[1] - Len(Stops[h[2]]) >= from
      /\ SubSeq(text, h[1] - Len(Stops[h[2]]) + 1, h[1]) = Stops[h[2]]
  BY DEF Hits
<1>2. h[1] \in Nat /\ Len(Stops[h[2]]) \in Nat
  BY HitFacts
<1>3. h[1] - Len(Stops[h[2]]) >= sooner
  BY <1>1, <1>2
<1>4. QED BY <1>1, <1>3 DEF Hits

\* A call searches far enough back, and not too far: what it finds are the
\* places that count, if none did before.
LEMMA Window ==
  ASSUME request \in Requests, NEW u \in Seq(Tokens), NEW v \in Seq(Tokens),
         Counted(u) = {}, Extends(u, v), NEW check, Checked(check, Len(Text(u)), v)
  PROVE  HitsPast(Text(v), Floor(v), check) = Counted(v)
<1> DEFINE old == Len(Text(u))
<1>1. /\ Text(u) \in Texts /\ Text(v) \in Texts /\ old \in Nat
      /\ Floor(u) \in Nat /\ Floor(v) \in Nat /\ Free(u) \in Nat /\ Free(v) \in Nat
  BY TextTyped, ReasoningFacts, FreeTyped
<1>2. PICK s \in Texts : Text(v) = Text(u) \o s
  BY DEF Extends
<1>3. Floor(u) <= Floor(v) /\ Free(u) <= Free(v)
  BY DEF Extends
<1>4. /\ old <= check /\ Floor(v) <= check /\ Free(v) <= check
      /\ check \in {old, Floor(v), Free(v)}
  BY DEF Checked
<1>5. check \in Nat
  BY <1>1, <1>4
<1>6. ASSUME NEW h \in Hits(Text(v), Floor(v)) PROVE h[1] > check <=> h[1] > Free(v)
  <2>1. h[1] \in Nat /\ Floor(v) < h[1]
    BY <1>1, HitFacts
  <2>2. h[1] > check => h[1] > Free(v)
    BY <2>1, <1>1, <1>4, <1>5
  <2>3. ASSUME h[1] > Free(v), h[1] <= old PROVE FALSE
    <3>1. h \in Hits(Text(v), Floor(u))
      BY <1>1, <1>3, HitsSooner
    <3>2. h \in Hits(Text(u), Floor(u))
      BY <3>1, <2>3, <1>1, <1>2, HitsGrow
    <3>3. h[1] > Free(u)
      BY <2>1, <2>3, <1>1, <1>3
    <3>4. QED BY <3>2, <3>3 DEF Counted, HitsPast
  <2>4. QED BY <2>1, <2>2, <2>3, <1>1, <1>4
<1>7. QED BY <1>6 DEF Counted, HitsPast

\* The tokens u leave this stop string and this text: what stands before the
\* place that counts and ends first, or all of it.
Answer(u, stop, text) ==
  IF Counted(u) = {} THEN stop = None /\ text = Text(u)
  ELSE \E h \in Counted(u) : /\ Least(h, Counted(u)) /\ stop = h[2]
                             /\ text = SubSeq(Text(u), 1, CutAt(h))

\* A detokenizer that has cut nothing answers one call.
LEMMA UpdateAnswers ==
  ASSUME ~Reenters, request \in Requests, NEW u \in Seq(Tokens), NEW d, At(d, u), Counted(u) = {},
         NEW tokens \in Seq(Tokens), tokens # <<>>, NEW terminated \in BOOLEAN,
         Continues(u, Taken(tokens, terminated))
  PROVE  LET out == update(d, tokens, terminated)
             v == u \o Taken(tokens, terminated)
         IN  /\ Answer(v, out.stop, out.det.output_text)
             /\ out.stop = None => Counted(v) = {}
             /\ out.stop = None /\ Taken(tokens, terminated) = tokens => At(out.det, v)
             /\ Floor(v) <= Len(Text(v))
<1> DEFINE taken == Taken(tokens, terminated)
           x == Read(d, taken)
           v == u \o taken
           out == update(d, tokens, terminated)
           H == HitsPast(x.output_text, x.floor, x.check)
<1>1. taken \in Seq(Tokens) /\ Len(tokens) \in Nat
  BY TakenFacts
<1>2. d \in Detectors /\ d.count = Len(u) /\ d.floor <= Len(d.output_text)
  BY DEF At
<1>3. /\ out.det = [output_text |-> out.det.output_text, count |-> d.count + Len(tokens),
                    in_reasoning |-> x.in_reasoning, floor |-> x.floor, check |-> 0]
      /\ H = {} => out.stop = None /\ out.det.output_text = x.output_text
      /\ H # {} => \E h \in H : /\ Least(h, H) /\ out.stop = h[2]
                                /\ out.det.output_text = SubSeq(x.output_text, 1, CutAt(h))
  BY <1>2, UpdateFacts
<1> HIDE DEF taken
<1>4. At(x, v) /\ Checked(x.check, Len(Text(u)), v) /\ Extends(u, v) /\ v \in Seq(Tokens)
  BY <1>1, ReadAt DEF taken
<1> HIDE DEF x, v, out
<1>5. x \in Detectors /\ x.output_text = Text(v) /\ x.floor = Floor(v) /\ (x.in_reasoning <=> Open(v))
      /\ Floor(v) <= Len(Text(v)) /\ Free(v) <= Len(Text(v))
  BY <1>4 DEF At
<1>6. HitsPast(Text(v), Floor(v), x.check) = Counted(v)
  BY <1>4, Window
<1>7. H = Counted(v)
  BY <1>5, <1>6
<1> HIDE DEF H
<1>8. ASSUME NEW h \in Counted(v) PROVE h[2] # None
  <2>1. h \in Hits(Text(v), Floor(v))
    BY DEF Counted, HitsPast
  <2>2. h[2] \in Nat \ {0}
    BY <2>1, <1>4, HitFacts, TextTyped, ReasoningFacts
  <2>3. QED BY <2>2 DEF None
<1>9. Answer(v, out.stop, out.det.output_text)
  BY <1>3, <1>5, <1>7 DEF Answer
<1>10. out.stop = None => Counted(v) = {}
  BY <1>3, <1>7, <1>8
<1>11. ASSUME out.stop = None, taken = tokens PROVE At(out.det, v)
  <2>1. out.det.output_text = Text(v)
    BY <1>3, <1>5, <1>7, <1>10, <1>11
  <2>2. Len(v) = Len(u) + Len(tokens)
    BY <1>11, ConcatProperties DEF v
  <2>3. Len(u) + Len(tokens) \in Nat
    BY <1>1, LenProperties
  <2> DEFINE e == out.det
             n == Len(u) + Len(tokens)
  <2>4. e = [output_text |-> e.output_text, count |-> n,
             in_reasoning |-> x.in_reasoning, floor |-> x.floor, check |-> 0]
    BY <1>2, <1>3
  <2>5. e.output_text = Text(v) /\ n = Len(v) /\ n \in Nat
    BY <2>1, <2>2, <2>3
  <2> HIDE DEF e, n
  <2>6. /\ e.count = n /\ e.in_reasoning = x.in_reasoning /\ e.floor = x.floor /\ e.check = 0
    BY <2>4
  <2>7. x.output_text \in Texts /\ x.in_reasoning \in BOOLEAN /\ x.floor \in Nat
    BY <1>5 DEF Detectors
  <2>8. e \in Detectors
    BY <2>4, <2>5, <2>7, <1>5 DEF Detectors
  <2>9. QED BY <2>5, <2>6, <2>8, <1>5 DEF At, e
<1>12. QED BY <1>5, <1>9, <1>10, <1>11 DEF taken, v, out

\* An answer that was cut has a place that counts, and the places are pairs.
LEMMA AnswerFacts ==
  ASSUME request \in Requests, NEW u \in Seq(Tokens)
  PROVE  /\ \A h \in Counted(u) : /\ h \in Hits(Text(u), Floor(u)) /\ h[1] > Free(u)
                                  /\ h[1] \in Nat /\ h[2] \in Nat \ {0} /\ h[2] \in DOMAIN Stops
                                  /\ Floor(u) < h[1] /\ h[1] <= Len(Text(u))
                                  /\ CutAt(h) \in 0 .. h[1]
         /\ \A stop, text : Answer(u, stop, text) => (stop = None <=> Counted(u) = {})
<1>1. Text(u) \in Texts /\ Floor(u) \in Nat
  BY TextTyped, ReasoningFacts
<1>2. ASSUME NEW h \in Counted(u)
      PROVE  /\ h \in Hits(Text(u), Floor(u)) /\ h[1] > Free(u)
             /\ h[1] \in Nat /\ h[2] \in Nat \ {0} /\ h[2] \in DOMAIN Stops
             /\ Floor(u) < h[1] /\ h[1] <= Len(Text(u))
             /\ CutAt(h) \in 0 .. h[1]
  <2>1. h \in Hits(Text(u), Floor(u)) /\ h[1] > Free(u)
    BY DEF Counted, HitsPast
  <2>2. /\ h[1] \in Nat /\ h[2] \in Nat \ {0} /\ h[2] \in DOMAIN Stops
        /\ Floor(u) < h[1] /\ h[1] <= Len(Text(u))
        /\ Len(Stops[h[2]]) \in Nat \ {0} /\ h[1] - Len(Stops[h[2]]) >= Floor(u)
    BY <2>1, <1>1, HitFacts
  <2> DEFINE e == h[1]
             n == Len(Stops[h[2]])
  <2>3. CutAt(h) = IF Include THEN e ELSE e - n
    BY DEF CutAt
  <2>4. e \in Nat /\ n \in Nat \ {0} /\ e - n >= Floor(u)
    BY <2>2
  <2> HIDE DEF e, n
  <2>5. CutAt(h) \in 0 .. e
    BY <2>3, <2>4, <1>1
  <2>6. QED BY <2>1, <2>2, <2>5 DEF e
<1>3. ASSUME NEW stop, NEW text, Answer(u, stop, text) PROVE stop = None <=> Counted(u) = {}
  <2>1. CASE Counted(u) = {}
    BY <1>3, <2>1 DEF Answer
  <2>2. CASE Counted(u) # {}
    <3>1. PICK h \in Counted(u) : stop = h[2]
      BY <1>3, <2>2 DEF Answer
    <3>2. stop # None
      BY <3>1, <1>2 DEF None
    <3>3. QED BY <3>2, <2>2
  <2>3. QED BY <2>1, <2>2
<1>4. QED BY <1>2, <1>3

\* What a place that counts has settled, more tokens do not change: no more
\* reasoning comes, and what they add ends later.
LEMMA AnswerStands ==
  ASSUME ~Reenters, request \in Requests, NEW u \in Seq(Tokens), NEW token \in Tokens,
         Follows(u, token), Counted(u) # {}, NEW stop, NEW text, Answer(u, stop, text)
  PROVE  Answer(Append(u, token), stop, text)
<1> DEFINE v == Append(u, token)
           L == Len(Text(u))
<1>1. /\ Text(u) \in Texts /\ Text(v) = Text(u) \o token[2] /\ L \in Nat
      /\ Floor(u) \in Nat /\ Free(u) \in Nat /\ Len(u) \in Nat /\ MinTokens \in Nat
      /\ token[2] \in Texts /\ v \in Seq(Tokens)
  BY TextAppend, TextTyped, TokenFacts, ReasoningFacts, FreeTyped, StopsFacts, LenProperties, AppendProperties
<1>2. PICK h \in Counted(u) : /\ Least(h, Counted(u)) /\ stop = h[2]
                              /\ text = SubSeq(Text(u), 1, CutAt(h))
  BY DEF Answer
<1>3. /\ h[1] > Free(u) /\ h[1] \in Nat /\ Floor(u) < h[1] /\ h[1] <= L /\ CutAt(h) \in 0 .. h[1]
  BY AnswerFacts
<1>4. ~Open(u)
  <2>1. Open(u) => Floor(u) = L
    BY ReasoningFacts DEF Floor
  <2>2. QED BY <2>1, <1>1, <1>3
<1>5. ~(Len(u) <= MinTokens)
  <2>1. Len(u) <= MinTokens => Free(u) = L
    BY FreeTyped
  <2>2. QED BY <2>1, <1>1, <1>3
<1>6. u # <<>>
  BY <1>1, <1>5, EmptySeq
<1>7. ~Gating(u, token)
  <2>1. token[1] = "text"
    BY <1>4, <1>6 DEF Follows
  <2>2. QED BY <2>1, <1>4 DEF Gating
<1>8. ~(Len(u) + 1 <= MinTokens)
  BY <1>1, <1>5
<1>9. Floor(v) = Floor(u) /\ Free(v) = Free(u)
  BY <1>7, <1>8, PlacesAppend
<1> HIDE DEF v
<1>10. ASSUME NEW g PROVE g \in Counted(u) <=> g \in Counted(v) /\ g[1] <= L
  <2>1. g \in Hits(Text(u), Floor(u)) <=> g \in Hits(Text(v), Floor(u)) /\ g[1] <= L
    BY <1>1, HitsGrow
  <2>2. QED BY <2>1, <1>9 DEF Counted, HitsPast
<1>11. h \in Counted(v)
  BY <1>10
<1>12. ASSUME NEW g \in Counted(v) PROVE Earlier(h, g)
  <2>1. CASE g[1] <= L
    BY <2>1, <1>2, <1>10 DEF Least
  <2>2. CASE ~(g[1] <= L)
    <3>1. g[1] \in Nat
      BY <1>1, AnswerFacts
    <3>2. h[1] < g[1]
      BY <3>1, <2>2, <1>1, <1>3
    <3>3. QED BY <3>2 DEF Earlier
  <2>3. QED BY <2>1, <2>2
<1>13. SubSeq(Text(v), 1, CutAt(h)) = SubSeq(Text(u), 1, CutAt(h))
  <2> DEFINE s == Text(u)
             t == token[2]
             k == CutAt(h)
  <2>1. s \in Seq(Chars) /\ t \in Seq(Chars) /\ Len(t) \in Nat /\ Len(s) \in Nat
    BY <1>1, LenProperties DEF Texts
  <2>2. k \in 0 .. h[1] /\ h[1] \in Nat /\ h[1] <= Len(s)
    BY <1>3
  <2> HIDE DEF s, t, k
  <2>3. k \in 0 .. Len(s) + Len(t) /\ k <= Len(s)
    BY <2>1, <2>2
  <2>4. SubSeq(s \o t, 1, k) = SubSeq(s, 1, k)
    BY <2>1, <2>3, PrefixOfConcat
  <2>5. QED BY <2>4, <1>1 DEF s, t, k
<1>14. Counted(v) # {} /\ Least(h, Counted(v))
  BY <1>11, <1>12 DEF Least
<1>15. text = SubSeq(Text(v), 1, CutAt(h))
  BY <1>2, <1>13
<1>16. Answer(v, stop, text)
  BY <1>2, <1>11, <1>14, <1>15 DEF Answer
<1>17. QED BY <1>16 DEF v

\* A detokenizer fed token by token, the tokens w so far.
Stage(s, w) ==
  /\ s \in Singles /\ w \in Seq(Tokens)
  /\ Answer(w, s.stop, s.det.output_text)
  /\ s.stop = None => At(s.det, w)

\* The next of its calls: it takes the token, or the request ends with it.
LEMMA CallStage ==
  ASSUME ~Reenters, request \in Requests, NEW w, NEW s, Stage(s, w),
         NEW tokens \in Seq(Tokens), NEW terminated \in BOOLEAN, NEW i \in 1 .. Len(tokens)
  PROVE  LET c == CallOne(s, tokens, terminated, i)
             left == terminated /\ i = Len(tokens) /\ ~Include
         IN  /\ ~left /\ Follows(w, tokens[i]) => Stage(c, Append(w, tokens[i]))
             /\ left => Answer(w, c.stop, c.det.output_text)
<1> DEFINE token == tokens[i]
           one == <<token>>
           last == terminated /\ i = Len(tokens)
           left == last /\ ~Include
           c == CallOne(s, tokens, terminated, i)
           v == Append(w, token)
           out == update(s.det, one, last)
<1>1. s \in Singles /\ w \in Seq(Tokens) /\ Answer(w, s.stop, s.det.output_text)
      /\ (s.stop = None => At(s.det, w))
  BY DEF Stage
<1>2. token \in Tokens /\ one \in Seq(Tokens) /\ one # <<>> /\ Len(one) = 1 /\ one[1] = token
      /\ last \in BOOLEAN
  BY ElementOfSeq
<1>3. c \in Singles
  BY <1>1, CallFacts
<1>4. v \in Seq(Tokens) /\ w \o one = v /\ w \o <<>> = w
  BY <1>1, <1>2, AppendProperties, AppendIsConcat, ConcatEmptySeq
<1>5. CASE s.stop # None
  <2>1. c = s
    BY <1>5 DEF CallOne
  <2>2. Counted(w) # {}
    BY <1>1, <1>5, AnswerFacts
  <2>3. ASSUME Follows(w, token) PROVE Answer(v, s.stop, s.det.output_text)
    BY <1>1, <1>2, <2>2, <2>3, AnswerStands
  <2> HIDE DEF c, v
  <2>4. Follows(w, token) => Stage(c, v)
    BY <2>1, <2>3, <1>3, <1>4, <1>5 DEF Stage
  <2>5. QED BY <2>1, <2>4, <1>1 DEF c, v
<1>6. CASE s.stop = None
  <2>1. c = out
    BY <1>6 DEF CallOne
  <2>2. Counted(w) = {} /\ At(s.det, w)
    BY <1>1, <1>6, AnswerFacts
  <2>3. ASSUME ~left, Follows(w, token) PROVE Stage(c, v)
    <3>1. Taken(one, last) = one
      BY <2>3 DEF Taken
    <3>2. Continues(w, one)
      <4>1. ASSUME NEW j \in 1 .. Len(one) PROVE Follows(w \o SubSeq(one, 1, j - 1), one[j])
        <5>1. j = 1
          BY <1>2
        <5>2. SubSeq(one, 1, 1 - 1) = <<>>
          BY SubSeqEmpty
        <5>3. QED BY <5>1, <5>2, <1>2, <1>4, <2>3
      <4>2. QED BY <4>1 DEF Continues
    <3> HIDE DEF out, one, last
    <3>3. /\ Answer(w \o one, out.stop, out.det.output_text)
          /\ out.stop = None => At(out.det, w \o one)
      BY <3>1, <3>2, <1>1, <1>2, <2>2, UpdateAnswers DEF out
    <3> HIDE DEF c, v
    <3>4. QED BY <3>3, <2>1, <1>3, <1>4 DEF Stage
  <2>4. ASSUME left PROVE Answer(w, c.stop, c.det.output_text)
    <3>1. Taken(one, last) = <<>>
      <4>1. Taken(one, last) = Front(one)
        BY <2>4 DEF Taken
      <4>2. Front(one) = SubSeq(one, 1, 1 - 1)
        BY <1>2 DEF Front
      <4>3. SubSeq(one, 1, 1 - 1) = <<>>
        BY SubSeqEmpty
      <4>4. QED BY <4>1, <4>2, <4>3
    <3>2. Continues(w, <<>>)
      BY EmptySeq DEF Continues
    <3> HIDE DEF out, one, last
    <3>3. Answer(w \o <<>>, out.stop, out.det.output_text)
      BY <3>1, <3>2, <1>1, <1>2, <2>2, UpdateAnswers DEF out
    <3>4. QED BY <3>3, <2>1, <1>4
  <2>5. QED BY <2>3, <2>4
<1>7. QED BY <1>5, <1>6

\* The tokens of a chunk, one call each: the answer is that of all of them.
LEMMA EachAnswers ==
  ASSUME ~Reenters, request \in Requests, NEW u, NEW s, Stage(s, u),
         NEW tokens \in Seq(Tokens), tokens # <<>>, NEW terminated \in BOOLEAN,
         Continues(u, Taken(tokens, terminated))
  PROVE  LET e == updateEach(s, tokens, terminated)
             v == u \o Taken(tokens, terminated)
         IN  /\ Answer(v, e.stop, e.det.output_text)
             /\ Taken(tokens, terminated) = tokens => Stage(e, v)
<1> DEFINE n == Len(tokens)
           taken == Taken(tokens, terminated)
           m == Len(taken)
           left == terminated /\ ~Include
           V(i) == u \o SubSeq(taken, 1, i)
           e == updateEach(s, tokens, terminated)
<1>1. s \in Singles /\ u \in Seq(Tokens)
  BY DEF Stage
<1>2. /\ taken \in Seq(Tokens) /\ n \in Nat \ {0} /\ m = (IF left THEN n - 1 ELSE n) /\ m \in Nat
      /\ \A i \in 1 .. m : taken[i] = tokens[i]
  BY TakenFacts, LenProperties
<1>3. PICK f \in [0 .. n -> Singles] :
        /\ f[0] = s /\ f[n] = e
        /\ \A k \in 1 .. n : f[k] = CallOne(f[k - 1], tokens, terminated, k)
  BY <1>1, EachSteps
<1>4. V(0) = u /\ V(m) = u \o taken
  <2>1. SubSeq(taken, 1, 0) = <<>> /\ SubSeq(taken, 1, m) = taken
    BY <1>2, SubSeqEmpty, SubSeqFull
  <2>2. u \o <<>> = u
    BY <1>1, ConcatEmptySeq
  <2>3. QED BY <2>1, <2>2
<1>5. Stage(f[0], V(0))
  BY <1>3, <1>4
<1>6. ASSUME NEW k \in Nat, k + 1 \in 1 .. m, Stage(f[k], V(k)) PROVE Stage(f[k + 1], V(k + 1))
  <2>1. (k + 1) - 1 = k
    OBVIOUS
  <2>2. V(k + 1) = Append(V(k), taken[k + 1])
    BY <1>1, <1>2, <1>6, <2>1, Extended
  <2>3. Follows(V(k), taken[k + 1])
    BY <1>6, <2>1 DEF Continues
  <2>4. k + 1 \in 1 .. n /\ taken[k + 1] = tokens[k + 1] /\ ~(terminated /\ k + 1 = n /\ ~Include)
    BY <1>2, <1>6
  <2>5. f[k + 1] = CallOne(f[k], tokens, terminated, k + 1)
    BY <1>3, <2>1, <2>4
  <2> HIDE DEF V, taken, m
  <2>6. Stage(f[k], V(k)) /\ Follows(V(k), tokens[k + 1])
    BY <1>6, <2>3, <2>4
  <2>7. Stage(CallOne(f[k], tokens, terminated, k + 1), Append(V(k), tokens[k + 1]))
    BY <2>4, <2>6, CallStage
  <2>8. QED BY <2>2, <2>4, <2>5, <2>7
<1> HIDE DEF V, taken, m
<1> DEFINE Good == {k \in Nat : k <= m => Stage(f[k], V(k))}
<1>7. \A k \in Nat : k \in Good
  <2>1. 0 \in Good
    BY <1>5
  <2>2. ASSUME NEW k \in Nat, k \in Good PROVE k + 1 \in Good
    <3>1. SUFFICES ASSUME k + 1 <= m PROVE Stage(f[k + 1], V(k + 1))
      OBVIOUS
    <3>2. k + 1 \in 1 .. m /\ k <= m
      BY <3>1, <1>2
    <3>3. Stage(f[k], V(k))
      BY <2>2, <3>2
    <3>4. QED BY <3>2, <3>3, <1>6
  <2> HIDE DEF Good
  <2>3. QED BY <2>1, <2>2, NatInductionSet
<1>8. Stage(f[m], u \o taken)
  <2>1. m \in Good
    BY <1>2, <1>7
  <2>2. m <= m
    BY <1>2
  <2>3. Stage(f[m], V(m))
    BY <2>1, <2>2
  <2>4. QED BY <2>3, <1>4
<1>9. CASE ~left
  <2>1. f[m] = e
    BY <1>2, <1>3, <1>9
  <2>2. QED BY <2>1, <1>8 DEF Stage, taken
<1>10. CASE left
  <2>1. n \in 1 .. n /\ m = n - 1
    BY <1>2, <1>10
  <2>2. f[n] = CallOne(f[m], tokens, terminated, n)
    BY <2>1, <1>3
  <2> DEFINE v == u \o taken
             t == f[m]
             c == CallOne(t, tokens, terminated, n)
  <2>3. Stage(t, v)
    BY <1>8
  <2>4. terminated /\ n = Len(tokens) /\ ~Include
    BY <1>10
  <2> HIDE DEF v, t
  <2>5. Answer(v, c.stop, c.det.output_text)
    BY <2>1, <2>3, <2>4, CallStage
  <2>6. c = e
    BY <2>2, <1>3 DEF t
  <2>7. taken # tokens
    <3>1. m # n
      BY <2>1, <1>2
    <3>2. QED BY <3>1 DEF m
  <2>8. QED BY <2>5, <2>6, <2>7 DEF v, taken
<1>11. QED BY <1>9, <1>10

---------------------------------------------------------------------------
(* Every answer.                                                           *)

\* Both detokenizers have the answer of the tokens given so far; until the
\* request finishes neither has stopped or cut anything.
Answering ==
  /\ Sending
  /\ Answer(given, stopped, det.output_text)
  /\ Answer(given, single.stop, single.det.output_text)
  /\ Floor(given) <= Len(Text(given))
  /\ ~finished => /\ stopped = None /\ At(det, given)
                  /\ single.stop = None /\ At(single.det, given)

\* Nothing counts in no tokens.
LEMMA AnsweringInit == Init => Answering
<1> SUFFICES ASSUME Init PROVE Answering
  OBVIOUS
<1>1. Sending /\ request \in Requests
  BY SendingInit DEF Init, Requests
<1> DEFINE d == Fresh(request.thinking)
<1>2. det = d /\ single = [det |-> d, stop |-> None] /\ stopped = None /\ given = <<>>
  BY DEF Init
<1>3. /\ <<>> \in Seq(Tokens) /\ <<>> \in Texts /\ Text(<<>>) = <<>> /\ Len(<<>>) = 0
      /\ SubSeq(<<>>, 1, 0) = <<>>
  BY EmptySeq, TextOfNone, SubSeqEmpty DEF Texts
<1>4. d \in Detectors /\ d.output_text = <<>> /\ d.count = 0 /\ d.floor = 0
      /\ d.in_reasoning = request.thinking
  BY <1>1, <1>3 DEF Fresh, Detectors, Requests
<1> HIDE DEF d
<1>5. Open(<<>>) <=> request.thinking
  BY <1>1 DEF Open, Requests
<1>6. Floor(<<>>) = 0
  <2>1. EndsAt(<<>>, 0) /\ 0 \in 0 .. Len(<<>>)
    BY <1>3 DEF EndsAt
  <2>2. ReasoningOf(<<>>) = <<>>
    BY <2>1, <1>3, ReasoningFacts
  <2>3. QED BY <2>2, <1>3 DEF Floor
<1>7. Free(<<>>) = 0
  <2>1. MinTokens \in Nat
    BY <1>1, StopsFacts
  <2>2. Len(<<>>) <= MinTokens
    BY <2>1, <1>3
  <2>3. Free(<<>>) = Len(Text(<<>>))
    BY <2>2, <1>1, <1>3, FreeTyped
  <2>4. QED BY <2>3, <1>3
<1>8. At(d, <<>>)
  BY <1>3, <1>4, <1>5, <1>6, <1>7 DEF At
<1>9. Counted(<<>>) = {}
  <2>1. ASSUME NEW h \in Counted(<<>>) PROVE FALSE
    <3>1. Floor(<<>>) < h[1] /\ h[1] <= Len(Text(<<>>)) /\ h[1] \in Nat
      BY <1>1, <1>3, AnswerFacts
    <3>2. QED BY <3>1, <1>3, <1>6
  <2>2. QED BY <2>1
<1>10. Answer(<<>>, None, <<>>)
  BY <1>3, <1>9 DEF Answer
<1>11. single.det = d /\ single.stop = None
  BY <1>2
<1>12. Floor(given) <= Len(Text(given))
  BY <1>2, <1>3, <1>6
<1>13. QED BY <1>1, <1>2, <1>4, <1>8, <1>10, <1>11, <1>12 DEF Answering

\* The answer depends on the state through the request alone.
LEMMA AnswerKept ==
  ASSUME request' = request
  PROVE  /\ \A u, stop, text : Answer(u, stop, text)' <=> Answer(u, stop, text)
         /\ \A d, u : At(d, u)' <=> At(d, u)
         /\ \A u : Floor(u)' = Floor(u)
<1>1. Stops' = Stops /\ Include' = Include /\ MinTokens' = MinTokens
  BY DEF Stops, Include, MinTokens
<1>2. ASSUME NEW u PROVE Open(u)' <=> Open(u)
  BY DEF Open
<1>3. ASSUME NEW u PROVE ReasoningOf(u)' = ReasoningOf(u)
  BY <1>2 DEF ReasoningOf
<1>4. ASSUME NEW u PROVE Floor(u)' = Floor(u)
  BY <1>3 DEF Floor
<1>5. ASSUME NEW u PROVE Free(u)' = Free(u)
  BY <1>1 DEF Free
<1>6. ASSUME NEW text, NEW from PROVE Hits(text, from)' = Hits(text, from)
  BY <1>1 DEF Hits
<1>7. ASSUME NEW u PROVE Counted(u)' = Counted(u)
  BY <1>4, <1>5, <1>6 DEF Counted, HitsPast
<1>8. ASSUME NEW h PROVE CutAt(h)' = CutAt(h)
  BY <1>1 DEF CutAt
<1>9. ASSUME NEW u, NEW stop, NEW text PROVE Answer(u, stop, text)' <=> Answer(u, stop, text)
  BY <1>7, <1>8 DEF Answer, Least
<1>10. ASSUME NEW d, NEW u PROVE At(d, u)' <=> At(d, u)
  BY <1>2, <1>4, <1>5 DEF At
<1>11. QED BY <1>4, <1>9, <1>10

\* What a call takes of a chunk goes on as the chunk does.
LEMMA TakenContinues ==
  ASSUME NEW u, NEW tokens \in Seq(Tokens), tokens # <<>>, NEW terminated \in BOOLEAN,
         Continues(u, tokens)
  PROVE  Continues(u, Taken(tokens, terminated))
<1> DEFINE taken == Taken(tokens, terminated)
           m == Len(taken)
           n == Len(tokens)
<1>1. /\ taken \in Seq(Tokens) /\ n \in Nat \ {0} /\ m \in Nat /\ m <= n
      /\ \A i \in 1 .. m : taken[i] = tokens[i]
  BY TakenFacts, LenProperties
<1> HIDE DEF taken
<1>2. ASSUME NEW i \in 1 .. m PROVE Follows(u \o SubSeq(taken, 1, i - 1), taken[i])
  <2> DEFINE p == SubSeq(taken, 1, i - 1)
             q == SubSeq(tokens, 1, i - 1)
             k == i - 1
  <2>1. k \in 0 .. m /\ k \in 0 .. n /\ i \in 1 .. n /\ \A j \in 1 .. k : j \in 1 .. m
    BY <1>1
  <2>2. p \in Seq(Tokens) /\ Len(p) = k /\ \A j \in 1 .. k : p[j] = taken[j]
    BY <2>1, <1>1, CutInTwo
  <2>3. q \in Seq(Tokens) /\ Len(q) = k /\ \A j \in 1 .. k : q[j] = tokens[j]
    BY <2>1, <1>1, CutInTwo
  <2> HIDE DEF p, q, k
  <2>4. p = q
    BY <2>1, <2>2, <2>3, <1>1, SeqEqual
  <2>5. Follows(u \o q, tokens[i])
    BY <2>1 DEF Continues, q
  <2>6. QED BY <2>4, <2>5, <1>1 DEF p, q
<1>3. QED BY <1>2 DEF Continues, taken

\* A step that is received gives both detokenizers the answer of all tokens.
LEMMA AnsweringNext == ~Reenters /\ Answering /\ [Next]_vars => Answering'
<1> SUFFICES ASSUME ~Reenters, Answering, [Next]_vars PROVE Answering'
  OBVIOUS
<1>1. Sending'
  BY SendingNext DEF Answering
<1>2. request' = request
  BY DEF Next, Receive, vars
<1>3. CASE UNCHANGED vars
  <2>1. /\ given' = given /\ stopped' = stopped /\ det' = det /\ single' = single
        /\ finished' = finished
    BY <1>3 DEF vars
  <2>2. QED BY <2>1, <1>1, <1>2, AnswerKept DEF Answering
<1>4. CASE Receive
  <2>1. PICK chunk \in Chunks, ended \in {"no", "length", "token"} :
          LET out  == update(det, chunk, ended = "token")
              done == ended # "no" \/ out.stop # None
          IN  /\ det' = out.det /\ stopped' = out.stop
              /\ single' = updateEach(single, chunk, ended = "token")
              /\ given' = given \o IF ended = "token" /\ ~Include THEN Front(chunk) ELSE chunk
              /\ finished' = done
    BY <1>4 DEF Receive
  <2> DEFINE terminated == ended = "token"
             out == update(det, chunk, terminated)
             each == updateEach(single, chunk, terminated)
             done == ended # "no" \/ out.stop # None
             v == given \o Taken(chunk, terminated)
  <2>2. ~finished
    BY <1>4 DEF Receive
  <2>3. /\ request \in Requests /\ given \in Seq(Tokens) /\ single \in Singles
        /\ Answer(given, stopped, det.output_text)
        /\ Answer(given, single.stop, single.det.output_text)
        /\ stopped = None /\ At(det, given) /\ single.stop = None /\ At(single.det, given)
    BY <2>2 DEF Answering, Sending
  <2>4. chunk \in Seq(Tokens) /\ chunk # <<>> /\ Len(chunk) \in Nat
    BY <2>3, ChunkFacts
  <2>5. Continues(given, chunk)
    <3>1. DOMAIN chunk = 1 .. Len(chunk)
      BY <2>4, LenProperties
    <3>2. QED BY <3>1 DEF Chunks, Continues
  <2>6. terminated \in BOOLEAN
    OBVIOUS
  <2>7. /\ det' = out.det /\ stopped' = out.stop /\ finished' = done /\ single' = each /\ given' = v
    BY <2>1 DEF Taken
  <2>8. ~done => out.stop = None /\ ~terminated
    BY DEF done
  <2> HIDE DEF terminated, done
  <2>9. Continues(given, Taken(chunk, terminated))
    BY <2>4, <2>5, <2>6, TakenContinues
  <2>10. Counted(given) = {}
    BY <2>3, AnswerFacts
  <2>11. ~terminated => Taken(chunk, terminated) = chunk
    BY DEF Taken
  <2>12. /\ Answer(v, out.stop, out.det.output_text)
         /\ out.stop = None => Counted(v) = {}
         /\ out.stop = None /\ Taken(chunk, terminated) = chunk => At(out.det, v)
         /\ Floor(v) <= Len(Text(v))
    BY <2>3, <2>4, <2>6, <2>9, <2>10, UpdateAnswers
  <2>13. Stage(single, given)
    BY <2>3 DEF Stage
  <2>14. /\ Answer(v, each.stop, each.det.output_text)
         /\ Taken(chunk, terminated) = chunk => Stage(each, v)
    BY <2>3, <2>4, <2>6, <2>9, <2>13, EachAnswers
  <2>15. v \in Seq(Tokens)
    <3>1. Taken(chunk, terminated) \in Seq(Tokens)
      BY <2>4, <2>6, TakenFacts
    <3>2. QED BY <3>1, <2>3, ConcatProperties
  <2> HIDE DEF out, each, v
  <2>16. ~done => /\ out.stop = None /\ At(out.det, v)
                  /\ each.stop = None /\ At(each.det, v)
    <3> SUFFICES ASSUME ~done
                 PROVE  out.stop = None /\ At(out.det, v) /\ each.stop = None /\ At(each.det, v)
      OBVIOUS
    <3>1. out.stop = None /\ At(out.det, v) /\ Stage(each, v) /\ Counted(v) = {}
      BY <2>8, <2>11, <2>12, <2>14
    <3>2. each.stop = None
      BY <3>1, <2>3, <2>14, <2>15, AnswerFacts
    <3>3. QED BY <3>1, <3>2 DEF Stage
  <2>17. /\ Answer(given', stopped', det'.output_text)
         /\ Answer(given', single'.stop, single'.det.output_text)
         /\ Floor(given') <= Len(Text(given'))
         /\ ~finished' => /\ stopped' = None /\ At(det', given')
                          /\ single'.stop = None /\ At(single'.det, given')
    BY <2>7, <2>12, <2>14, <2>16
  <2>18. QED BY <2>17, <1>1, <1>2, AnswerKept DEF Answering
<1>5. QED BY <1>3, <1>4 DEF Next

\* However the tokens come, both detokenizers have the answer of all of them.
THEOREM AnsweringInvariant ==
  ASSUME ~Reenters
  PROVE  Spec => []Answering
<1>1. Init => Answering
  BY AnsweringInit
<1>2. Answering /\ [Next]_vars => Answering'
  BY AnsweringNext
<1>3. QED BY <1>1, <1>2, PTL DEF Spec

\* The answer of some tokens is one: the place that ends first is unique.
LEMMA AnswerIsUnique ==
  ASSUME request \in Requests, NEW u \in Seq(Tokens), NEW stop1, NEW text1, NEW stop2, NEW text2,
         Answer(u, stop1, text1), Answer(u, stop2, text2)
  PROVE  stop1 = stop2 /\ text1 = text2
<1>1. CASE Counted(u) = {}
  BY <1>1 DEF Answer
<1>2. CASE Counted(u) # {}
  <2>1. PICK g \in Counted(u) : /\ Least(g, Counted(u)) /\ stop1 = g[2]
                                /\ text1 = SubSeq(Text(u), 1, CutAt(g))
    BY <1>2 DEF Answer
  <2>2. PICK h \in Counted(u) : /\ Least(h, Counted(u)) /\ stop2 = h[2]
                                /\ text2 = SubSeq(Text(u), 1, CutAt(h))
    BY <1>2 DEF Answer
  <2>3. g[1] \in Nat /\ g[2] \in Nat /\ h[1] \in Nat /\ h[2] \in Nat
    BY AnswerFacts
  <2>4. Earlier(g, h) /\ Earlier(h, g)
    BY <2>1, <2>2 DEF Least
  <2>5. g[1] = h[1] /\ g[2] = h[2]
    BY <2>3, <2>4 DEF Earlier
  <2>6. CutAt(g) = CutAt(h)
    BY <2>5 DEF CutAt
  <2>7. QED BY <2>1, <2>2, <2>5, <2>6
<1>3. QED BY <1>1, <1>2

\* However speculation cuts the tokens into chunks, the request stops at the
\* stop string, and with the text, that one token at a time would give.
THEOREM ChunksMatchSingle ==
  ASSUME ~Reenters
  PROVE  Spec => []ChunkedAsSingle
<1>1. Answering => ChunkedAsSingle
  <2>1. SUFFICES ASSUME Answering PROVE ChunkedAsSingle
    OBVIOUS
  <2>2. /\ request \in Requests /\ given \in Seq(Tokens)
        /\ Answer(given, stopped, det.output_text)
        /\ Answer(given, single.stop, single.det.output_text)
    BY <2>1 DEF Answering, Sending
  <2>3. stopped = single.stop /\ det.output_text = single.det.output_text
    BY <2>2, AnswerIsUnique
  <2>4. QED BY <2>3 DEF ChunkedAsSingle
<1>2. QED BY <1>1, AnsweringInvariant, PTL

\* The answer ends at the first stop string that counts: one that stands behind
\* the reasoning and ends past the first MinTokens tokens.
THEOREM EndsAtFirstStop ==
  ASSUME ~Reenters
  PROVE  Spec => []AnswerEndsAtFirstStop
<1>1. Answering => AnswerEndsAtFirstStop
  <2> SUFFICES ASSUME Answering PROVE AnswerEndsAtFirstStop
    OBVIOUS
  <2> DEFINE whole  == Text(given)
             from   == Len(Text(Reasoning))
             free   == Len(Text(SubSeq(given, 1, IF Len(given) < MinTokens
                                                 THEN Len(given) ELSE MinTokens)))
             pairs  == {q \in (0 .. Len(whole)) \X DOMAIN Stops :
                          q[1] \in Occurrences(Slice(whole, from), Stops[q[2]])}
             ends   == {<<from + p[1] + Len(Stops[p[2]]), p[2]>> : p \in pairs}
             counts == {e \in ends : e[1] > free}
  <2>1. /\ request \in Requests /\ given \in Seq(Tokens)
        /\ Answer(given, stopped, det.output_text)
    BY DEF Answering, Sending
  <2>2. Reasoning = ReasoningOf(given)
    BY DEF Reasoning, ReasoningOf, EndsAt
  <2>3. from = Floor(given) /\ free = Free(given)
    BY <2>2 DEF Floor, Free
  <2>4. whole \in Texts /\ Len(whole) \in Nat /\ from \in Nat
    BY <2>1, <2>3, TextTyped, ReasoningFacts
  <2> HIDE DEF whole, from, free
  <2>5. from \in 0 .. Len(whole)
    <3>1. from <= Len(whole)
      BY <2>3 DEF Answering, whole
    <3>2. QED BY <3>1, <2>4
  <2>6. ASSUME NEW k \in DOMAIN Stops, NEW i \in Nat
        PROVE  i \in Occurrences(Slice(whole, from), Stops[k]) <=>
                 <<from + i + Len(Stops[k]), k>> \in Hits(whole, from)
    <3> DEFINE n == Len(Stops[k])
               e == from + i + n
    <3>1. n \in Nat \ {0}
      BY <2>1, StopsFacts
    <3>2. i \in Occurrences(Slice(whole, from), Stops[k]) <=>
            e <= Len(whole) /\ SubSeq(whole, from + i + 1, e) = Stops[k]
      BY <2>4, <2>5, <3>1, HitInSlice
    <3>3. e \in Nat /\ e - n >= from /\ e - n + 1 = from + i + 1
      BY <2>4, <3>1
    <3> HIDE DEF e
    <3>4. <<e, k>> \in (0 .. Len(whole)) \X (DOMAIN Stops) <=> e <= Len(whole)
      BY <2>4, <3>3
    <3>5. <<e, k>> \in Hits(whole, from) <=>
            /\ <<e, k>> \in (0 .. Len(whole)) \X (DOMAIN Stops) /\ e - n >= from
            /\ SubSeq(whole, e - n + 1, e) = Stops[k]
      BY DEF Hits
    <3>6. QED BY <3>2, <3>3, <3>4, <3>5 DEF e
  <2>7. ASSUME NEW e \in ends PROVE e \in Hits(whole, from)
    <3>1. PICK p \in pairs : e = <<from + p[1] + Len(Stops[p[2]]), p[2]>>
      OBVIOUS
    <3>2. p[1] \in Nat /\ p[2] \in DOMAIN Stops
          /\ p[1] \in Occurrences(Slice(whole, from), Stops[p[2]])
      BY <2>4
    <3>3. QED BY <3>1, <3>2, <2>6
  <2>8. ASSUME NEW h \in Hits(whole, from) PROVE h \in ends
    <3> DEFINE k == h[2]
               n == Len(Stops[k])
               i == h[1] - n - from
               p == <<i, k>>
    <3>1. /\ h[1] \in Nat /\ k \in DOMAIN Stops /\ n \in Nat \ {0} /\ h = <<h[1], k>>
          /\ h[1] <= Len(whole) /\ h[1] - n >= from
      BY <2>1, <2>4, HitFacts
    <3>2. i \in 0 .. Len(whole) /\ i \in Nat /\ from + i + n = h[1]
      BY <3>1, <2>4
    <3> HIDE DEF i, n, k
    <3>3. h = <<from + i + Len(Stops[k]), k>>
      BY <3>1, <3>2 DEF n
    <3>4. i \in Occurrences(Slice(whole, from), Stops[k])
      BY <3>1, <3>2, <3>3, <2>6
    <3>5. p \in (0 .. Len(whole)) \X DOMAIN Stops /\ p[1] = i /\ p[2] = k
      BY <3>1, <3>2
    <3>6. p \in pairs
      BY <3>4, <3>5
    <3> HIDE DEF p
    <3>7. h = <<from + p[1] + Len(Stops[p[2]]), p[2]>>
      BY <3>3, <3>5
    <3> HIDE DEF pairs
    <3>8. QED BY <3>6, <3>7
  <2>9. ends = Hits(whole, from)
    <3> HIDE DEF ends
    <3>1. QED BY <2>7, <2>8
  <2> HIDE DEF ends
  <2>10. counts = Counted(given)
    BY <2>3, <2>9 DEF Counted, HitsPast, whole
  <2> HIDE DEF counts
  <2>11. IF counts = {} THEN stopped = None /\ det.output_text = whole
         ELSE \E e \in counts :
                /\ \A f \in counts : e[1] < f[1] \/ (e[1] = f[1] /\ e[2] <= f[2])
                /\ stopped = e[2]
                /\ det.output_text =
                     SubSeq(whole, 1, e[1] - IF Include THEN 0 ELSE Len(Stops[e[2]]))
    <3>1. CASE counts = {}
      BY <3>1, <2>1, <2>10 DEF Answer, whole
    <3>2. CASE counts # {}
      <4>1. PICK h \in counts : /\ Least(h, counts) /\ stopped = h[2]
                                /\ det.output_text = SubSeq(whole, 1, CutAt(h))
        BY <3>2, <2>1, <2>10 DEF Answer, whole
      <4>2. \A f \in counts : h[1] < f[1] \/ (h[1] = f[1] /\ h[2] <= f[2])
        BY <4>1 DEF Least, Earlier
      <4>3. h[1] \in Nat
        BY <2>1, <2>10, AnswerFacts
      <4>4. CutAt(h) = h[1] - IF Include THEN 0 ELSE Len(Stops[h[2]])
        BY <4>3 DEF CutAt
      <4>5. QED BY <4>1, <4>2, <4>4, <3>2
    <3>3. QED BY <3>1, <3>2
  <2>12. QED
    BY <2>11 DEF AnswerEndsAtFirstStop, counts, ends, pairs, whole, from, free
<1>2. QED BY <1>1, AnsweringInvariant, PTL
=============================================================================
